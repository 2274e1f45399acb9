------------------------- MODULE SSARenaming_proofs --------------------------
(***************************************************************************)
(* Renaming, proved for every function: the version of an operand is that  *)
(* of the one definition that reaches it, wherever definitions meet in     *)
(* phis.  And the types of the SSA builder, in all of its phases.          *)
(***************************************************************************)
EXTENDS SSABuilder_proofs

-----------------------------------------------------------------------------
\* Through is the least set of blocks that has the starts, and with a block that does not
\* assign the register those it leads to.
LEMMA ThroughFacts ==
  ASSUME Drawn, NEW S \in SUBSET Blocks, NEW r
  PROVE  /\ Through(S, r) \in SUBSET Blocks /\ S \subseteq Through(S, r)
         /\ \A b \in Through(S, r) : DefinitionsIn(b, r) = {} => Succ(b) \subseteq Through(S, r)
         /\ \A P \in SUBSET Blocks :
              S \subseteq P /\ (\A b \in P : DefinitionsIn(b, r) = {} => Succ(b) \subseteq P) => Through(S, r) \subseteq P
<1> DEFINE F == [b \in Blocks |-> IF DefinitionsIn(b, r) = {} THEN Succ(b) ELSE {}]
           n == Len(blocks)
           all == Grown(n, F, S)
<1>1. Through(S, r) = all
  BY DEF Through, Iterate, Grown, Grows, Succ
<1>2. n \in Nat /\ Blocks = 1..n
  BY DEF Drawn
<1>3. F \in [1..n -> SUBSET (1..n)] /\ \A b \in Blocks : F[b] = IF DefinitionsIn(b, r) = {} THEN Succ(b) ELSE {}
  <2>1. \A b \in Blocks : Succ(b) \in SUBSET Blocks
    BY DEF Succ, Drawn, Seqs!ToSet
  <2> QED BY <1>2, <2>1
<1> HIDE DEF F, n
<1>4. /\ all \in SUBSET (1..n) /\ S \subseteq all
      /\ \A b \in all : F[b] \subseteq all
      /\ \A P \in SUBSET (1..n) : S \subseteq P /\ (\A b \in P : F[b] \subseteq P) => all \subseteq P
  BY <1>2, <1>3, GrownFacts
<1> HIDE DEF all
<1>5. \A b \in all : DefinitionsIn(b, r) = {} => Succ(b) \subseteq all
  BY <1>2, <1>3, <1>4
<1>6. ASSUME NEW P \in SUBSET Blocks, S \subseteq P, \A b \in P : DefinitionsIn(b, r) = {} => Succ(b) \subseteq P
      PROVE  all \subseteq P
  <2>1. \A b \in P : F[b] \subseteq P
    BY <1>3, <1>6
  <2> QED BY <1>2, <1>4, <1>6, <2>1
<1> QED BY <1>1, <1>2, <1>4, <1>5, <1>6

\* No two blocks dominate one another.
LEMMA OneWay ==
  ASSUME Drawn, NEW a \in Reachable, NEW d \in Reachable, a # d, d \notin Around(a)
  PROVE  a \in Around(d)
<1>1. a \in Blocks /\ d \in Blocks
  BY AroundFacts DEF Drawn
<1>2. /\ Around(a) \in SUBSET Blocks /\ Around(d) \in SUBSET Blocks /\ a \notin Around(a)
      /\ \A c \in Around(a) : \A e \in Succ(c) : e = a \/ e \in Around(a)
      /\ \A c \in Around(d) : \A e \in Succ(c) : e = d \/ e \in Around(d)
      /\ a # 1 => 1 \in Around(a)
      /\ d # 1 => 1 \in Around(d)
      /\ \A P \in SUBSET Blocks : 1 \in P /\ (\A c \in P : Succ(c) \subseteq P) => Reachable \subseteq P
  BY <1>1, AroundFacts
<1> SUFFICES ASSUME a \notin Around(d) PROVE FALSE
  OBVIOUS
<1> DEFINE P == Around(a) \cap Around(d)
<1>3. P \in SUBSET Blocks /\ 1 \in P
  BY <1>2
<1>4. \A c \in P : Succ(c) \subseteq P
  BY <1>2
<1>5. Reachable \subseteq P
  <2> HIDE DEF P
  <2> QED BY <1>2, <1>3, <1>4
<1> QED BY <1>2, <1>5

-----------------------------------------------------------------------------
\* What is said of a register whose definitions meet in phis and whose blocks assign it once.
OneEach(r) == \A b \in Reachable : \A i, j \in DefinitionsIn(b, r) : i = j
PhisDefine(r) == \A b \in Blocks : r \in phis[b] => DefinitionsIn(b, r) # {}
Housed == \A b \in Blocks : \A i \in InstructionsOf(b) : BlockForInstruction(i) = b /\ i \in Nat \ {0}

\* Where a definition leaves a value.
Starting(d) == IF d = 0 THEN {1} ELSE Succ(BlockForInstruction(d))

LEMMA ReachedFacts ==
  ASSUME Linked, Housed, NEW r, NEW d \in Leaving(r)
  PROVE  /\ Starting(d) \in SUBSET Reachable /\ ReachedBy(d, r) \in SUBSET Reachable
         /\ Starting(d) \subseteq ReachedBy(d, r)
         /\ \A b \in ReachedBy(d, r) : DefinitionsIn(b, r) = {} => Succ(b) \subseteq ReachedBy(d, r)
         /\ \A P \in SUBSET Blocks :
              Starting(d) \subseteq P /\ (\A b \in P : DefinitionsIn(b, r) = {} => Succ(b) \subseteq P) => ReachedBy(d, r) \subseteq P
         /\ d # 0 => /\ BlockForInstruction(d) \in Reachable /\ d \in DefinitionsIn(BlockForInstruction(d), r)
         /\ d = 0 => r = Mem
<1>1. Drawn /\ Reachable \in SUBSET Blocks /\ 1 \in Reachable /\ \A b \in Reachable : Succ(b) \subseteq Reachable
  BY AroundFacts DEF Linked, Drawn
<1>2. (d = 0 /\ r = Mem) \/ \E b \in Reachable : d \in DefinitionsIn(b, r)
  BY DEF Leaving, Latest
<1>3. \A b \in Reachable : d \in DefinitionsIn(b, r) => BlockForInstruction(d) = b /\ d # 0
  BY <1>1 DEF Housed, DefinitionsIn
<1>4. /\ d # 0 => BlockForInstruction(d) \in Reachable /\ d \in DefinitionsIn(BlockForInstruction(d), r)
      /\ d = 0 => r = Mem
  BY <1>2, <1>3
<1>5. Starting(d) \in SUBSET Reachable
  BY <1>1, <1>4 DEF Starting
<1>6. ReachedBy(d, r) = Through(Starting(d), r)
  BY DEF ReachedBy, Starting, Succ
<1>7. Starting(d) \in SUBSET Blocks
  BY <1>1, <1>5
<1>8. /\ Through(Starting(d), r) \in SUBSET Blocks /\ Starting(d) \subseteq Through(Starting(d), r)
      /\ \A b \in Through(Starting(d), r) : DefinitionsIn(b, r) = {} => Succ(b) \subseteq Through(Starting(d), r)
      /\ \A P \in SUBSET Blocks :
              Starting(d) \subseteq P /\ (\A b \in P : DefinitionsIn(b, r) = {} => Succ(b) \subseteq P) => Through(Starting(d), r) \subseteq P
  BY <1>1, <1>7, ThroughFacts
<1>9. Through(Starting(d), r) \subseteq Reachable
  BY <1>1, <1>5, <1>8
<1> QED BY <1>4, <1>5, <1>6, <1>8, <1>9

\* What cannot be left out on the ways to a block, and assigns, lets nothing through.
LEMMA Intercepted ==
  ASSUME Linked, Housed, NEW r, NEW d \in Leaving(r), NEW y \in Reachable, DefinitionsIn(y, r) # {},
         Starting(d) \subseteq Around(y) \cup {y}
  PROVE  ReachedBy(d, r) \subseteq Around(y) \cup {y}
<1>1. Drawn /\ y \in Blocks
  BY AroundFacts DEF Linked, Drawn
<1>2. Around(y) \in SUBSET Blocks /\ \A c \in Around(y) : \A e \in Succ(c) : e = y \/ e \in Around(y)
  BY <1>1, AroundFacts DEF Linked, Drawn
<1> DEFINE P == Around(y) \cup {y}
<1>3. P \in SUBSET Blocks /\ \A b \in P : DefinitionsIn(b, r) = {} => Succ(b) \subseteq P
  BY <1>1, <1>2
<1> HIDE DEF P
<1>4. Starting(d) \subseteq P
  BY DEF P
<1>5. ReachedBy(d, r) \subseteq P
  BY <1>3, <1>4, ReachedFacts
<1> QED BY <1>5 DEF P

\* A block without a phi begins with what a definition has left only if it is dominated by it.
LEMMA ReachedDominated ==
  ASSUME Linked, Housed, NEW r, PhisDefine(r), MeetInPhis(r), NEW d \in Leaving(r), d # 0, NEW b \in ReachedBy(d, r),
         b \notin Undefined(r), r \notin phis[b]
  PROVE  BlockForInstruction(d) \in Doms(b) /\ BlockForInstruction(d) # b
<1> DEFINE x == BlockForInstruction(d)
           Fine(c) == c \in Undefined(r) \/ r \in phis[c] \/ (x \in Doms(c) /\ x # c)
           P == {c \in ReachedBy(d, r) : Fine(c)}
<1>1. /\ Starting(d) \in SUBSET Reachable /\ ReachedBy(d, r) \in SUBSET Reachable
      /\ Starting(d) \subseteq ReachedBy(d, r)
      /\ \A c \in ReachedBy(d, r) : DefinitionsIn(c, r) = {} => Succ(c) \subseteq ReachedBy(d, r)
      /\ \A Q \in SUBSET Blocks :
           Starting(d) \subseteq Q /\ (\A c \in Q : DefinitionsIn(c, r) = {} => Succ(c) \subseteq Q) => ReachedBy(d, r) \subseteq Q
      /\ x \in Reachable /\ d \in DefinitionsIn(x, r)
  BY ReachedFacts
<1>2. Drawn /\ Reachable \in SUBSET Blocks /\ Starting(d) = Succ(x)
  BY AroundFacts DEF Linked, Drawn, Starting
<1>3. x \in Blocks /\ x \in Doms(x) /\ DefinitionsIn(x, r) # {}
  BY <1>1, <1>2, Transfer
<1>4. ASSUME NEW p \in Reachable, NEW c \in Succ(p), x \in Doms(p), c \in Reachable
      PROVE  Fine(c)
  <2>1. p \in Pred(c) /\ c \in Blocks /\ p \in Blocks
    BY <1>2, <1>4 DEF Linked
  <2>2. p \in Dominated(x)
    BY <1>4 DEF Doms
  <2>3. c \in Undefined(r) \/ (c # x /\ c \in Dominated(x)) \/ r \in phis[c]
    <3>1. ASSUME c \notin Undefined(r)
          PROVE  (c # x /\ c \in Dominated(x)) \/ r \in phis[c]
      BY <1>3, <1>4, <2>1, <2>2, <3>1 DEF MeetInPhis, Pred
    <3> QED BY <3>1
  <2> QED BY <1>3, <2>3 DEF Doms
<1>5. ASSUME NEW p \in P, DefinitionsIn(p, r) = {}, NEW c \in Succ(p)
      PROVE  c \in P
  <2>1. p \in Reachable /\ p \in Blocks /\ c \in ReachedBy(d, r) /\ c \in Reachable
    BY <1>1, <1>2, <1>5
  <2>2. r \notin phis[p]
    BY <1>5, <2>1 DEF PhisDefine
  <2>3. CASE p \in Undefined(r)
    <3>1. r # Mem /\ p \in Through({1}, r)
      BY <2>3 DEF Undefined
    <3>2. {1} \in SUBSET Blocks
      BY <1>2 DEF Drawn
    <3>3. c \in Through({1}, r)
      BY <1>2, <1>5, <3>1, <3>2, ThroughFacts
    <3>4. c \in Undefined(r)
      BY <3>1, <3>3 DEF Undefined
    <3> QED BY <2>1, <3>4
  <2>4. CASE x \in Doms(p)
    BY <1>4, <1>5, <2>1, <2>4
  <2> QED BY <2>2, <2>3, <2>4
<1>6. Starting(d) \subseteq P
  BY <1>1, <1>2, <1>3, <1>4
<1>7. P \in SUBSET Blocks
  BY <1>1, <1>2
<1>8. ReachedBy(d, r) \subseteq P
  <2> HIDE DEF P
  <2> QED BY <1>1, <1>5, <1>6, <1>7
<1> QED BY <1>8

\* So a block without a phi begins with what one definition has left.
LEMMA OneReaches ==
  ASSUME Linked, Housed, NEW r, PhisDefine(r), MeetInPhis(r), OneEach(r), NEW b \in Reachable,
         b \notin Undefined(r), r \notin phis[b],
         NEW d \in Leaving(r), NEW e \in Leaving(r), b \in ReachedBy(d, r), b \in ReachedBy(e, r)
  PROVE  d = e
<1> DEFINE home(i) == BlockForInstruction(i)
<1>1. Drawn /\ Reachable \in SUBSET Blocks /\ 1 \in Reachable /\ b \in Blocks
  BY AroundFacts DEF Linked, Drawn
<1>2. ASSUME NEW v \in Leaving(r), NEW w \in Leaving(r), b \in ReachedBy(v, r), b \in ReachedBy(w, r),
             v # w, w # 0, v # 0 => home(v) \in Doms(home(w))
      PROVE  FALSE
  <2>1. /\ home(w) \in Reachable /\ w \in DefinitionsIn(home(w), r)
        /\ v # 0 => home(v) \in Reachable /\ v \in DefinitionsIn(home(v), r)
    BY <1>2, ReachedFacts
  <2>2. home(w) \in Doms(b) /\ home(w) # b
    BY <1>2, ReachedDominated
  <2>3. v # 0 => home(v) # home(w)
    BY <1>2, <2>1 DEF OneEach
  <2>4. home(w) \in Blocks /\ (v # 0 => home(v) \in Blocks)
    BY <1>1, <2>1
  <2>5. /\ \A c \in Around(home(w)) : \A f \in Succ(c) : f = home(w) \/ f \in Around(home(w))
        /\ home(w) # 1 => 1 \in Around(home(w))
    BY <1>1, <2>4, AroundFacts
  <2>6. v # 0 => home(v) \in Around(home(w))
    <3> SUFFICES ASSUME v # 0 PROVE home(v) \in Around(home(w))
      OBVIOUS
    <3>1. home(w) \notin Around(home(v))
      BY <1>1, <1>2, <2>4, DomsFacts
    <3> QED BY <1>1, <2>1, <2>3, <3>1, OneWay
  <2>7. Starting(v) \subseteq Around(home(w)) \cup {home(w)}
    BY <2>5, <2>6 DEF Starting
  <2>8. ReachedBy(v, r) \subseteq Around(home(w)) \cup {home(w)}
    <3>1. DefinitionsIn(home(w), r) # {}
      BY <2>1
    <3> QED BY <2>1, <2>7, <3>1, Intercepted
  <2>9. b \notin Around(home(w))
    BY <1>1, <2>2, <2>4, DomsFacts
  <2> QED BY <1>2, <2>2, <2>8, <2>9
<1> SUFFICES ASSUME d # e PROVE FALSE
  OBVIOUS
<1>3. CASE d = 0
  BY <1>2, <1>3
<1>4. CASE e = 0
  BY <1>2, <1>4
<1>5. CASE d # 0 /\ e # 0
  <2>1. home(d) \in Doms(b) /\ home(e) \in Doms(b)
    BY <1>5, ReachedDominated
  <2>2. home(d) \in Doms(home(e)) \/ home(e) \in Doms(home(d))
    BY <1>1, <2>1, Chain
  <2> QED BY <1>2, <1>5, <2>2
<1> QED BY <1>3, <1>4, <1>5

-----------------------------------------------------------------------------
\* The code from the time dominators are computed, with phis in it or not: the phis of a
\* block come before whatever uses anything.
OneName(ns) == \A j, k \in DOMAIN ns : ns[j].id = ns[k].id => j = k
PhisFirst ==
  \A b \in Blocks : \A i, j \in InstructionsOf(b) :
    i < j /\ code[j].kind = "phi" => code[i].kind = "phi" \/ code[i].uses = <<>>
PhisThere == \A b \in Blocks : \A r \in phis[b] : \E j \in InstructionsOf(b) : code[j].kind = "phi" /\ Defines(j, r)

Laid ==
  /\ Linked /\ Partition /\ code \in Seq(Instruction)
  /\ phis \in [Blocks -> SUBSET Registers]
  /\ \A i \in DOMAIN code : OneName(code[i].to) /\ (code[i].kind = "phi" => DOMAIN code[i].to = {1})
  /\ PhisFirst /\ PhisThere

\* Blocks that may get a phi begin with something that uses nothing.
JoinsBegin == \A b \in Joining : code[blocks[b].first].uses = <<>>

Drawing == {"blocks", "connect"}
Placing == {"dominate", "frontiers", "phis"}
LaidInv == (pc \notin Drawing => Laid) /\ (pc \in Placing => JoinsBegin)

LEMMA SameGraph ==
  ASSUME Blocks' = Blocks, Len(blocks') = Len(blocks), conns' = conns, preds' = preds
  PROVE  /\ Reachable' = Reachable /\ (Linked => Linked') /\ Joining' = Joining
         /\ \A b : Succ(b)' = Succ(b) /\ Pred(b)' = Pred(b)
         /\ \A b : Doms(b)' = Doms(b) /\ Dominated(b)' = Dominated(b)
<1>1. \A b : Succ(b)' = Succ(b) /\ Pred(b)' = Pred(b)
  BY DEF Succ, Pred
<1>2. \A S, d : LeadTo(S, d)' = LeadTo(S, d)
  BY DEF LeadTo, Iterate
<1>3. Reachable' = Reachable
  BY <1>2 DEF Reachable
<1>4. \A d : Dominated(d)' = Dominated(d)
  BY <1>2 DEF Dominated
<1>5. \A b : Doms(b)' = Doms(b)
  BY <1>4 DEF Doms
<1>6. Linked => Linked'
  BY <1>1, <1>3 DEF Linked, Drawn
<1>7. Joining' = Joining
  BY DEF Joining
<1> QED BY <1>1, <1>3, <1>4, <1>5, <1>6, <1>7

LEMMA LaidKept ==
  ASSUME LaidInv, pc \notin Drawing, pc' \notin Drawing, pc' \in Placing => pc \in Placing,
         UNCHANGED <<code, blocks, conns, preds, phis>>
  PROVE  LaidInv'
<1>1. Blocks' = Blocks /\ Len(blocks') = Len(blocks) /\ (Partition => Partition')
  BY CodeStable
<1>2. (Linked => Linked') /\ Joining' = Joining
  BY <1>1, SameGraph
<1>3. \A b : InstructionsOf(b)' = InstructionsOf(b)
  BY DEF InstructionsOf
<1>4. Laid'
  BY <1>1, <1>2, <1>3 DEF LaidInv, Laid, PhisFirst, PhisThere, Defines
<1>5. pc \in Placing => JoinsBegin'
  BY <1>2 DEF LaidInv, JoinsBegin
<1> QED BY <1>4, <1>5 DEF LaidInv

\* Phis are instructions.
LEMMA WrittenFacts ==
  /\ Written \subseteq Instruction
  /\ \A r \in Registers : /\ Phi(r).kind = "phi" /\ Phi(r).uses = <<>> /\ OneName(Phi(r).to)
                          /\ DOMAIN Phi(r).to = {1} /\ Phi(r).to[1].id = r
<1>1. ASSUME NEW r \in Registers
      PROVE  /\ Phi(r) \in Instruction /\ Phi(r).kind = "phi" /\ Phi(r).uses = <<>> /\ OneName(Phi(r).to)
             /\ DOMAIN Phi(r).to = {1} /\ Phi(r).to[1].id = r
  <2>1. Plain(r) \in Name /\ Plain(r).id = r
    BY DEF Plain, Name
  <2>2. <<Plain(r)>> \in Seq(Name) /\ <<>> \in Seq(Name) /\ <<>> \in Seq(Int) /\ "phi" \in Kind
    BY <2>1 DEF Kind
  <2>3. DOMAIN <<Plain(r)>> = {1} /\ <<Plain(r)>>[1] = Plain(r)
    OBVIOUS
  <2>4. Phi(r) \in Instruction
    <3>1. ASSUME NEW to \in Seq(Name), NEW uses \in Seq(Name), NEW imm \in Seq(Int)
          PROVE  [kind |-> "phi", to |-> to, uses |-> uses, label |-> 0, op |-> "", imm |-> imm, dependent |-> FALSE] \in Instruction
      BY <2>2, <3>1 DEF Instruction, OperationType
    <3> QED BY <2>2, <3>1 DEF Phi
  <2>5. Phi(r).kind = "phi"
    BY Zenon DEF Phi
  <2>6. Phi(r).uses = <<>>
    BY Zenon DEF Phi
  <2>7. Phi(r).to = <<Plain(r)>>
    BY Zenon DEF Phi
  <2>8. OneName(Phi(r).to) /\ DOMAIN Phi(r).to = {1} /\ Phi(r).to[1].id = r
    <3> HIDE DEF Phi, Plain
    <3> QED BY <2>1, <2>3, <2>7 DEF OneName
  <2> QED BY <2>4, <2>5, <2>6, <2>8
<1> QED BY <1>1 DEF Written

LEMMA LaidStart ==
  ASSUME IInv, DInv, StartDominators
  PROVE  LaidInv'
<1>1. /\ pc = "connect" /\ pc' = "dominate" /\ stack = <<>>
      /\ UNCHANGED <<fn, code, blocks, conns, preds, phis>>
  BY DEF StartDominators, graph
<1>2. /\ fn \in Functions /\ code = fn.code /\ phis = [b \in Blocks |-> {}] /\ Partition
      /\ \A s \in Blocks : IsLabel(blocks[s].first) \/ preds[s] = <<>> \/ OnlyFallenInto(s)
  BY <1>1 DEF IInv, CodeInv, CutInv, ConnectInv, Cut
<1>3. Linked
  BY <1>1, GraphLinked
<1>4. /\ code \in Seq(Instruction)
      /\ \A i \in DOMAIN code : /\ code[i].kind # "phi"
                                /\ code[i].kind \in {"label", "jump", "jumpif", "return"} => code[i].to = <<>>
                                /\ code[i].kind \in {"label", "jump", "return"} => code[i].uses = <<>>
                                /\ OneName(code[i].to)
  BY <1>2, FunctionsAssumption DEF OneName
<1>5. \A b \in Blocks : blocks[b].first \in DOMAIN code /\ InstructionsOf(b) \subseteq DOMAIN code
  <2>1. code \in Seq(Written)
    BY <1>2, FunctionFacts
  <2> QED BY <1>2, <2>1, BlockFacts
<1>6. Laid
  BY <1>2, <1>3, <1>4, <1>5 DEF Laid, PhisFirst, PhisThere
<1>7. JoinsBegin
  <2> SUFFICES ASSUME NEW b \in Joining PROVE code[blocks[b].first].uses = <<>>
    BY DEF JoinsBegin
  <2>1. b \in Blocks /\ Len(preds[b]) >= 2
    BY DEF Joining
  <2>2. Len(preds[b]) # 0 /\ Len(preds[b]) # 1
    <3>1. preds[b] \in Seq(Blocks)
      BY <1>3, <2>1 DEF Linked
    <3>2. PICK n \in Nat : n = Len(preds[b])
      BY <3>1
    <3>3. n >= 2
      BY <2>1, <3>2
    <3>4. n # 0 /\ n # 1
      BY <3>3
    <3> QED BY <3>2, <3>4
  <2>3. preds[b] # <<>> /\ ~OnlyFallenInto(b)
    BY <2>2 DEF OnlyFallenInto
  <2> QED BY <1>2, <1>4, <1>5, <2>1, <2>3 DEF IsLabel
<1>8. Blocks' = Blocks /\ Len(blocks') = Len(blocks) /\ (Partition => Partition')
  BY <1>1, CodeStable
<1>9. (Linked => Linked') /\ Joining' = Joining
  BY <1>1, <1>8, SameGraph
<1>10. \A b : InstructionsOf(b)' = InstructionsOf(b)
  BY <1>1 DEF InstructionsOf
<1> QED BY <1>1, <1>6, <1>7, <1>8, <1>9, <1>10 DEF LaidInv, Laid, PhisFirst, PhisThere, Defines, JoinsBegin, Drawing

LEMMA LaidPlaced ==
  ASSUME IInv, LaidInv, PlacePhi
  PROVE  LaidInv'
<1>1. PICK s \in joins :
        IF register \in phis[s] THEN UNCHANGED <<code, blocks, phis, seen, work>>
        ELSE /\ phis' = [phis EXCEPT ![s] = @ \cup {register}]
             /\ code' = Seqs!InsertAt(code, blocks[s].first + 1, Phi(register))
             /\ blocks' = [b \in Blocks |-> Moved(b, s)]
             /\ seen' = seen \cup {s}
             /\ work' = IF s \in seen THEN work ELSE Append(work, s)
  BY Zenon DEF PlacePhi
<1>2. pc = "phis" /\ pc' = "phis" /\ UNCHANGED <<conns, preds>>
  BY DEF PlacePhi
<1>3. CASE register \in phis[s]
  BY <1>1, <1>2, <1>3, LaidKept DEF Drawing, Placing
<1>4. CASE register \notin phis[s]
  <2>1. PICK q \in Registers : q = register
    BY DEF IInv, CodeInv
  <2>2. /\ code \in Seq(Written) /\ Partition /\ JoinsAreLong /\ joins \subseteq Joining
    BY <1>2, PlacingFacts
  <2>3. s \in Blocks /\ s \in Joining /\ blocks[s].first < blocks[s].last
    BY <2>2 DEF Joining, JoinsAreLong
  <2>4. /\ Laid /\ JoinsBegin
    BY <1>2 DEF LaidInv, Drawing, Placing
  <2>0. PICK p : p = PhiPlace(s)
    OBVIOUS
  <2> DEFINE new(i) == Pushed(i, p)
  <2>5. /\ Partition' /\ code' \in Seq(Written) /\ Blocks' = Blocks
        /\ code'[p] = Phi(q) /\ p \in InstructionsOf(s)'
        /\ \A i \in DOMAIN code : code'[new(i)] = code[i]
        /\ \A b \in Blocks : \A i \in InstructionsOf(b) : new(i) \in InstructionsOf(b)'
        /\ \A b \in Blocks : \A j \in InstructionsOf(b)' :
             (j = p /\ b = s) \/ \E i \in InstructionsOf(b) : j = new(i)
        /\ \A b \in Blocks : blocks'[b].first = new(blocks[b].first)
    <3>1. code' = Seqs!InsertAt(code, blocks[s].first + 1, Phi(q)) /\ blocks' = [b \in Blocks |-> Moved(b, s)]
      BY <1>1, <1>4, <2>1
    <3> HIDE DEF Written, Phi
    <3> QED BY <2>0, <2>2, <2>3, <3>1, PlacedFacts
  <2>6. /\ Phi(q).kind = "phi" /\ Phi(q).uses = <<>> /\ OneName(Phi(q).to)
        /\ DOMAIN Phi(q).to = {1} /\ Phi(q).to[1].id = q
    BY WrittenFacts
  <2>7. /\ \A b \in Blocks : InstructionsOf(b) \subseteq DOMAIN code /\ blocks[b].first \in DOMAIN code
        /\ DOMAIN code \subseteq Nat
        /\ \A i \in DOMAIN code : BlockForInstruction(i) \in Blocks /\ i \in InstructionsOf(BlockForInstruction(i))
    BY <2>2, BlockFacts
  <2>8. \A i \in DOMAIN code' : \E c \in Blocks : i \in InstructionsOf(c)'
    <3>1. (\A i \in DOMAIN code : \E c \in Blocks : i \in InstructionsOf(c))'
      BY <2>5 DEF Partition
    <3> QED BY <2>5, <3>1
  <2>9. ASSUME NEW b \in Blocks, NEW j \in InstructionsOf(b)'
        PROVE  \/ j = p /\ b = s /\ code'[j] = Phi(q)
               \/ \E i \in InstructionsOf(b) : j = new(i) /\ code'[j] = code[i]
    BY <2>5, <2>7
  <2> HIDE DEF new
  <2>10. (Linked => Linked') /\ Joining' = Joining
    <3>1. Len(blocks') = Len(blocks)
      <4>1. DOMAIN blocks' = DOMAIN blocks /\ blocks' \in Seq(Stretch) /\ blocks \in Seq(Stretch)
        BY <2>2, <2>5 DEF Blocks, Partition
      <4> HIDE DEF Stretch
      <4> QED BY <4>1
    <3> QED BY <1>2, <2>5, <3>1, SameGraph
  <2>11. code' \in Seq(Instruction)
    <3> HIDE DEF Written, Instruction
    <3> QED BY <2>5, WrittenFacts, SeqSubset
  <2>12. phis' \in [Blocks -> SUBSET Registers] /\ phis'[s] = phis[s] \cup {q} /\ \A b \in Blocks : b # s => phis'[b] = phis[b]
    BY <1>1, <1>4, <2>1, <2>3, <2>4 DEF Laid
  <2>13. \A j \in DOMAIN code' : OneName(code'[j].to) /\ (code'[j].kind = "phi" => DOMAIN code'[j].to = {1})
    <3> SUFFICES ASSUME NEW j \in DOMAIN code'
                 PROVE  OneName(code'[j].to) /\ (code'[j].kind = "phi" => DOMAIN code'[j].to = {1})
      OBVIOUS
    <3>1. PICK b \in Blocks : j \in InstructionsOf(b)'
      BY <2>3, <2>8
    <3>2. CASE code'[j] = Phi(q)
      BY <2>6, <3>2
    <3>3. CASE \E i \in InstructionsOf(b) : code'[j] = code[i]
      <4>1. PICK i \in InstructionsOf(b) : code'[j] = code[i]
        BY <3>3
      <4>2. i \in DOMAIN code
        BY <2>7
      <4> QED BY <2>4, <4>1, <4>2 DEF Laid
    <3> QED BY <2>9, <3>1, <3>2, <3>3
  <2>14. PhisFirst'
    <3> SUFFICES ASSUME NEW b \in Blocks, NEW i \in InstructionsOf(b)', NEW j \in InstructionsOf(b)', i < j, code'[j].kind = "phi"
                 PROVE  code'[i].kind = "phi" \/ code'[i].uses = <<>>
      BY <2>5 DEF PhisFirst
    <3>1. CASE code'[i] = Phi(q)
      BY <2>6, <3>1
    <3>2. CASE \E k \in InstructionsOf(b) : i = new(k) /\ code'[i] = code[k]
      <4>1. PICK k \in InstructionsOf(b) : i = new(k) /\ code'[i] = code[k]
        BY <3>2
      <4>2. k \in Nat /\ blocks[b].first \in Nat /\ blocks[b].last \in Nat
        <5>1. blocks[b].first \in DOMAIN code /\ blocks[b].last \in DOMAIN code
          BY <2>2, BlockFacts
        <5> QED BY <2>7, <4>1, <5>1
      <4>3. CASE j = p /\ b = s
        <5>1. k < blocks[s].first + 1 /\ k >= blocks[s].first
          <6>1. k \in blocks[s].first .. blocks[s].last
            BY <4>1, <4>3 DEF InstructionsOf
          <6>2. new(k) < blocks[s].first + 1
            BY <2>0, <4>1, <4>3 DEF PhiPlace
          <6> QED BY <2>0, <4>2, <4>3, <6>1, <6>2 DEF new, Pushed, PhiPlace
        <5>2. k = blocks[s].first
          BY <4>2, <4>3, <5>1
        <5> QED BY <2>3, <2>4, <4>1, <5>2 DEF JoinsBegin
      <4>4. CASE \E l \in InstructionsOf(b) : j = new(l) /\ code'[j] = code[l]
        <5>1. PICK l \in InstructionsOf(b) : j = new(l) /\ code'[j] = code[l]
          BY <4>4
        <5>2. l \in Nat /\ p \in Nat
          <6>1. blocks[s].first \in Nat
            BY <2>3, <2>7
          <6> QED BY <2>0, <2>7, <5>1, <6>1 DEF PhiPlace
        <5>3. k < l
          BY <4>1, <4>2, <5>1, <5>2 DEF new, Pushed
        <5> QED BY <2>4, <4>1, <5>1, <5>3 DEF Laid, PhisFirst
      <4> QED BY <2>9, <4>3, <4>4
    <3> QED BY <2>9, <3>1, <3>2
  <2>15. PhisThere'
    <3> SUFFICES ASSUME NEW b \in Blocks, NEW r \in phis'[b]
                 PROVE  \E j \in InstructionsOf(b)' : code'[j].kind = "phi" /\ Defines(j, r)'
      BY <2>5 DEF PhisThere
    <3>1. CASE r \in phis[b]
      <4>1. PICK i \in InstructionsOf(b) : code[i].kind = "phi" /\ Defines(i, r)
        BY <2>4, <3>1 DEF Laid, PhisThere
      <4>2. new(i) \in InstructionsOf(b)' /\ code'[new(i)] = code[i]
        BY <2>5, <2>7 DEF new
      <4> QED BY <4>1, <4>2 DEF Defines
    <3>2. CASE r \notin phis[b]
      <4>1. b = s /\ r = q
        BY <2>12, <3>2
      <4>2. code'[p].kind = "phi" /\ Defines(p, r)'
        <5> HIDE DEF Phi
        <5>1. code'[p] = Phi(q)
          BY <2>5
        <5>2. 1 \in DOMAIN code'[p].to /\ code'[p].to[1].id = r
          BY <2>6, <4>1, <5>1
        <5> QED BY <2>6, <5>1, <5>2 DEF Defines
      <4> QED BY <2>5, <4>1, <4>2
    <3> QED BY <3>1, <3>2
  <2>16. JoinsBegin'
    <3> SUFFICES ASSUME NEW b \in Joining PROVE code'[blocks'[b].first].uses = <<>>
      BY <2>10 DEF JoinsBegin
    <3>1. b \in Blocks /\ blocks[b].first \in DOMAIN code
      BY <2>7 DEF Joining
    <3>2. code'[blocks'[b].first] = code[blocks[b].first]
      BY <2>5, <3>1 DEF new
    <3> QED BY <2>4, <3>2 DEF JoinsBegin
  <2> QED BY <1>2, <2>4, <2>5, <2>10, <2>11, <2>12, <2>13, <2>14, <2>15, <2>16 DEF LaidInv, Laid
<1> QED BY <1>3, <1>4

-----------------------------------------------------------------------------
\* What rename keeps of names: those of a register name it, and no more than one is last.
MapsType == [counters : [Registers -> Nat], names : [Registers -> Seq(Name)], last : [Registers -> Seq(Name)]]
Named(m) ==
  /\ m \in MapsType
  /\ \A r \in Registers : /\ \A k \in DOMAIN m.names[r] : m.names[r][k].id = r
                          /\ \A k \in DOMAIN m.last[r] : m.last[r][k].id = r
                          /\ m.last[r] = <<>> \/ DOMAIN m.last[r] = {1}

LEMMA MapsFacts ==
  ASSUME NEW c \in [Registers -> Nat], NEW n \in [Registers -> Seq(Name)], NEW l \in [Registers -> Seq(Name)]
  PROVE  LET m == [counters |-> c, names |-> n, last |-> l]
         IN  m \in MapsType /\ m.counters = c /\ m.names = n /\ m.last = l
BY DEF MapsType

LEMMA OccurrencesFacts ==
  ASSUME NEW T, NEW s \in Seq(T), NEW x
  PROVE  /\ Occurrences(s, x) \in Nat
         /\ Occurrences(s, x) = 0 <=> x \notin Seqs!ToSet(s)
         /\ \A i \in DOMAIN s : s[i] = x /\ (\A j \in DOMAIN s : s[j] = x => i = j) => Occurrences(s, x) = 1
<1> DEFINE S == {i \in DOMAIN s : s[i] = x}
<1>1. Len(s) \in Nat /\ S \in SUBSET (1..Len(s))
  OBVIOUS
<1>2. IsFiniteSet(S) /\ Cardinality(S) \in Nat
  BY <1>1, BelowFacts
<1>3. Cardinality(S) = 0 <=> S = {}
  BY <1>2, FS_EmptySet
<1>4. S = {} <=> x \notin Seqs!ToSet(s)
  BY DEF Seqs!ToSet
<1>5. ASSUME NEW i \in DOMAIN s, s[i] = x, \A j \in DOMAIN s : s[j] = x => i = j
      PROVE  Cardinality(S) = 1
  <2>1. S = {i}
    BY <1>5
  <2> QED BY <2>1, FS_Singleton
<1> QED BY <1>2, <1>3, <1>4, <1>5 DEF Occurrences

LEMMA AssignedFacts ==
  ASSUME NEW m, Named(m), NEW rs \in Seq(Registers)
  PROVE  LET a == Assigned(m, rs)
         IN  /\ Named(a)
             /\ \A r \in Registers :
                  /\ r \notin Seqs!ToSet(rs) =>
                       a.names[r] = m.names[r] /\ a.last[r] = m.last[r] /\ a.counters[r] = m.counters[r]
                  /\ r \in Seqs!ToSet(rs) =>
                       /\ a.last[r] # <<>> /\ a.last[r][1] \in Name /\ a.last[r][1].id = r
                       /\ a.names[r] # <<>> /\ a.counters[r] > 0
                  /\ Occurrences(rs, r) = 1 =>
                       /\ a.names[r] = Append(m.names[r], [id |-> r, version |-> m.counters[r] + 1, phi |-> FALSE])
                       /\ a.last[r] = <<[id |-> r, version |-> m.counters[r] + 1, phi |-> FALSE]>>
                  /\ m.last[r] # <<>> => a.last[r] # <<>>
                  /\ a.counters[r] >= m.counters[r]
<1> DEFINE a == Assigned(m, rs)
           new(r) == Occurrences(rs, r)
           name(r, k) == [id |-> r, version |-> m.counters[r] + k, phi |-> FALSE]
           added(r) == [k \in 1..new(r) |-> name(r, k)]
           C == [r \in Registers |-> m.counters[r] + new(r)]
           N == [r \in Registers |-> m.names[r] \o added(r)]
           L == [r \in Registers |-> IF new(r) = 0 THEN m.last[r] ELSE <<name(r, new(r))>>]
<1>1. /\ m.counters \in [Registers -> Nat] /\ m.names \in [Registers -> Seq(Name)] /\ m.last \in [Registers -> Seq(Name)]
      /\ \A r \in Registers : /\ \A k \in DOMAIN m.names[r] : m.names[r][k].id = r
                              /\ \A k \in DOMAIN m.last[r] : m.last[r][k].id = r
                              /\ m.last[r] = <<>> \/ DOMAIN m.last[r] = {1}
  BY DEF Named, MapsType
<1>2. \A r : new(r) \in Nat /\ (new(r) = 0 <=> r \notin Seqs!ToSet(rs))
  BY OccurrencesFacts
<1> HIDE DEF new
<1>3. \A r \in Registers : \A k \in Nat : name(r, k) \in Name /\ name(r, k).id = r
  BY <1>1 DEF Name
<1>4. ASSUME NEW r \in Registers
      PROVE  /\ added(r) \in Seq(Name) /\ Len(added(r)) = new(r) /\ DOMAIN added(r) = 1..new(r)
             /\ \A k \in DOMAIN added(r) : added(r)[k] = name(r, k) /\ added(r)[k].id = r
  <2>1. new(r) \in Nat
    BY <1>2
  <2>2. \A k \in 1..new(r) : name(r, k) \in Name /\ name(r, k).id = r
    BY <1>3, <2>1
  <2> HIDE DEF name
  <2> QED BY <2>1, <2>2
<1>5. a = [counters |-> C, names |-> N, last |-> L]
  BY DEF Assigned, new
<1> HIDE DEF added
<1>6. C \in [Registers -> Nat]
  BY <1>1, <1>2
<1>7. ASSUME NEW r \in Registers
      PROVE  /\ N[r] \in Seq(Name) /\ Len(N[r]) = Len(m.names[r]) + new(r)
             /\ \A k \in 1..(Len(m.names[r]) + new(r)) :
                  N[r][k] = IF k <= Len(m.names[r]) THEN m.names[r][k] ELSE added(r)[k - Len(m.names[r])]
             /\ \A k \in DOMAIN N[r] : N[r][k].id = r
  <2>0. PICK p \in Seq(Name) : p = m.names[r]
    BY <1>1
  <2>1. PICK q \in Seq(Name) : q = added(r)
    BY <1>4
  <2>2. /\ p \o q \in Seq(Name) /\ Len(p \o q) = Len(p) + Len(q)
        /\ \A k \in 1..(Len(p) + Len(q)) : (p \o q)[k] = IF k <= Len(p) THEN p[k] ELSE q[k - Len(p)]
    BY ConcatFacts
  <2>3. PICK l \in Nat : l = Len(p) /\ DOMAIN p = 1..l
    OBVIOUS
  <2>4. PICK n \in Nat : n = new(r) /\ Len(q) = n /\ DOMAIN q = 1..n
    BY <1>2, <1>4, <2>1
  <2>5. N[r] = p \o q
    BY <2>0, <2>1
  <2>6. ASSUME NEW k \in DOMAIN N[r]
        PROVE  N[r][k].id = r
    <3>0. DOMAIN (p \o q) = 1..(l + n)
      <4>1. PICK v \in Seq(Name) : v = p \o q /\ Len(v) = l + n
        BY <2>2, <2>3, <2>4
      <4>2. DOMAIN v = 1..(l + n)
        BY <4>1
      <4> QED BY <4>1, <4>2
    <3>1. k \in 1..(l + n)
      BY <2>5, <3>0
    <3>2. CASE k <= l
      <4>1. k \in DOMAIN p
        BY <2>3, <3>1, <3>2
      <4>2. (p \o q)[k] = p[k]
        BY <2>2, <2>3, <2>4, <3>1, <3>2
      <4>3. p[k].id = r
        BY <1>1, <2>0, <4>1
      <4> QED BY <2>5, <4>2, <4>3
    <3>3. CASE ~(k <= l)
      <4>1. k - l \in 1..n
        BY <3>1, <3>3
      <4>2. (p \o q)[k] = q[k - l]
        BY <2>2, <2>3, <2>4, <3>1, <3>3
      <4>3. q[k - l].id = r
        BY <1>4, <2>1, <2>4, <4>1
      <4> QED BY <2>5, <4>2, <4>3
    <3> QED BY <3>2, <3>3
  <2>7. /\ N[r] \in Seq(Name) /\ Len(N[r]) = Len(p) + n
        /\ \A k \in 1..(Len(p) + n) : N[r][k] = IF k <= Len(p) THEN p[k] ELSE q[k - Len(p)]
    BY <2>2, <2>4, <2>5
  <2> QED BY <2>0, <2>1, <2>4, <2>6, <2>7
<1>8. N \in [Registers -> Seq(Name)]
  BY <1>7
<1>9. ASSUME NEW r \in Registers
      PROVE  /\ L[r] \in Seq(Name)
             /\ \A k \in DOMAIN L[r] : L[r][k].id = r
             /\ L[r] = <<>> \/ DOMAIN L[r] = {1}
             /\ new(r) # 0 => L[r] # <<>> /\ L[r][1] \in Name /\ L[r][1].id = r
  <2>1. CASE new(r) = 0
    BY <1>1, <2>1
  <2>2. CASE new(r) # 0
    <3>1. PICK x \in Name : x = name(r, new(r)) /\ x.id = r
      BY <1>2, <1>3
    <3>2. L[r] = <<x>>
      BY <2>2, <3>1
    <3> HIDE DEF L
    <3>3. <<x>> \in Seq(Name) /\ DOMAIN <<x>> = {1} /\ <<x>>[1] = x /\ <<x>> # <<>>
      OBVIOUS
    <3> QED BY <3>1, <3>2, <3>3
  <2> QED BY <2>1, <2>2
<1>10. L \in [Registers -> Seq(Name)]
  BY <1>9
<1>11. a \in MapsType /\ a.counters = C /\ a.names = N /\ a.last = L
  <2> HIDE DEF C, N, L, a
  <2> QED BY <1>5, <1>6, <1>8, <1>10, MapsFacts
<1>12. Named(a)
  BY <1>7, <1>9, <1>11 DEF Named
<1>13. ASSUME NEW r \in Registers, new(r) = 0
       PROVE  N[r] = m.names[r] /\ L[r] = m.last[r] /\ C[r] = m.counters[r]
  <2>0. PICK p \in Seq(Name) : p = m.names[r]
    BY <1>1
  <2>1. N[r] \in Seq(Name) /\ Len(N[r]) = Len(p) /\ \A k \in 1..Len(p) : N[r][k] = p[k]
    <3>1. PICK l \in Nat : l = Len(p)
      OBVIOUS
    <3>2. l + new(r) = l /\ \A k \in 1..l : k <= l
      BY <1>13, <3>1
    <3> QED BY <1>7, <2>0, <3>1, <3>2
  <2>2. N[r] = p
    <3> HIDE DEF N
    <3> QED BY <2>1
  <2> QED BY <1>1, <1>13, <2>0, <2>2
<1>14. ASSUME NEW r \in Registers, new(r) # 0
       PROVE  N[r] # <<>> /\ C[r] > 0
  <2>0. PICK p \in Seq(Name) : p = m.names[r]
    BY <1>1
  <2>1. PICK n \in Nat : n = new(r) /\ n # 0
    BY <1>2, <1>14
  <2>2. PICK l \in Nat : l = Len(p)
    OBVIOUS
  <2>3. Len(N[r]) # 0
    BY <1>7, <2>0, <2>1, <2>2
  <2>4. PICK c \in Nat : c = m.counters[r]
    BY <1>1
  <2> QED BY <2>1, <2>3, <2>4
<1>15. ASSUME NEW r \in Registers, new(r) = 1
       PROVE  /\ N[r] = Append(m.names[r], name(r, 1))
              /\ L[r] = <<name(r, 1)>>
  <2>0. PICK p \in Seq(Name) : p = m.names[r]
    BY <1>1
  <2>1. PICK x \in Name : x = name(r, 1)
    BY <1>3
  <2>2. added(r)[1] = x
    <3>1. 1 \in DOMAIN added(r)
      BY <1>4, <1>15
    <3> QED BY <1>4, <2>1, <3>1
  <2>3. PICK l \in Nat : l = Len(p)
    OBVIOUS
  <2>4. N[r] \in Seq(Name) /\ Len(N[r]) = l + 1 /\ \A k \in 1..(l + 1) : N[r][k] = IF k <= l THEN p[k] ELSE x
    <3>1. \A k \in 1..(l + 1) : k <= l \/ k - l = 1
      OBVIOUS
    <3> HIDE DEF N, name
    <3> QED BY <1>7, <1>15, <2>0, <2>2, <2>3, <3>1
  <2>5. /\ Append(p, x) \in Seq(Name) /\ Len(Append(p, x)) = l + 1
        /\ \A k \in 1..(l + 1) : Append(p, x)[k] = IF k = l + 1 THEN x ELSE p[k]
    BY <2>3, AppendFacts
  <2>6. N[r] = Append(p, x)
    <3>1. \A k \in 1..(l + 1) : N[r][k] = Append(p, x)[k]
      BY <2>4, <2>5
    <3> HIDE DEF N
    <3> DEFINE u == N[r]
               v == Append(p, x)
    <3>2. u \in Seq(Name) /\ v \in Seq(Name) /\ Len(u) = Len(v) /\ \A k \in 1..Len(u) : u[k] = v[k]
      BY <2>4, <2>5, <3>1
    <3> HIDE DEF u, v
    <3>3. u = v
      BY SMTT(20), <3>2
    <3> QED BY <3>3 DEF u, v
  <2>7. L[r] = <<name(r, 1)>>
    <3>1. PICK n \in Nat : n = new(r) /\ n = 1
      BY <1>15
    <3>2. L[r] = IF n = 0 THEN m.last[r] ELSE <<name(r, n)>>
      BY <3>1
    <3> HIDE DEF L, name
    <3> QED BY <3>1, <3>2
  <2> QED BY <2>0, <2>1, <2>6, <2>7
<1>16. \A r \in Registers : C[r] >= m.counters[r]
  BY <1>1, <1>2
<1> HIDE DEF C, N, L, a, name
<1>17. ASSUME NEW r \in Registers
       PROVE  /\ r \notin Seqs!ToSet(rs) =>
                   a.names[r] = m.names[r] /\ a.last[r] = m.last[r] /\ a.counters[r] = m.counters[r]
              /\ r \in Seqs!ToSet(rs) =>
                   /\ a.last[r] # <<>> /\ a.last[r][1] \in Name /\ a.last[r][1].id = r
                   /\ a.names[r] # <<>> /\ a.counters[r] > 0
              /\ Occurrences(rs, r) = 1 =>
                   /\ a.names[r] = Append(m.names[r], name(r, 1))
                   /\ a.last[r] = <<name(r, 1)>>
              /\ m.last[r] # <<>> => a.last[r] # <<>>
              /\ a.counters[r] >= m.counters[r]
  BY <1>2, <1>9, <1>11, <1>13, <1>14, <1>15, <1>16 DEF new
<1> QED BY <1>12, <1>17 DEF a, name

\* A register's name, and what is last once operands have been replaced.
LEMMA NameFacts ==
  ASSUME NEW m, Named(m), NEW r \in Registers
  PROVE  NameOf(m, r) \in Name /\ NameOf(m, r).id = r
<1>0. PICK p \in Seq(Name) : p = m.names[r]
  BY DEF Named, MapsType
<1>1. CASE p = <<>>
  BY <1>0, <1>1 DEF NameOf, Plain, Name
<1>2. CASE p # <<>>
  <2>1. Len(p) \in DOMAIN p /\ p[Len(p)] \in Name
    BY <1>2
  <2>2. NameOf(m, r) = p[Len(p)]
    BY <1>0, <1>2 DEF NameOf
  <2> QED BY <1>0, <2>1, <2>2 DEF Named
<1> QED BY <1>1, <1>2

LEMMA ReplacedFacts ==
  ASSUME NEW m, Named(m), NEW rs \in Seq(Registers)
  PROVE  /\ Named(Replaced(m, rs))
         /\ Replaced(m, rs).names = m.names /\ Replaced(m, rs).counters = m.counters
         /\ \A r \in Registers : m.last[r] # <<>> => Replaced(m, rs).last[r] # <<>>
<1> DEFINE L == [r \in Registers |-> IF r \in Seqs!ToSet(rs) THEN <<NameOf(m, r)>> ELSE m.last[r]]
<1>1. /\ m.counters \in [Registers -> Nat] /\ m.names \in [Registers -> Seq(Name)] /\ m.last \in [Registers -> Seq(Name)]
      /\ \A r \in Registers : /\ \A k \in DOMAIN m.names[r] : m.names[r][k].id = r
                              /\ \A k \in DOMAIN m.last[r] : m.last[r][k].id = r
                              /\ m.last[r] = <<>> \/ DOMAIN m.last[r] = {1}
      /\ m = [counters |-> m.counters, names |-> m.names, last |-> m.last]
  BY DEF Named, MapsType
<1>2. ASSUME NEW r \in Registers
      PROVE  /\ L[r] \in Seq(Name) /\ \A k \in DOMAIN L[r] : L[r][k].id = r
             /\ L[r] = <<>> \/ DOMAIN L[r] = {1}
             /\ m.last[r] # <<>> => L[r] # <<>>
  <2>1. PICK x \in Name : x = NameOf(m, r) /\ x.id = r
    BY NameFacts
  <2>2. CASE r \in Seqs!ToSet(rs)
    <3>1. L[r] = <<x>>
      BY <2>1, <2>2
    <3> HIDE DEF L
    <3> QED BY <2>1, <3>1
  <2>3. CASE r \notin Seqs!ToSet(rs)
    BY <1>1, <2>3
  <2> QED BY <2>2, <2>3
<1>3. L \in [Registers -> Seq(Name)]
  BY <1>2
<1>4. Replaced(m, rs) = [counters |-> m.counters, names |-> m.names, last |-> L]
  <2>1. Replaced(m, rs) = [m EXCEPT !.last = L]
    BY DEF Replaced
  <2> HIDE DEF L
  <2> QED BY <1>1, <2>1
<1> HIDE DEF L
<1>5. /\ Replaced(m, rs) \in MapsType /\ Replaced(m, rs).counters = m.counters
      /\ Replaced(m, rs).names = m.names /\ Replaced(m, rs).last = L
  <2> DEFINE C == m.counters
             N == m.names
  <2>1. C \in [Registers -> Nat] /\ N \in [Registers -> Seq(Name)]
    BY <1>1
  <2>2. Replaced(m, rs) = [counters |-> C, names |-> N, last |-> L]
    BY <1>4
  <2> HIDE DEF C, N
  <2>3. PICK x : x = Replaced(m, rs)
    OBVIOUS
  <2>4. x = [counters |-> C, names |-> N, last |-> L]
    BY <2>2, <2>3
  <2>5. x \in MapsType /\ x.counters = C /\ x.names = N /\ x.last = L
    BY <1>3, <2>1, <2>4 DEF MapsType
  <2> QED BY <2>3, <2>5 DEF C, N
<1> QED BY <1>1, <1>2, <1>5 DEF Named

-----------------------------------------------------------------------------
\* What is named when a block is entered.
LEMMA RetainsFacts ==
  ASSUME NEW S, IsFiniteSet(S), NEW T, S \subseteq T
  PROVE  Seqs!SetToSeq(S) \in Seq(T) /\ Seqs!ToSet(Seqs!SetToSeq(S)) \subseteq S
<1>1. Cardinality(S) \in Nat
  BY FS_CardinalityType
<1>2. \E f \in [1..Cardinality(S) -> S] : \A a, b \in DOMAIN f : f[a] = f[b] => a = b
  <2>1. PICK f : f \in Bijection(1..Cardinality(S), S)
    BY FS_CardinalityType DEF ExistsBijection
  <2>2. f \in [1..Cardinality(S) -> S] /\ IsInjective(f)
    BY <2>1 DEF Bijection, Injection
  <2> QED BY <2>2 DEF IsInjective
<1>3. Seqs!SetToSeq(S) \in [1..Cardinality(S) -> S]
  <2>1. Seqs!Cardinality(S) = Cardinality(S)
    BY DEF Seqs!Cardinality, Cardinality
  <2>2. Seqs!SetToSeq(S) = CHOOSE f \in [1..Seqs!Cardinality(S) -> S] : Seqs!IsInjective(f)
    BY DEF Seqs!SetToSeq
  <2>3. \E f \in [1..Seqs!Cardinality(S) -> S] : Seqs!IsInjective(f)
    BY <1>2, <2>1 DEF Seqs!IsInjective
  <2>4. Seqs!SetToSeq(S) \in [1..Seqs!Cardinality(S) -> S]
    BY <2>2, <2>3
  <2> QED BY <2>1, <2>4
<1>4. PICK f \in [1..Cardinality(S) -> S] : f = Seqs!SetToSeq(S)
  BY <1>3
<1>5. f \in Seq(T) /\ Seqs!ToSet(f) \subseteq S
  BY <1>1 DEF Seqs!ToSet
<1> QED BY <1>4, <1>5

LEMMA ToSetFacts ==
  ASSUME NEW T, NEW p \in Seq(T), NEW q \in Seq(T)
  PROVE  Seqs!ToSet(p) \subseteq T /\ Seqs!ToSet(p \o q) = Seqs!ToSet(p) \cup Seqs!ToSet(q)
<1>1. /\ p \o q \in Seq(T) /\ Len(p \o q) = Len(p) + Len(q)
      /\ \A k \in 1..(Len(p) + Len(q)) : (p \o q)[k] = IF k <= Len(p) THEN p[k] ELSE q[k - Len(p)]
  BY ConcatFacts
<1>2. PICK l \in Nat : l = Len(p) /\ DOMAIN p = 1..l
  OBVIOUS
<1>3. PICK n \in Nat : n = Len(q) /\ DOMAIN q = 1..n
  OBVIOUS
<1>4. PICK v \in Seq(T) : v = p \o q /\ Len(v) = l + n
  BY <1>1, <1>2, <1>3
<1>5. DOMAIN v = 1..(l + n)
  BY <1>4
<1>6. \A k \in 1..(l + n) : v[k] = IF k <= l THEN p[k] ELSE q[k - l]
  BY <1>1, <1>2, <1>3, <1>4
<1>7. /\ \A k \in 1..(l + n) : k <= l => k \in 1..l
      /\ \A k \in 1..(l + n) : ~(k <= l) => k - l \in 1..n
      /\ \A k \in 1..l : k \in 1..(l + n) /\ k <= l
      /\ \A k \in 1..n : k + l \in 1..(l + n) /\ ~(k + l <= l) /\ (k + l) - l = k
  OBVIOUS
<1>8. Seqs!ToSet(v) \subseteq Seqs!ToSet(p) \cup Seqs!ToSet(q)
  <2>1. ASSUME NEW k \in DOMAIN v
        PROVE  v[k] \in Seqs!ToSet(p) \cup Seqs!ToSet(q)
    <3>1. CASE k <= l
      <4>1. k \in DOMAIN p /\ v[k] = p[k]
        BY <1>2, <1>5, <1>6, <1>7, <3>1
      <4> QED BY <4>1 DEF Seqs!ToSet
    <3>2. CASE ~(k <= l)
      <4>1. k - l \in DOMAIN q /\ v[k] = q[k - l]
        BY <1>3, <1>5, <1>6, <1>7, <3>2
      <4> QED BY <4>1 DEF Seqs!ToSet
    <3> QED BY <3>1, <3>2
  <2> QED BY <2>1 DEF Seqs!ToSet
<1>9. Seqs!ToSet(p) \subseteq Seqs!ToSet(v)
  <2>1. \A k \in DOMAIN p : k \in DOMAIN v /\ v[k] = p[k]
    BY <1>2, <1>5, <1>6, <1>7
  <2> QED BY <2>1 DEF Seqs!ToSet
<1>10. Seqs!ToSet(q) \subseteq Seqs!ToSet(v)
  <2>1. \A k \in DOMAIN q : k + l \in DOMAIN v /\ v[k + l] = q[k]
    BY <1>3, <1>5, <1>6, <1>7
  <2> QED BY <2>1 DEF Seqs!ToSet
<1>11. Seqs!ToSet(p) \subseteq T
  BY DEF Seqs!ToSet
<1> QED BY <1>4, <1>8, <1>9, <1>10, <1>11

LEMMA EntryFacts ==
  ASSUME fn \in Functions
  PROVE  /\ EntryAssigns \in Seq(Registers) /\ Seqs!ToSet(EntryAssigns) \subseteq Registers
         /\ \A r : r \notin Seqs!ToSet(fn.args) \cup fn.retains =>
              (r \in Seqs!ToSet(EntryAssigns) <=> r = Mem /\ counters[Mem] = 0)
         /\ Mem \notin Seqs!ToSet(fn.args) \cup fn.retains /\ counters[Mem] = 0 => Occurrences(EntryAssigns, Mem) = 1
         /\ counters[Mem] = 0 => Mem \in Seqs!ToSet(EntryAssigns)
<1> DEFINE first == IF counters[Mem] = 0 THEN <<Mem>> ELSE <<>>
<1>1. fn.args \in Seq(Registers) /\ fn.retains \subseteq Registers /\ IsFiniteSet(fn.retains)
  BY FunctionsAssumption
<1>2. PICK kept \in Seq(Registers) : kept = Seqs!SetToSeq(fn.retains) /\ Seqs!ToSet(kept) \subseteq fn.retains
  BY <1>1, RetainsFacts
<1>3. PICK p \in Seq(Registers) : p = first /\ Seqs!ToSet(p) = IF counters[Mem] = 0 THEN {Mem} ELSE {}
  <2>1. <<Mem>> \in Seq(Registers) /\ <<>> \in Seq(Registers)
    BY MemAssumption
  <2>2. Seqs!ToSet(<<Mem>>) = {Mem} /\ Seqs!ToSet(<<>>) = {}
    BY DEF Seqs!ToSet
  <2> QED BY <2>1, <2>2
<1>4. PICK q \in Seq(Registers) : q = fn.args
  BY <1>1
<1>5. p \o q \in Seq(Registers) /\ p \o q \o kept \in Seq(Registers)
  OBVIOUS
<1>6. Seqs!ToSet(p \o q \o kept) = Seqs!ToSet(p) \cup Seqs!ToSet(q) \cup Seqs!ToSet(kept)
  <2>1. Seqs!ToSet(p \o q \o kept) = Seqs!ToSet(p \o q) \cup Seqs!ToSet(kept)
    <3>1. PICK u \in Seq(Registers) : u = p \o q
      BY <1>5
    <3>2. Seqs!ToSet(u \o kept) = Seqs!ToSet(u) \cup Seqs!ToSet(kept)
      BY ToSetFacts
    <3> QED BY <3>1, <3>2
  <2>2. Seqs!ToSet(p \o q) = Seqs!ToSet(p) \cup Seqs!ToSet(q)
    BY ToSetFacts
  <2> QED BY <2>1, <2>2
<1>7. EntryAssigns = p \o q \o kept
  BY <1>2, <1>3, <1>4 DEF EntryAssigns
<1>8. ASSUME Mem \notin Seqs!ToSet(fn.args) \cup fn.retains, counters[Mem] = 0
      PROVE  Occurrences(EntryAssigns, Mem) = 1
  <2>1. PICK tail \in Seq(Registers) : tail = q \o kept /\ Mem \notin Seqs!ToSet(tail)
    <3>1. q \o kept \in Seq(Registers) /\ Seqs!ToSet(q \o kept) = Seqs!ToSet(q) \cup Seqs!ToSet(kept)
      BY ToSetFacts
    <3> QED BY <1>2, <1>4, <1>8, <3>1
  <2>2. p = <<Mem>>
    BY <1>3, <1>8
  <2>3. (p \o q) \o kept = p \o (q \o kept)
    <3> HIDE DEF first
    <3> QED BY SMTT(20)
  <2>4. PICK s \in Seq(Registers) : s = EntryAssigns /\ s = <<Mem>> \o tail
    BY <1>5, <1>7, <2>1, <2>2, <2>3
  <2>5. PICK n \in Nat : n = Len(tail) /\ DOMAIN tail = 1..n
    OBVIOUS
  <2>6. Len(s) = n + 1 /\ DOMAIN s = 1..(n + 1) /\ s[1] = Mem /\ \A k \in 1..(n + 1) : k # 1 => s[k] = tail[k - 1]
    BY <2>4, <2>5, MemAssumption
  <2>7. \A k \in DOMAIN s : k # 1 => s[k] # Mem
    <3> SUFFICES ASSUME NEW k \in DOMAIN s, k # 1 PROVE s[k] # Mem
      OBVIOUS
    <3>1. k - 1 \in DOMAIN tail /\ s[k] = tail[k - 1]
      BY <2>5, <2>6
    <3> QED BY <2>1, <3>1 DEF Seqs!ToSet
  <2>8. 1 \in DOMAIN s
    BY <2>5, <2>6
  <2>9. Occurrences(s, Mem) = 1
    <3>1. s[1] = Mem /\ \A j \in DOMAIN s : s[j] = Mem => 1 = j
      BY <2>6, <2>7
    <3> QED BY <2>8, <3>1, OccurrencesFacts
  <2> QED BY <2>4, <2>9
<1>9. Seqs!ToSet(EntryAssigns) \subseteq Registers
  BY <1>5, <1>7, ToSetFacts
<1> QED BY <1>2, <1>3, <1>4, <1>5, <1>6, <1>7, <1>8, <1>9

-----------------------------------------------------------------------------
\* One instruction.  What its operands are named from, what it becomes, and the names after it.
LEMMA IdsFacts ==
  ASSUME NEW ns \in Seq(Name)
  PROVE  /\ Ids(ns) \in Seq(Registers) /\ DOMAIN Ids(ns) = DOMAIN ns
         /\ \A k \in DOMAIN ns : Ids(ns)[k] = ns[k].id
         /\ \A r : r \in Seqs!ToSet(Ids(ns)) <=> \E k \in DOMAIN ns : ns[k].id = r
<1>1. /\ Len(ns) \in Nat /\ DOMAIN ns = 1..Len(ns)
      /\ \A k \in DOMAIN ns : ns[k] \in Name
  OBVIOUS
<1>2. \A k \in DOMAIN ns : ns[k].id \in Registers
  BY <1>1 DEF Name
<1>3. Ids(ns) = [k \in DOMAIN ns |-> ns[k].id]
  BY DEF Ids
<1>4. Ids(ns) \in Seq(Registers)
  BY <1>1, <1>2, <1>3
<1>5. DOMAIN Ids(ns) = DOMAIN ns /\ \A k \in DOMAIN ns : Ids(ns)[k] = ns[k].id
  BY <1>3
<1> QED BY <1>4, <1>5 DEF Seqs!ToSet

LEMMA InstructionFacts ==
  ASSUME NEW ins \in Instruction
  PROVE  /\ ins.to \in Seq(Name) /\ ins.uses \in Seq(Name) /\ ins.kind \in Kind /\ ins.dependent \in BOOLEAN
         /\ \A to \in Seq(Name) :
              /\ [ins EXCEPT !.to = to] \in Instruction
              /\ [ins EXCEPT !.to = to].to = to /\ [ins EXCEPT !.to = to].kind = ins.kind
              /\ [ins EXCEPT !.to = to].uses = ins.uses /\ [ins EXCEPT !.to = to].label = ins.label
         /\ \A uses \in Seq(Name) :
              /\ [ins EXCEPT !.uses = uses] \in Instruction
              /\ [ins EXCEPT !.uses = uses].to = ins.to /\ [ins EXCEPT !.uses = uses].kind = ins.kind
              /\ [ins EXCEPT !.uses = uses].uses = uses /\ [ins EXCEPT !.uses = uses].label = ins.label
<1> DEFINE T == Seq(Name)
           I == Seq(Int)
<1>1. Instruction = [kind : Kind, to : T, uses : T, label : Nat, op : OperationType, imm : I, dependent : BOOLEAN]
  BY DEF Instruction
<1> HIDE DEF T, I
<1>2. /\ ins.to \in T /\ ins.uses \in T /\ ins.kind \in Kind /\ ins.dependent \in BOOLEAN
      /\ \A to \in T :
           /\ [ins EXCEPT !.to = to] \in Instruction
           /\ [ins EXCEPT !.to = to].to = to /\ [ins EXCEPT !.to = to].kind = ins.kind
           /\ [ins EXCEPT !.to = to].uses = ins.uses /\ [ins EXCEPT !.to = to].label = ins.label
  BY <1>1
<1>3. \A uses \in T :
           /\ [ins EXCEPT !.uses = uses] \in Instruction
           /\ [ins EXCEPT !.uses = uses].to = ins.to /\ [ins EXCEPT !.uses = uses].kind = ins.kind
           /\ [ins EXCEPT !.uses = uses].uses = uses /\ [ins EXCEPT !.uses = uses].label = ins.label
  BY <1>1
<1> QED BY <1>2, <1>3 DEF T

\* An instruction that can be renamed.
Renamable(ins) == ins \in Instruction /\ OneName(ins.to) /\ (ins.kind = "phi" => DOMAIN ins.to = {1})

LEMMA RenamedFacts ==
  ASSUME Named(Maps), NEW i, Renamable(code[i])
  PROVE  LET new == Renamed(i)
         IN  /\ new \in Instruction /\ new.kind = code[i].kind /\ new.label = code[i].label
             /\ DOMAIN new.to = DOMAIN code[i].to
             /\ \A k \in DOMAIN code[i].to :
                  new.to[k].id = code[i].to[k].id /\ new.to[k].version = counters[code[i].to[k].id] + 1
             /\ code[i].kind # "phi" =>
                  /\ DOMAIN new.uses = DOMAIN code[i].uses
                  /\ \A k \in DOMAIN code[i].uses :
                       /\ new.uses[k] = NameOf(MapsForOperands(i), code[i].uses[k].id)
                       /\ new.uses[k].id = code[i].uses[k].id
<1>1. PICK ins \in Instruction : ins = code[i]
  BY DEF Renamable
<1> DEFINE assigns == Assigned(Maps, Ids(ins.to))
           newTo == [k \in DOMAIN ins.to |-> assigns.last[ins.to[k].id][1]]
           newUses == [k \in DOMAIN ins.uses |-> NameOf(MapsForOperands(i), ins.uses[k].id)]
<1>2. ins.to \in Seq(Name) /\ ins.uses \in Seq(Name)
  BY InstructionFacts
<1>3. /\ Ids(ins.to) \in Seq(Registers) /\ DOMAIN Ids(ins.to) = DOMAIN ins.to
      /\ \A k \in DOMAIN ins.to : Ids(ins.to)[k] = ins.to[k].id
  BY <1>2, IdsFacts
<1>4. /\ \A k \in DOMAIN ins.to : ins.to[k].id \in Registers
      /\ \A k \in DOMAIN ins.uses : ins.uses[k].id \in Registers
      /\ Len(ins.to) \in Nat /\ DOMAIN ins.to = 1..Len(ins.to)
      /\ Len(ins.uses) \in Nat /\ DOMAIN ins.uses = 1..Len(ins.uses)
  <2>1. \A ns \in Seq(Name) : \A k \in DOMAIN ns : ns[k] \in Name
    OBVIOUS
  <2>2. \A n \in Name : n.id \in Registers
    BY DEF Name
  <2> QED BY <1>2, <2>1, <2>2
<1>5. ASSUME NEW k \in DOMAIN ins.to
      PROVE  newTo[k] \in Name /\ newTo[k].id = ins.to[k].id /\ newTo[k].version = counters[ins.to[k].id] + 1
  <2>1. PICK r \in Registers : r = ins.to[k].id
    BY <1>4
  <2>2. \A j \in DOMAIN Ids(ins.to) : Ids(ins.to)[j] = r => k = j
    BY <1>1, <1>3, <2>1 DEF Renamable, OneName
  <2>3. k \in DOMAIN Ids(ins.to) /\ Ids(ins.to)[k] = r
    BY <1>3, <2>1
  <2>4. Occurrences(Ids(ins.to), r) = 1
    BY <1>3, <2>2, <2>3, OccurrencesFacts
  <2>5. PICK m : m = Maps /\ Named(m) /\ m.counters = counters
    BY DEF Maps
  <2>6. assigns.last[r] = <<[id |-> r, version |-> m.counters[r] + 1, phi |-> FALSE]>>
    BY <1>3, <2>4, <2>5, AssignedFacts
  <2>7. m.counters[r] \in Nat
    BY <2>5 DEF Named, MapsType
  <2>8. newTo[k] = [id |-> r, version |-> counters[r] + 1, phi |-> FALSE]
    <3>1. newTo[k] = assigns.last[r][1]
      BY <2>1
    <3> QED BY <2>5, <2>6, <3>1
  <2> HIDE DEF newTo
  <2> QED BY <2>1, <2>5, <2>7, <2>8 DEF Name
<1>6. newTo \in Seq(Name)
  <2> DEFINE D == DOMAIN ins.to
  <2>1. newTo = [k \in 1..Len(ins.to) |-> newTo[k]]
    BY <1>4
  <2>2. \A k \in 1..Len(ins.to) : newTo[k] \in Name
    BY <1>4, <1>5
  <2> HIDE DEF newTo
  <2> QED BY SMTT(20), <1>4, <2>1, <2>2
<1>7. Named(MapsForOperands(i))
  <2>1. PICK m : m = Maps /\ Named(m)
    OBVIOUS
  <2>2. Named(Assigned(m, Ids(ins.to)))
    BY <1>3, <2>1, AssignedFacts
  <2> QED BY <1>1, <2>1, <2>2 DEF MapsForOperands
<1>8. \A k \in DOMAIN ins.uses : newUses[k] \in Name /\ newUses[k].id = ins.uses[k].id
  <2>1. PICK m : m = MapsForOperands(i) /\ Named(m)
    BY <1>7
  <2>2. \A r \in Registers : NameOf(m, r) \in Name /\ NameOf(m, r).id = r
    BY <2>1, NameFacts
  <2>3. \A k \in DOMAIN ins.uses : newUses[k] = NameOf(m, ins.uses[k].id)
    BY <2>1
  <2> HIDE DEF newUses
  <2> QED BY <1>4, <2>2, <2>3
<1>9. newUses \in Seq(Name)
  <2>1. newUses = [k \in 1..Len(ins.uses) |-> newUses[k]]
    BY <1>4
  <2>2. \A k \in 1..Len(ins.uses) : newUses[k] \in Name
    BY <1>4, <1>8
  <2> HIDE DEF newUses
  <2> QED BY <1>4, <2>1, <2>2
<1>10. DOMAIN newTo = DOMAIN ins.to /\ DOMAIN newUses = DOMAIN ins.uses
       /\ \A k \in DOMAIN ins.uses : newUses[k] = NameOf(MapsForOperands(i), ins.uses[k].id)
  OBVIOUS
<1>11. PICK d \in BOOLEAN : d = Dependent(ins)
  BY DEF Dependent
<1>12. Renamed(i) = IF ins.kind = "phi" THEN [ins EXCEPT !.to = newTo]
                    ELSE [ins EXCEPT !.to = newTo, !.uses = newUses, !.dependent = d]
  BY <1>1, <1>11 DEF Renamed
<1> HIDE DEF newTo, newUses, assigns
<1>13. /\ Renamed(i) \in Instruction /\ Renamed(i).kind = ins.kind /\ Renamed(i).to = newTo /\ Renamed(i).label = ins.label
       /\ ins.kind # "phi" => Renamed(i).uses = newUses
  <2>1. CASE ins.kind = "phi"
    <3>1. Renamed(i) = [ins EXCEPT !.to = newTo]
      BY <1>12, <2>1
    <3>2. LET new == [ins EXCEPT !.to = newTo]
          IN  new \in Instruction /\ new.to = newTo /\ new.kind = ins.kind /\ new.label = ins.label
      BY <1>6, InstructionFacts
    <3> QED BY <2>1, <3>1, <3>2
  <2>2. CASE ins.kind # "phi"
    <3>1. Renamed(i) = [ins EXCEPT !.to = newTo, !.uses = newUses, !.dependent = d]
      BY <1>12, <2>2
    <3>3. PICK t \in Seq(Name) : t = newTo
      BY <1>6
    <3>4. PICK u \in Seq(Name) : u = newUses
      BY <1>9
    <3>5. PICK x : x = [ins EXCEPT !.to = t, !.uses = u, !.dependent = d]
      OBVIOUS
    <3>6. x \in Instruction /\ x.to = t /\ x.uses = u /\ x.kind = ins.kind /\ x.label = ins.label
      <4> DEFINE T == Seq(Name)
                 I == Seq(Int)
      <4>1. Instruction = [kind : Kind, to : T, uses : T, label : Nat, op : OperationType, imm : I, dependent : BOOLEAN]
        BY DEF Instruction
      <4>2. t \in T /\ u \in T
        OBVIOUS
      <4> HIDE DEF T, I
      <4> QED BY <3>5, <4>1, <4>2
    <3> QED BY <2>2, <3>1, <3>3, <3>4, <3>5, <3>6
  <2> QED BY <2>1, <2>2
<1> QED BY <1>1, <1>5, <1>8, <1>10, <1>13

LEMMA LastReplaced ==
  ASSUME NEW T, NEW p \in Seq(T), NEW x \in T, NEW y \in T
  PROVE  /\ [Append(p, x) EXCEPT ![Len(Append(p, x))] = y] = Append(p, y)
         /\ Append(p, x) \in Seq(T) /\ Append(p, x)[Len(Append(p, x))] = x
<1>1. PICK l \in Nat : l = Len(p)
  OBVIOUS
<1>2. /\ Append(p, x) \in Seq(T) /\ Len(Append(p, x)) = l + 1
      /\ \A k \in 1..(l + 1) : Append(p, x)[k] = IF k = l + 1 THEN x ELSE p[k]
  BY <1>1, AppendFacts
<1>3. PICK v \in Seq(T) : v = Append(p, x)
  BY <1>2
<1>4. PICK u \in Seq(T) : u = Append(p, y)
  <2>1. Append(p, y) \in Seq(T)
    OBVIOUS
  <2> QED BY <2>1
<1>5. Len(u) = l + 1 /\ \A k \in 1..(l + 1) : u[k] = IF k = l + 1 THEN y ELSE p[k]
  BY <1>1, <1>4, AppendFacts
<1>6. Len(v) = l + 1 /\ \A k \in 1..(l + 1) : v[k] = IF k = l + 1 THEN x ELSE p[k]
  BY <1>2, <1>3
<1>7. l + 1 \in 1..(l + 1) /\ l + 1 >= 1
  OBVIOUS
<1>8. PICK n \in Nat : n = Len(v) /\ n = l + 1 /\ n \in 1..n
  BY <1>6, <1>7
<1>9. /\ [v EXCEPT ![n] = y] \in Seq(T) /\ Len([v EXCEPT ![n] = y]) = n
      /\ \A k \in 1..n : [v EXCEPT ![n] = y][k] = IF k = n THEN y ELSE v[k]
  <2>1. Len(v) >= 1
    BY <1>7, <1>8
  <2>2. /\ [v EXCEPT ![Len(v)] = y] \in Seq(T) /\ Len([v EXCEPT ![Len(v)] = y]) = Len(v)
        /\ \A k \in 1..Len(v) : [v EXCEPT ![Len(v)] = y][k] = IF k = Len(v) THEN y ELSE v[k]
    BY <2>1, ResumedFacts
  <2> QED BY <1>8, <2>2
<1>10. PICK w \in Seq(T) : w = [v EXCEPT ![n] = y]
  BY <1>9
<1>11. Len(w) = n /\ Len(u) = n /\ \A k \in 1..n : u[k] = w[k]
  BY <1>5, <1>6, <1>8, <1>9, <1>10
<1>12. u = w
  BY <1>11
<1>13. v[n] = x
  BY <1>6, <1>8
<1> QED BY <1>3, <1>4, <1>8, <1>10, <1>12, <1>13

\* The names of registers that an instruction does not assign stay, the others get one more.
LEMMA AfterFacts ==
  ASSUME Named(Maps), NEW i, Renamable(code[i])
  PROVE  LET m == MapsAfter(i)
         IN  /\ Named(m)
             /\ \A r \in Registers :
                  /\ Defines(i, r) =>
                       /\ \E x \in Name : x.version = counters[r] + 1 /\ m.names[r] = Append(names[r], x)
                       /\ m.last[r] # <<>>
                  /\ ~Defines(i, r) => m.names[r] = names[r]
                  /\ last[r] # <<>> => m.last[r] # <<>>
                  /\ m.counters[r] >= counters[r]
                  /\ code[i].kind # "phi" /\ (code[i].kind # "call" => ~Defines(i, r)) =>
                       NameOf(MapsForOperands(i), r) = NameOf(Maps, r)
<1>1. PICK ins \in Instruction : ins = code[i] /\ OneName(ins.to) /\ (ins.kind = "phi" => DOMAIN ins.to = {1})
  BY DEF Renamable
<1>2. ins.to \in Seq(Name) /\ ins.uses \in Seq(Name)
  BY InstructionFacts
<1>3. PICK m : m = Maps /\ Named(m) /\ m.counters = counters /\ m.names = names /\ m.last = last
  BY DEF Maps
<1>4. PICK rs \in Seq(Registers) :
        /\ rs = Ids(ins.to) /\ DOMAIN rs = DOMAIN ins.to
        /\ \A k \in DOMAIN ins.to : rs[k] = ins.to[k].id
        /\ \A r : r \in Seqs!ToSet(rs) <=> \E k \in DOMAIN ins.to : ins.to[k].id = r
  BY <1>2, IdsFacts
<1>5. \A r : r \in Seqs!ToSet(rs) <=> Defines(i, r)
  BY <1>1, <1>4 DEF Defines
<1>6. \A r \in Seqs!ToSet(rs) : Occurrences(rs, r) = 1
  <2> SUFFICES ASSUME NEW r \in Seqs!ToSet(rs) PROVE Occurrences(rs, r) = 1
    OBVIOUS
  <2>1. PICK k \in DOMAIN rs : rs[k] = r
    BY DEF Seqs!ToSet
  <2>2. \A j \in DOMAIN rs : rs[j] = r => k = j
    BY <1>1, <1>4, <2>1 DEF OneName
  <2> QED BY <2>1, <2>2, OccurrencesFacts
<1>7. PICK us \in Seq(Registers) : us = Ids(ins.uses)
  BY <1>2, IdsFacts
<1> DEFINE Gains(a, b) ==
             \A r \in Registers :
               /\ r \in Seqs!ToSet(rs) =>
                    /\ \E x \in Name : x.version = a.counters[r] + 1 /\ b.names[r] = Append(a.names[r], x)
                    /\ b.last[r] # <<>>
               /\ r \notin Seqs!ToSet(rs) => b.names[r] = a.names[r]
               /\ a.last[r] # <<>> => b.last[r] # <<>>
               /\ b.counters[r] >= a.counters[r]
<1>8. ASSUME NEW a, Named(a)
      PROVE  Named(Assigned(a, rs)) /\ Gains(a, Assigned(a, rs))
  <2>1. Named(Assigned(a, rs))
    BY <1>8, AssignedFacts
  <2>2. PICK b : b = Assigned(a, rs)
    OBVIOUS
  <2> SUFFICES ASSUME NEW r \in Registers
               PROVE  /\ r \in Seqs!ToSet(rs) =>
                           /\ \E x \in Name : x.version = a.counters[r] + 1 /\ b.names[r] = Append(a.names[r], x)
                           /\ b.last[r] # <<>>
                      /\ r \notin Seqs!ToSet(rs) => b.names[r] = a.names[r]
                      /\ a.last[r] # <<>> => b.last[r] # <<>>
                      /\ b.counters[r] >= a.counters[r]
    BY <2>1, <2>2
  <2>3. /\ r \notin Seqs!ToSet(rs) => b.names[r] = a.names[r]
        /\ r \in Seqs!ToSet(rs) => b.last[r] # <<>>
        /\ Occurrences(rs, r) = 1 => b.names[r] = Append(a.names[r], [id |-> r, version |-> a.counters[r] + 1, phi |-> FALSE])
        /\ a.last[r] # <<>> => b.last[r] # <<>>
        /\ b.counters[r] >= a.counters[r]
    BY <1>8, <2>2, AssignedFacts
  <2>4. PICK c \in Nat : c = a.counters[r]
    BY <1>8 DEF Named, MapsType
  <2>5. PICK x \in Name : x = [id |-> r, version |-> c + 1, phi |-> FALSE]
    <3>1. [id |-> r, version |-> c + 1, phi |-> FALSE] \in Name
      BY DEF Name
    <3> QED BY <3>1
  <2>6. x.version = c + 1
    BY <2>5
  <2> QED BY <1>6, <2>3, <2>4, <2>5, <2>6
<1>9. MapsForOperands(i) = IF ins.kind = "call" THEN m ELSE Assigned(m, rs)
  BY <1>1, <1>3, <1>4 DEF MapsForOperands
<1>10. ASSUME NEW r \in Registers, ins.kind # "phi", ins.kind # "call" => ~Defines(i, r)
       PROVE  NameOf(MapsForOperands(i), r) = NameOf(m, r)
  <2>1. CASE ins.kind = "call"
    BY <1>9, <2>1
  <2>2. CASE ins.kind # "call"
    <3>1. Assigned(m, rs).names[r] = m.names[r]
      BY <1>3, <1>5, <1>8, <1>10, <2>2
    <3> QED BY <1>9, <2>2, <3>1 DEF NameOf
  <2> QED BY <2>1, <2>2
<1> HIDE DEF Gains
<1>11. CASE ins.kind = "call"
  <2>1. PICK a : a = Replaced(m, us) /\ Named(a) /\ a.names = m.names /\ a.counters = m.counters
                  /\ \A r \in Registers : m.last[r] # <<>> => a.last[r] # <<>>
    BY <1>3, ReplacedFacts
  <2>2. MapsAfter(i) = Assigned(a, rs)
    BY <1>1, <1>4, <1>7, <1>9, <1>11, <2>1 DEF MapsAfter
  <2>3. Named(MapsAfter(i)) /\ Gains(a, MapsAfter(i))
    BY <1>8, <2>1, <2>2
  <2> QED BY <1>1, <1>3, <1>5, <1>10, <2>1, <2>3 DEF Gains
<1>12. CASE ins.kind \notin {"call", "phi"}
  <2>1. PICK a : a = Assigned(m, rs) /\ Named(a) /\ Gains(m, a)
    BY <1>3, <1>8
  <2>2. MapsAfter(i) = Replaced(a, us)
    BY <1>1, <1>4, <1>7, <1>9, <1>12, <2>1 DEF MapsAfter
  <2>3. PICK b : b = MapsAfter(i) /\ Named(b) /\ b.names = a.names /\ b.counters = a.counters
                  /\ \A r \in Registers : a.last[r] # <<>> => b.last[r] # <<>>
    BY <2>1, <2>2, ReplacedFacts
  <2>4. Gains(m, b)
    BY <2>1, <2>3 DEF Gains
  <2> QED BY <1>1, <1>3, <1>5, <1>10, <2>3, <2>4 DEF Gains
<1>13. CASE ins.kind = "phi"
  <2>1. PICK a : a = Assigned(m, rs) /\ Named(a) /\ Gains(m, a)
    BY <1>3, <1>8
  <2>2. PICK q \in Registers : q = ins.to[1].id /\ q \in Seqs!ToSet(rs) /\ \A r \in Seqs!ToSet(rs) : r = q
    <3>1. DOMAIN ins.to = {1} /\ rs[1] = ins.to[1].id /\ 1 \in DOMAIN rs
      BY <1>1, <1>4, <1>13
    <3>2. rs[1] \in Registers
      BY <3>1
    <3> QED BY <1>4, <3>1, <3>2
  <2>3. PICK x \in Name : x.version = m.counters[q] + 1 /\ a.names[q] = Append(m.names[q], x)
    BY <2>1, <2>2 DEF Gains
  <2>4. m.names[q] \in Seq(Name) /\ a.names \in [Registers -> Seq(Name)]
    BY <1>3, <2>1 DEF Named, MapsType
  <2>5. PICK p \in Seq(Name) : p = m.names[q]
    BY <2>4
  <2>6. PICK y \in Name : y = [x EXCEPT !.phi = TRUE] /\ y.version = x.version /\ y.id = x.id
    <3>1. [x EXCEPT !.phi = TRUE] \in Name
      BY DEF Name
    <3>2. [x EXCEPT !.phi = TRUE].version = x.version /\ [x EXCEPT !.phi = TRUE].id = x.id
      BY DEF Name
    <3> QED BY <3>1, <3>2
  <2>7. [Append(p, x) EXCEPT ![Len(Append(p, x))].phi = TRUE] = Append(p, y)
    <3>1. PICK v \in Seq(Name) : v = Append(p, x) /\ v[Len(v)] = x /\ [v EXCEPT ![Len(v)] = y] = Append(p, y)
      <4>1. /\ [Append(p, x) EXCEPT ![Len(Append(p, x))] = y] = Append(p, y)
            /\ Append(p, x) \in Seq(Name) /\ Append(p, x)[Len(Append(p, x))] = x
        BY LastReplaced
      <4> QED BY <4>1
    <3>2. [v EXCEPT ![Len(v)].phi = TRUE] = [v EXCEPT ![Len(v)] = y]
      BY <2>6, <3>1
    <3> QED BY <3>1, <3>2
  <2> DEFINE N == [a.names EXCEPT ![q] = Append(p, y)]
  <2>8. MapsAfter(i) = [a EXCEPT !.names[q] = [a.names[q] EXCEPT ![Len(a.names[q])].phi = TRUE]]
    BY <1>1, <1>4, <1>9, <1>13, <2>1, <2>2 DEF MapsAfter
  <2>9. a = [counters |-> a.counters, names |-> a.names, last |-> a.last]
    BY <2>1 DEF Named, MapsType
  <2>10. MapsAfter(i) = [counters |-> a.counters, names |-> N, last |-> a.last]
    <3>1. [a.names[q] EXCEPT ![Len(a.names[q])].phi = TRUE] = Append(p, y)
      BY <2>3, <2>5, <2>7
    <3>2. MapsAfter(i) = [a EXCEPT !.names[q] = Append(p, y)]
      BY <2>8, <3>1
    <3>3. [a EXCEPT !.names[q] = Append(p, y)] = [a EXCEPT !.names = N]
      OBVIOUS
    <3>4. [a EXCEPT !.names = N] = [counters |-> a.counters, names |-> N, last |-> a.last]
      <4> HIDE DEF N
      <4> QED BY <2>9
    <3> QED BY <3>2, <3>3, <3>4
  <2>11. /\ N \in [Registers -> Seq(Name)] /\ N[q] = Append(p, y)
         /\ \A r \in Registers : r # q => N[r] = a.names[r]
    <3>1. Append(p, y) \in Seq(Name)
      OBVIOUS
    <3> QED BY <2>4, <3>1
  <2> HIDE DEF N
  <2>12. a.counters \in [Registers -> Nat] /\ a.last \in [Registers -> Seq(Name)]
    BY <2>1 DEF Named, MapsType
  <2>13. PICK b : b = MapsAfter(i)
    OBVIOUS
  <2>14. b \in MapsType /\ b.counters = a.counters /\ b.names = N /\ b.last = a.last
    BY <2>10, <2>11, <2>12, <2>13 DEF MapsType
  <2>15. \A k \in DOMAIN Append(p, y) : Append(p, y)[k].id = q
    <3>1. PICK l \in Nat : l = Len(p) /\ DOMAIN p = 1..l
      OBVIOUS
    <3>2. /\ DOMAIN Append(p, y) = 1..(l + 1)
          /\ \A k \in 1..(l + 1) : Append(p, y)[k] = IF k = l + 1 THEN y ELSE p[k]
      BY <3>1, AppendFacts
    <3>3. \A k \in DOMAIN p : p[k].id = q
      BY <1>3, <2>5 DEF Named
    <3>4. x.id = q
      <4>1. /\ DOMAIN Append(p, x) = 1..(l + 1)
            /\ Append(p, x)[l + 1] = x
        BY <3>1, AppendFacts
      <4>2. l + 1 \in 1..(l + 1)
        BY <3>1
      <4>3. \A k \in DOMAIN a.names[q] : a.names[q][k].id = q
        BY <2>1 DEF Named
      <4> QED BY <2>3, <2>5, <4>1, <4>2, <4>3
    <3>5. \A k \in 1..(l + 1) : k = l + 1 \/ k \in 1..l
      BY <3>1
    <3> QED BY <2>6, <3>1, <3>2, <3>3, <3>4, <3>5
  <2>16. Named(b)
    <3> SUFFICES ASSUME NEW r \in Registers
                 PROVE  /\ \A k \in DOMAIN b.names[r] : b.names[r][k].id = r
                        /\ \A k \in DOMAIN b.last[r] : b.last[r][k].id = r
                        /\ b.last[r] = <<>> \/ DOMAIN b.last[r] = {1}
      BY <2>14 DEF Named
    <3>1. /\ \A k \in DOMAIN a.names[r] : a.names[r][k].id = r
          /\ \A k \in DOMAIN a.last[r] : a.last[r][k].id = r
          /\ a.last[r] = <<>> \/ DOMAIN a.last[r] = {1}
      BY <2>1 DEF Named
    <3>2. \A k \in DOMAIN b.names[r] : b.names[r][k].id = r
      <4>1. CASE r = q
        BY <2>11, <2>14, <2>15, <4>1
      <4>2. CASE r # q
        BY <2>11, <2>14, <3>1, <4>2
      <4> QED BY <4>1, <4>2
    <3> QED BY <2>14, <3>1, <3>2
  <2>17. Gains(m, b)
    <3>1. y.version = m.counters[q] + 1 /\ b.names[q] = Append(m.names[q], y)
      BY <2>3, <2>5, <2>6, <2>11, <2>14
    <3>2. \A r \in Registers : r \notin Seqs!ToSet(rs) => b.names[r] = m.names[r]
      BY <2>1, <2>2, <2>11, <2>14 DEF Gains
    <3> QED BY <2>1, <2>2, <2>14, <3>1, <3>2 DEF Gains
  <2> QED BY <1>1, <1>3, <1>5, <1>13, <2>13, <2>16, <2>17 DEF Gains
<1> QED BY <1>11, <1>12, <1>13

-----------------------------------------------------------------------------
\* What renaming leaves of the code: what it assigns and what it uses, but for phis.
SameShape ==
  /\ code' \in Seq(Instruction) /\ DOMAIN code' = DOMAIN code
  /\ \A i \in DOMAIN code :
       /\ code'[i].kind = code[i].kind /\ DOMAIN code'[i].to = DOMAIN code[i].to
       /\ \A k \in DOMAIN code[i].to : code'[i].to[k].id = code[i].to[k].id
       /\ code[i].kind # "phi" =>
            /\ DOMAIN code'[i].uses = DOMAIN code[i].uses
            /\ \A k \in DOMAIN code[i].uses : code'[i].uses[k].id = code[i].uses[k].id

LEMMA ShapeFacts ==
  ASSUME Laid, SameShape, UNCHANGED <<fn, blocks, conns, preds, phis>>
  PROVE  /\ Laid' /\ Blocks' = Blocks /\ Reachable' = Reachable
         /\ \A b : InstructionsOf(b)' = InstructionsOf(b) /\ Succ(b)' = Succ(b)
         /\ \A i : BlockForInstruction(i)' = BlockForInstruction(i)
         /\ \A i \in DOMAIN code : \A r : Defines(i, r)' <=> Defines(i, r)
         /\ \A b \in Blocks : \A r : DefinitionsIn(b, r)' = DefinitionsIn(b, r)
         /\ \A r : Undefined(r)' = Undefined(r) /\ Leaving(r)' = Leaving(r)
         /\ \A d, r : ReachedBy(d, r)' = ReachedBy(d, r)
         /\ \A r : Tracked(r)' <=> Tracked(r)
         /\ \A r : MeetInPhis(r)' <=> MeetInPhis(r)
<1>1. /\ Linked /\ Partition /\ code \in Seq(Instruction) /\ phis \in [Blocks -> SUBSET Registers]
      /\ \A i \in DOMAIN code : OneName(code[i].to) /\ (code[i].kind = "phi" => DOMAIN code[i].to = {1})
      /\ PhisFirst /\ PhisThere
  BY DEF Laid
<1>2. Blocks' = Blocks /\ Len(blocks') = Len(blocks)
  BY DEF Blocks
<1>3. /\ Reachable' = Reachable /\ Linked' /\ Joining' = Joining
      /\ \A b : Succ(b)' = Succ(b) /\ Pred(b)' = Pred(b)
      /\ \A b : Doms(b)' = Doms(b) /\ Dominated(b)' = Dominated(b)
  BY <1>1, <1>2, SameGraph
<1>4. /\ \A b : InstructionsOf(b)' = InstructionsOf(b)
      /\ \A i : BlockForInstruction(i)' = BlockForInstruction(i)
  BY DEF InstructionsOf, BlockForInstruction, Blocks
<1>5. \A b \in Blocks : InstructionsOf(b) \subseteq DOMAIN code
  <2>1. code \in Seq(Written)
    BY <1>1, SeqSubset DEF Written
  <2> QED BY <1>1, <2>1, BlockFacts
<1>6. \A i \in DOMAIN code : \A r : Defines(i, r)' <=> Defines(i, r)
  BY DEF Defines, SameShape
<1>7. \A b \in Blocks : \A r : DefinitionsIn(b, r)' = DefinitionsIn(b, r)
  BY <1>4, <1>5, <1>6 DEF DefinitionsIn
<1>8. \A S, r : Through(S, r)' = Through(S, r)
  <2> SUFFICES ASSUME NEW S, NEW r PROVE Through(S, r)' = Through(S, r)
    OBVIOUS
  <2>1. [b \in Blocks' |-> IF DefinitionsIn(b, r)' = {} THEN Seqs!ToSet(conns'[b]) ELSE {}]
        = [b \in Blocks |-> IF DefinitionsIn(b, r) = {} THEN Seqs!ToSet(conns[b]) ELSE {}]
    BY <1>2, <1>7
  <2> DEFINE F == [b \in Blocks |-> IF DefinitionsIn(b, r) = {} THEN Seqs!ToSet(conns[b]) ELSE {}]
  <2>2. Through(S, r) = Grown(Len(blocks), F, S)
    BY DEF Through, Iterate, Grown, Grows
  <2>3. Through(S, r)' = Grown(Len(blocks'), [b \in Blocks' |-> IF DefinitionsIn(b, r)' = {} THEN Seqs!ToSet(conns'[b]) ELSE {}], S)
    BY DEF Through, Iterate, Grown, Grows
  <2> QED BY <1>2, <2>1, <2>2, <2>3
<1>9. /\ \A r : Undefined(r)' = Undefined(r)
      /\ \A d, r : ReachedBy(d, r)' = ReachedBy(d, r)
  BY <1>4, <1>8 DEF Undefined, ReachedBy
<1>10. Reachable \subseteq Blocks
  <2>1. Drawn /\ Reachable \in SUBSET Blocks
    BY <1>1, AroundFacts DEF Linked, Drawn
  <2> QED BY <2>1
<1>11. \A r : Leaving(r)' = Leaving(r)
  BY <1>3, <1>7, <1>10 DEF Leaving, Latest
<1>12. \A r : Tracked(r)' <=> Tracked(r)
  <2> SUFFICES ASSUME NEW r PROVE Tracked(r)' <=> Tracked(r)
    OBVIOUS
  <2>1. (\A b \in Reachable' : Cardinality(DefinitionsIn(b, r)') <= 1) <=> (\A b \in Reachable : Cardinality(DefinitionsIn(b, r)) <= 1)
    BY <1>3, <1>7, <1>10
  <2>2. \A i \in DOMAIN code :
          (Defines(i, r)' /\ code'[i].kind \notin {"call", "phi"} => \A k \in DOMAIN code'[i].uses : code'[i].uses[k].id # r)
          <=> (Defines(i, r) /\ code[i].kind \notin {"call", "phi"} => \A k \in DOMAIN code[i].uses : code[i].uses[k].id # r)
    BY <1>6 DEF SameShape
  <2>3. DOMAIN code' = DOMAIN code
    BY DEF SameShape
  <2> QED BY <2>1, <2>2, <2>3 DEF Tracked
<1>13. \A r : MeetInPhis(r)' <=> MeetInPhis(r)
  <2> SUFFICES ASSUME NEW r PROVE MeetInPhis(r)' <=> MeetInPhis(r)
    OBVIOUS
  <2> DEFINE below == [d \in Blocks |-> Dominated(d)]
             defining == {d \in Blocks : DefinitionsIn(d, r) # {}}
  <2>1. below' = below /\ defining' = defining
    BY <1>2, <1>3, <1>7
  <2>2. \A b : Pred(b)' = Pred(b)
    BY <1>3
  <2> HIDE DEF below, defining
  <2>3. MeetInPhis(r) <=> \A b \in Reachable \ Undefined(r) : \A p \in Pred(b) : \A d \in defining :
                            p \in below[d] => (b # d /\ b \in below[d]) \/ r \in phis[b]
    BY DEF MeetInPhis, below, defining, Pred
  <2>4. MeetInPhis(r)' <=> \A b \in Reachable' \ Undefined(r)' : \A p \in Pred(b)' : \A d \in defining' :
                            p \in below'[d] => (b # d /\ b \in below'[d]) \/ r \in phis'[b]
    BY DEF MeetInPhis, below, defining, Pred
  <2> QED BY <1>3, <1>9, <2>1, <2>2, <2>3, <2>4
<1>14. Laid'
  <2>1. Partition'
    BY <1>1, <1>2, <1>4 DEF Partition, SameShape
  <2>2. \A i \in DOMAIN code' : OneName(code'[i].to) /\ (code'[i].kind = "phi" => DOMAIN code'[i].to = {1})
    BY <1>1 DEF SameShape, OneName
  <2>3. PhisFirst'
    <3> SUFFICES ASSUME NEW b \in Blocks, NEW i \in InstructionsOf(b), NEW j \in InstructionsOf(b), i < j, code'[j].kind = "phi"
                 PROVE  code'[i].kind = "phi" \/ code'[i].uses = <<>>
      BY <1>2, <1>4 DEF PhisFirst
    <3>1. i \in DOMAIN code /\ j \in DOMAIN code
      BY <1>5
    <3>2. code[i].kind = "phi" \/ code[i].uses = <<>>
      BY <1>1, <3>1 DEF PhisFirst, SameShape
    <3>3. ASSUME code[i].kind # "phi", code[i].uses = <<>> PROVE code'[i].uses = <<>>
      <4>1. DOMAIN code'[i].uses = {}
        BY <3>1, <3>3 DEF SameShape
      <4>2. code'[i].uses \in Seq(Name)
        <5>1. code'[i] \in Instruction
          BY <3>1 DEF SameShape
        <5> QED BY <5>1 DEF Instruction
      <4>3. PICK u \in Seq(Name) : u = code'[i].uses
        BY <4>2
      <4>4. DOMAIN u = {} => u = <<>>
        OBVIOUS
      <4> QED BY <4>1, <4>3, <4>4
    <3> QED BY <3>1, <3>2, <3>3 DEF SameShape
  <2>4. PhisThere'
    BY <1>1, <1>2, <1>4, <1>5, <1>6 DEF PhisThere, SameShape
  <2>5. code' \in Seq(Instruction) /\ phis' \in [Blocks' -> SUBSET Registers]
    BY <1>1, <1>2 DEF SameShape
  <2> QED BY <1>3, <2>1, <2>2, <2>3, <2>4, <2>5 DEF Laid
<1> QED BY <1>2, <1>3, <1>4, <1>6, <1>7, <1>9, <1>11, <1>12, <1>13, <1>14

\* Operands that phis get.
LEMMA OperandsFacts ==
  ASSUME Laid, Named(Maps), NEW times,
         \A b \in Blocks : \A r \in Registers : times[<<b, r>>] \in Nat /\ (times[<<b, r>>] # 0 => last[r] # <<>>),
         code' = WithOperands(times)
  PROVE  /\ SameShape /\ \A i \in DOMAIN code : code'[i].to = code[i].to
         /\ \A i \in DOMAIN code : code[i].kind # "phi" => code'[i] = code[i]
<1> DEFINE phi(i) == <<BlockForInstruction(i), code[i].to[1].id>>
           operands(q) == [k \in 1..times[q] |-> last[q[2]][1]]
           new(i) == IF code[i].kind = "phi" THEN [code[i] EXCEPT !.uses = @ \o operands(phi(i))] ELSE code[i]
<1>1. code' = [i \in DOMAIN code |-> new(i)]
  BY DEF WithOperands
<1>2. /\ Partition /\ code \in Seq(Instruction)
      /\ \A i \in DOMAIN code : code[i].kind = "phi" => DOMAIN code[i].to = {1}
  BY DEF Laid
<1>3. \A i \in DOMAIN code : BlockForInstruction(i) \in Blocks
  <2>1. code \in Seq(Written)
    BY <1>2, SeqSubset DEF Written
  <2> QED BY <1>2, <2>1, BlockFacts
<1>4. ASSUME NEW i \in DOMAIN code
      PROVE  /\ new(i) \in Instruction /\ new(i).kind = code[i].kind /\ new(i).to = code[i].to
             /\ code[i].kind # "phi" => new(i) = code[i]
  <2>1. PICK ins \in Instruction : ins = code[i]
    BY <1>2
  <2>2. CASE code[i].kind # "phi"
    BY <2>1, <2>2
  <2>3. CASE code[i].kind = "phi"
    <3>1. ins.to \in Seq(Name) /\ ins.uses \in Seq(Name) /\ DOMAIN ins.to = {1}
      BY <1>2, <2>1, <2>3, InstructionFacts
    <3>2. PICK r \in Registers : r = ins.to[1].id
      <4>1. ins.to[1] \in Name
        BY <3>1
      <4> QED BY <4>1 DEF Name
    <3>3. PICK b \in Blocks : b = BlockForInstruction(i)
      BY <1>3
    <3>4. PICK n \in Nat : n = times[<<b, r>>] /\ (n # 0 => last[r] # <<>>)
      OBVIOUS
    <3>5. n # 0 => last[r][1] \in Name
      <4>1. PICK m : m = Maps /\ Named(m) /\ m.last = last
        BY DEF Maps
      <4>2. last[r] \in Seq(Name)
        BY <4>1 DEF Named, MapsType
      <4> QED BY <3>4, <4>2
    <3>6. PICK x : x = last[r][1]
      OBVIOUS
    <3>7. operands(phi(i)) = [k \in 1..n |-> x]
      BY <2>1, <3>2, <3>3, <3>4, <3>6
    <3>8. [k \in 1..n |-> x] \in Seq(Name)
      <4>1. \A k \in 1..n : x \in Name
        BY <3>5, <3>6
      <4> QED BY <4>1
    <3>9. PICK u \in Seq(Name) : u = ins.uses \o operands(phi(i))
      <4>1. PICK p \in Seq(Name) : p = ins.uses
        BY <3>1
      <4>2. PICK q \in Seq(Name) : q = operands(phi(i))
        BY <3>7, <3>8
      <4>3. p \o q \in Seq(Name)
        OBVIOUS
      <4> QED BY <4>1, <4>2, <4>3
    <3>10. new(i) = [ins EXCEPT !.uses = u]
      BY <2>1, <2>3, <3>9
    <3> HIDE DEF new
    <3>11. /\ [ins EXCEPT !.uses = u] \in Instruction
           /\ [ins EXCEPT !.uses = u].to = ins.to /\ [ins EXCEPT !.uses = u].kind = ins.kind
      BY InstructionFacts
    <3> QED BY <2>1, <2>3, <3>10, <3>11
  <2> QED BY <2>2, <2>3
<1> HIDE DEF new
<1>5. DOMAIN code' = DOMAIN code /\ \A i \in DOMAIN code : code'[i] = new(i)
  BY <1>1
<1>6. code' \in Seq(Instruction)
  <2>1. Len(code) \in Nat /\ DOMAIN code = 1..Len(code)
    BY <1>2
  <2> HIDE DEF Instruction
  <2> QED BY <1>1, <1>4, <2>1
<1> QED BY <1>4, <1>5, <1>6 DEF SameShape

-----------------------------------------------------------------------------
\* The walk.  Before it nothing has a name.
Late == {"rename", "done", "crashed"}
Calling ==
  [block : Blocks, next : Nat, instruction : Nat, assigned : SUBSET Registers, missing : SUBSET (Blocks \X Registers)]
Fresh == \A r \in Registers : counters[r] = 0 /\ names[r] = <<>> /\ last[r] = <<>>

\* Instructions that have been renamed: those of a block that has been entered, but for
\* the block in hand until its connections are looked at.
Ready(i) ==
  /\ BlockForInstruction(i) \in visited
  /\ ~(stack # <<>> /\ Top.next = 0 /\ Top.block = BlockForInstruction(i) /\ Top.instruction <= i)
Settled(d) == d = 0 \/ Ready(d)

\* No block is called for twice, and those that have returned have had all they lead to called.
WalkInv ==
  /\ stack \in Seq(Calling) /\ visited \subseteq Reachable
  /\ visited # {} => 1 \in visited
  /\ \A k \in DOMAIN stack :
       /\ stack[k].block \in visited /\ blocks[stack[k].block].first <= stack[k].instruction
       /\ k < Len(stack) => stack[k].next # 0
       /\ \A q \in stack[k].missing : q[1] \in Succ(stack[k].block) /\ q[2] \in phis[q[1]]
       /\ \A j \in DOMAIN conns[stack[k].block] : j < stack[k].next => conns[stack[k].block][j] \in visited
  /\ \A k, l \in DOMAIN stack : stack[k].block = stack[l].block => k = l
  /\ \A b \in visited : (\E k \in DOMAIN stack : stack[k].block = b) \/ Succ(b) \subseteq visited
  /\ pc = "done" => stack = <<>> /\ visited # {}

LastInv == \A i \in DOMAIN code : \A r \in Registers : Ready(i) /\ Defines(i, r) => last[r] # <<>>

\* How many names of r there were when each call began (h) and what they mean: the latest is
\* that of a definition in the calls so far, and the way they went has met no other since.
Gone(b, r) == {i \in DefinitionsIn(b, r) : Ready(i)}
Base(r) == IF r = Mem THEN 1 ELSE 0
CallFits(r, h, k) ==
  LET b == stack[k].block
  IN  /\ h[k] = h[k - 1] + IF Gone(b, r) = {} THEN 0 ELSE 1
      /\ \A d \in Gone(b, r) : names[r][h[k]].version = VersionAt(d, r)
      /\ h[k - 1] = 0 => b \in Undefined(r)
      /\ h[k - 1] # 0 =>
           \E d \in Leaving(r) :
             Settled(d) /\ names[r][h[k - 1]].version = VersionAt(d, r) /\ b \in ReachedBy(d, r)
      /\ r # Mem \/ k # 1 => (r \in stack[k].assigned <=> Gone(b, r) # {})
FitsBy(r, h) ==
  /\ h \in [0..Len(stack) -> Nat] /\ h[0] = Base(r) /\ h[Len(stack)] = Len(names[r])
  /\ \A j, k \in 0..Len(stack) : j <= k => h[j] <= h[k]
  /\ \A k \in DOMAIN stack : CallFits(r, h, k)
FitInv == stack # <<>> => \A r \in Registers : Tracked(r) => \E h : FitsBy(r, h)

\* An operand of instruction i of block b with version v is what has been defined before.
Before(b, i, r) == {j \in DefinitionsIn(b, r) : j < i}
Meant(b, i, v, r) ==
  IF Before(b, i, r) # {} THEN \E d \in Before(b, i, r) : Ready(d) /\ VersionAt(d, r) = v
  ELSE b \in Undefined(r) \/ \E d \in Leaving(r) : Settled(d) /\ VersionAt(d, r) = v /\ b \in ReachedBy(d, r)
UsesFit(r) ==
  \A b \in Reachable : \A i \in InstructionsOf(b) :
    Ready(i) /\ code[i].kind # "phi" =>
      \A k \in DOMAIN code[i].uses : code[i].uses[k].id = r => Meant(b, i, code[i].uses[k].version, r)
UsesInv == \A r \in Registers : Tracked(r) => UsesFit(r)

WInv ==
  /\ Named(Maps) /\ (pc \notin Late \/ visited = {} => Fresh)
  /\ pc \in Late => /\ visited # {} => counters[Mem] > 0
                    /\ WalkInv /\ LastInv /\ FitInv /\ UsesInv

\* What every step of the walk leaves.
Steady ==
  /\ SameShape /\ UNCHANGED <<fn, blocks, conns, preds, phis>>
  /\ \A i \in DOMAIN code :
       Ready(i) => Ready(i)' /\ code'[i].to = code[i].to /\ (code[i].kind # "phi" => code'[i] = code[i])

LEMMA HouseFacts ==
  ASSUME Laid
  PROVE  /\ Housed /\ Reachable \in SUBSET Blocks /\ 1 \in Reachable /\ \A b \in Reachable : Succ(b) \subseteq Reachable
         /\ Drawn /\ Blocks \subseteq Nat /\ DOMAIN code \subseteq Nat
         /\ \A b \in Blocks : /\ InstructionsOf(b) \subseteq DOMAIN code
                              /\ blocks[b].first \in Nat /\ blocks[b].last \in Nat
         /\ \A i \in DOMAIN code : BlockForInstruction(i) \in Blocks /\ i \in InstructionsOf(BlockForInstruction(i))
         /\ \A b \in Blocks : \A i \in InstructionsOf(b) : BlockForInstruction(i) = b
         /\ \A b \in Blocks : conns[b] \in Seq(Blocks)
         /\ 0 \notin DOMAIN code
<1>1. Linked /\ Partition /\ code \in Seq(Instruction)
  BY DEF Laid
<1>2. code \in Seq(Written)
  BY <1>1, SeqSubset DEF Written
<1>3. /\ Blocks = 1..Len(blocks) /\ Len(code) \in Nat /\ Len(blocks) \in Nat
      /\ DOMAIN code = 1..Len(code)
      /\ \A b \in Blocks : blocks[b].first \in DOMAIN code /\ blocks[b].last \in DOMAIN code
      /\ \A b \in Blocks : InstructionsOf(b) \subseteq DOMAIN code
      /\ \A b \in Blocks : \A i \in InstructionsOf(b) : BlockForInstruction(i) = b
      /\ \A i \in DOMAIN code : BlockForInstruction(i) \in Blocks /\ i \in InstructionsOf(BlockForInstruction(i))
  BY <1>1, <1>2, BlockFacts
<1>4. Drawn /\ conns \in [Blocks -> Seq(Blocks)]
  BY <1>1 DEF Linked, Drawn
<1>5. Reachable \in SUBSET Blocks /\ 1 \in Reachable /\ \A b \in Reachable : Succ(b) \subseteq Reachable
  BY <1>4, AroundFacts DEF Drawn
<1>6. DOMAIN code \subseteq Nat /\ 0 \notin DOMAIN code /\ Blocks \subseteq Nat
  BY <1>3
<1>7. Housed
  BY <1>3, <1>6 DEF Housed
<1> QED BY <1>3, <1>4, <1>5, <1>6, <1>7

LEMMA OneEachFacts ==
  ASSUME Laid, NEW r, Tracked(r)
  PROVE  OneEach(r)
<1> SUFFICES ASSUME NEW b \in Reachable, NEW i \in DefinitionsIn(b, r), NEW j \in DefinitionsIn(b, r)
             PROVE  i = j
  BY DEF OneEach
<1>1. b \in Blocks /\ InstructionsOf(b) \subseteq DOMAIN code /\ DOMAIN code = 1..Len(code) /\ Len(code) \in Nat
  <2>1. code \in Seq(Instruction)
    BY DEF Laid
  <2> QED BY <2>1, HouseFacts
<1>2. DefinitionsIn(b, r) \in SUBSET (1..Len(code))
  BY <1>1 DEF DefinitionsIn
<1>3. PICK S \in SUBSET (1..Len(code)) : S = DefinitionsIn(b, r)
  BY <1>2
<1>4. IsFiniteSet(S) /\ Cardinality(S) \in Nat
  BY <1>1, BelowFacts
<1>5. Cardinality(S) <= 1
  BY <1>3 DEF Tracked
<1>6. Cardinality(S) = 0 \/ Cardinality(S) = 1
  BY <1>4, <1>5
<1>7. S = {} \/ \E x : S = {x}
  BY <1>4, <1>6, FS_EmptySet, FS_Singleton
<1> QED BY <1>3, <1>7

\* Versions of settled definitions and meanings stay.
LEMMA SettledKept ==
  ASSUME Laid, Steady, NEW r, NEW d, Settled(d), d = 0 \/ (d \in DOMAIN code /\ Defines(d, r))
  PROVE  Settled(d)' /\ VersionAt(d, r)' = VersionAt(d, r)
<1>1. CASE d = 0
  BY <1>1 DEF Settled, VersionAt
<1>2. CASE d # 0
  <2>1. Ready(d)' /\ code'[d].to = code[d].to
    BY <1>2 DEF Settled, Steady
  <2> QED BY <1>2, <2>1 DEF Settled, VersionAt
<1> QED BY <1>1, <1>2

LEMMA LeavingFacts ==
  ASSUME Laid, NEW r, NEW d \in Leaving(r)
  PROVE  d = 0 \/ (d \in DOMAIN code /\ Defines(d, r))
<1>1. \A b \in Reachable : InstructionsOf(b) \subseteq DOMAIN code
  BY HouseFacts
<1> QED BY <1>1 DEF Leaving, Latest, DefinitionsIn

LEMMA MeantKept ==
  ASSUME Laid, Steady, NEW r, NEW b \in Blocks, NEW i, NEW v, Meant(b, i, v, r)
  PROVE  Meant(b, i, v, r)'
<1>1. SameShape /\ UNCHANGED <<fn, blocks, conns, preds, phis>>
  BY DEF Steady
<1>2. /\ DefinitionsIn(b, r)' = DefinitionsIn(b, r) /\ Undefined(r)' = Undefined(r)
      /\ Leaving(r)' = Leaving(r) /\ \A d : ReachedBy(d, r)' = ReachedBy(d, r)
  BY <1>1, ShapeFacts
<1>3. Before(b, i, r)' = Before(b, i, r)
  BY <1>2 DEF Before
<1>4. CASE Before(b, i, r) # {}
  <2>1. PICK d \in Before(b, i, r) : Ready(d) /\ VersionAt(d, r) = v
    BY <1>4 DEF Meant
  <2>2. d \in DOMAIN code /\ Defines(d, r) /\ d # 0
    <3>1. d \in InstructionsOf(b) /\ Defines(d, r)
      BY DEF Before, DefinitionsIn
    <3> QED BY <3>1, HouseFacts
  <2>3. Settled(d)' /\ VersionAt(d, r)' = VersionAt(d, r)
    BY <2>1, <2>2, SettledKept DEF Settled
  <2>4. Ready(d)' /\ VersionAt(d, r)' = v
    BY <2>1, <2>2, <2>3 DEF Settled
  <2> QED BY <1>3, <1>4, <2>4 DEF Meant
<1>5. CASE Before(b, i, r) = {}
  <2>1. CASE b \in Undefined(r)
    BY <1>2, <1>3, <1>5, <2>1 DEF Meant
  <2>2. CASE b \notin Undefined(r)
    <3>1. PICK d \in Leaving(r) : Settled(d) /\ VersionAt(d, r) = v /\ b \in ReachedBy(d, r)
      BY <1>5, <2>2 DEF Meant
    <3>2. Settled(d)' /\ VersionAt(d, r)' = VersionAt(d, r)
      BY <3>1, SettledKept, LeavingFacts
    <3> QED BY <1>2, <1>3, <1>5, <3>1, <3>2 DEF Meant
  <2> QED BY <2>1, <2>2
<1> QED BY <1>4, <1>5

\* Operands that were renamed before a step keep their meaning.
LEMMA UsesKept ==
  ASSUME Laid, Steady, UsesInv,
         \A r \in Registers : \A b \in Reachable : \A i \in InstructionsOf(b) : \A k \in DOMAIN code'[i].uses : \A v :
           /\ Tracked(r) /\ ~Ready(i) /\ Ready(i)' /\ code[i].kind # "phi"
           /\ code'[i].uses[k].id = r /\ v = code'[i].uses[k].version
           => Meant(b, i, v, r)'
  PROVE  UsesInv'
<1>1. SameShape /\ UNCHANGED <<fn, blocks, conns, preds, phis>>
  BY DEF Steady
<1>2. /\ Reachable' = Reachable /\ \A b : InstructionsOf(b)' = InstructionsOf(b)
      /\ \A r : Tracked(r)' <=> Tracked(r)
  BY <1>1, ShapeFacts
<1>3. ASSUME NEW r \in Registers, Tracked(r), NEW b \in Reachable, NEW i \in InstructionsOf(b),
             Ready(i)', code'[i].kind # "phi", NEW k \in DOMAIN code'[i].uses, code'[i].uses[k].id = r,
             NEW v, v = code'[i].uses[k].version
      PROVE  Meant(b, i, v, r)'
  <2>1. b \in Blocks /\ i \in DOMAIN code
    BY HouseFacts
  <2>2. code[i].kind # "phi"
    BY <1>1, <1>3, <2>1 DEF SameShape
  <2>3. CASE Ready(i)
    <3>1. code'[i] = code[i]
      BY <2>1, <2>2, <2>3 DEF Steady
    <3>2. Meant(b, i, v, r)
      BY <1>3, <2>2, <2>3, <3>1 DEF UsesInv, UsesFit
    <3> QED BY <2>1, <3>2, MeantKept
  <2>4. CASE ~Ready(i)
    BY <1>3, <2>2, <2>4
  <2> QED BY <2>3, <2>4
<1>4. ASSUME NEW r \in Registers, Tracked(r)
      PROVE  UsesFit(r)'
  <2>1. ASSUME NEW b \in Reachable, NEW i \in InstructionsOf(b), Ready(i)', code'[i].kind # "phi",
               NEW k \in DOMAIN code'[i].uses, code'[i].uses[k].id = r
        PROVE  Meant(b, i, code[i].uses[k].version, r)'
    <3>1. PICK v : v = code'[i].uses[k].version
      OBVIOUS
    <3>2. Meant(b, i, v, r)'
      BY <1>3, <1>4, <2>1, <3>1
    <3> QED BY <3>1, <3>2 DEF Meant
  <2> QED BY <1>2, <2>1 DEF UsesFit
<1> QED BY <1>2, <1>4 DEF UsesInv

-----------------------------------------------------------------------------
\* The call on top, and a call that goes on.
LEMMA TopFacts ==
  ASSUME stack \in Seq(Calling), stack # <<>>
  PROVE  /\ Len(stack) \in Nat /\ Len(stack) >= 1 /\ DOMAIN stack = 1..Len(stack) /\ Len(stack) \in DOMAIN stack
         /\ Top = stack[Len(stack)] /\ Top \in Calling
         /\ Top.block \in Blocks /\ Top.next \in Nat /\ Top.instruction \in Nat
         /\ Top.assigned \in SUBSET Registers /\ Top.missing \in SUBSET (Blocks \X Registers)
<1>1. Len(stack) \in Nat /\ Len(stack) >= 1 /\ DOMAIN stack = 1..Len(stack) /\ stack[Len(stack)] \in Calling
  <2> HIDE DEF Calling
  <2> QED BY FrontFacts
<1>2. Len(stack) \in DOMAIN stack
  BY <1>1
<1> QED BY <1>1, <1>2 DEF Top, Calling

LEMMA GoesOn ==
  ASSUME stack \in Seq(Calling), stack # <<>>, NEW e \in Calling, Blocks' = Blocks,
         stack' = [stack EXCEPT ![Len(stack)] = e]
  PROVE  /\ stack' \in Seq(Calling') /\ Calling' = Calling /\ stack' # <<>> /\ Len(stack') = Len(stack) /\ DOMAIN stack' = DOMAIN stack
         /\ Top' = e /\ \A k \in DOMAIN stack : stack'[k] = IF k = Len(stack) THEN e ELSE stack[k]
<1>1. Calling' = Calling
  BY DEF Calling
<1>2. Len(stack) >= 1 /\ Len(stack) \in Nat /\ DOMAIN stack = 1..Len(stack) /\ Len(stack) \in DOMAIN stack
  BY TopFacts
<1> HIDE DEF Calling
<1>3. /\ stack' \in Seq(Calling) /\ Len(stack') = Len(stack)
      /\ \A k \in 1..Len(stack) : stack'[k] = IF k = Len(stack) THEN e ELSE stack[k]
  BY <1>2, ResumedFacts
<1>4. DOMAIN stack' = DOMAIN stack
  OBVIOUS
<1>5. stack' # <<>>
  BY <1>2, <1>3
<1> QED BY <1>1, <1>2, <1>3, <1>4, <1>5 DEF Top

LEMMA WayKept ==
  ASSUME Laid, Steady, NEW r, NEW b, NEW v,
         \E d \in Leaving(r) : Settled(d) /\ v = VersionAt(d, r) /\ b \in ReachedBy(d, r)
  PROVE  \E d \in Leaving(r)' : Settled(d)' /\ v = VersionAt(d, r)' /\ b \in ReachedBy(d, r)'
<1>1. PICK d \in Leaving(r) : Settled(d) /\ v = VersionAt(d, r) /\ b \in ReachedBy(d, r)
  OBVIOUS
<1>2. SameShape /\ UNCHANGED <<fn, blocks, conns, preds, phis>>
  BY DEF Steady
<1>3. Leaving(r)' = Leaving(r) /\ ReachedBy(d, r)' = ReachedBy(d, r)
  BY <1>2, ShapeFacts
<1>4. Settled(d)' /\ VersionAt(d, r)' = VersionAt(d, r)
  BY <1>1, SettledKept, LeavingFacts
<1> QED BY <1>1, <1>3, <1>4

\* A call keeps what its names mean when the step is about another, or about no instruction.
LEMMA CallKept ==
  ASSUME Laid, Steady, NEW r, NEW h, NEW g, NEW k, stack[k].block \in Blocks,
         h[k] \in Nat, h[k - 1] \in Nat, g[k] = h[k], g[k - 1] = h[k - 1],
         stack'[k].block = stack[k].block, r \in stack'[k].assigned <=> r \in stack[k].assigned,
         \A i \in DefinitionsIn(stack[k].block, r) : Ready(i)' <=> Ready(i),
         h[k] # 0 => names'[r][h[k]] = names[r][h[k]],
         h[k - 1] # 0 => names'[r][h[k - 1]] = names[r][h[k - 1]],
         CallFits(r, h, k)
  PROVE  CallFits(r, g, k)'
<1>1. SameShape /\ UNCHANGED <<fn, blocks, conns, preds, phis>>
  BY DEF Steady
<1>2. PICK b \in Blocks : b = stack[k].block
  OBVIOUS
<1>3. DefinitionsIn(b, r)' = DefinitionsIn(b, r) /\ Undefined(r)' = Undefined(r)
  BY <1>1, ShapeFacts
<1>4. Gone(b, r)' = Gone(b, r)
  BY <1>2, <1>3 DEF Gone
<1>5. \A d \in Gone(b, r) : VersionAt(d, r)' = VersionAt(d, r)
  <2> SUFFICES ASSUME NEW d \in Gone(b, r) PROVE VersionAt(d, r)' = VersionAt(d, r)
    OBVIOUS
  <2>1. d \in InstructionsOf(b) /\ Defines(d, r) /\ Settled(d)
    BY DEF Gone, DefinitionsIn, Settled
  <2>2. d \in DOMAIN code
    BY <2>1, HouseFacts
  <2> QED BY <2>1, <2>2, SettledKept
<1>6. \A d \in Gone(b, r) : names'[r][h[k]] = names[r][h[k]]
  <2> SUFFICES ASSUME Gone(b, r) # {} PROVE names'[r][h[k]] = names[r][h[k]]
    OBVIOUS
  <2>1. h[k] = h[k - 1] + 1
    BY <1>2 DEF CallFits
  <2>2. h[k] # 0
    BY <2>1
  <2> QED BY <2>2
<1>7. h[k - 1] # 0 => \E d \in Leaving(r)' : Settled(d)' /\ names'[r][h[k - 1]].version = VersionAt(d, r)' /\ b \in ReachedBy(d, r)'
  <2> SUFFICES ASSUME h[k - 1] # 0
               PROVE  \E d \in Leaving(r)' : Settled(d)' /\ names'[r][h[k - 1]].version = VersionAt(d, r)' /\ b \in ReachedBy(d, r)'
    OBVIOUS
  <2>1. PICK v : v = names[r][h[k - 1]].version
    OBVIOUS
  <2>2. \E d \in Leaving(r) : Settled(d) /\ v = VersionAt(d, r) /\ b \in ReachedBy(d, r)
    BY <1>2, <2>1 DEF CallFits
  <2>3. \E d \in Leaving(r)' : Settled(d)' /\ v = VersionAt(d, r)' /\ b \in ReachedBy(d, r)'
    BY <2>2, WayKept
  <2> QED BY <2>1, <2>3
<1>8. /\ h[k] = h[k - 1] + IF Gone(b, r) = {} THEN 0 ELSE 1
      /\ \A d \in Gone(b, r) : names[r][h[k]].version = VersionAt(d, r)
      /\ h[k - 1] = 0 => b \in Undefined(r)
      /\ r # Mem \/ k # 1 => (r \in stack[k].assigned <=> Gone(b, r) # {})
  BY <1>2 DEF CallFits
<1>9. /\ g[k] = g[k - 1] + IF Gone(b, r)' = {} THEN 0 ELSE 1
      /\ \A d \in Gone(b, r)' : names'[r][g[k]].version = VersionAt(d, r)'
      /\ g[k - 1] = 0 => b \in Undefined(r)'
      /\ g[k - 1] # 0 => \E d \in Leaving(r)' : Settled(d)' /\ names'[r][g[k - 1]].version = VersionAt(d, r)' /\ b \in ReachedBy(d, r)'
      /\ r # Mem \/ k # 1 => (r \in stack'[k].assigned <=> Gone(b, r)' # {})
  BY <1>3, <1>4, <1>5, <1>6, <1>7, <1>8
<1>10. stack'[k].block = b
  BY <1>2
<1> QED BY <1>9, <1>10 DEF CallFits

\* Steps that rename no instruction and enter or leave no block.
LEMMA FitSame ==
  ASSUME Laid, Steady, FitInv, stack \in Seq(Calling), stack # <<>>, NEW e \in Calling,
         stack' = [stack EXCEPT ![Len(stack)] = e], e.block = Top.block, e.assigned = Top.assigned,
         \A i \in DOMAIN code : Ready(i)' <=> Ready(i), names' = names
  PROVE  FitInv'
<1>1. SameShape /\ UNCHANGED <<fn, blocks, conns, preds, phis>>
  BY DEF Steady
<1>2. Blocks' = Blocks /\ \A r : Tracked(r)' <=> Tracked(r)
  BY <1>1, ShapeFacts
<1>3. /\ Len(stack') = Len(stack) /\ DOMAIN stack' = DOMAIN stack
      /\ \A k \in DOMAIN stack : stack'[k] = IF k = Len(stack) THEN e ELSE stack[k]
  BY <1>2, GoesOn
<1>4. \A k \in DOMAIN stack : stack'[k].block = stack[k].block /\ stack'[k].assigned = stack[k].assigned
  BY <1>3, TopFacts
<1> SUFFICES ASSUME NEW r \in Registers, Tracked(r) PROVE \E h : FitsBy(r, h)'
  BY <1>2 DEF FitInv
<1>5. PICK h : FitsBy(r, h)
  BY DEF FitInv
<1>6. ASSUME NEW k \in DOMAIN stack
      PROVE  CallFits(r, h, k)'
  <2>1. stack[k] \in Calling
    OBVIOUS
  <2>2. stack[k].block \in Blocks
    BY <2>1 DEF Calling
  <2>3. h[k] \in Nat /\ h[k - 1] \in Nat
    <3>1. PICK n \in Nat : n = Len(stack) /\ DOMAIN stack = 1..n
      BY TopFacts
    <3>2. k \in 0..n /\ k - 1 \in 0..n
      BY <3>1
    <3> QED BY <1>5, <3>1, <3>2 DEF FitsBy
  <2>4. \A i \in DefinitionsIn(stack[k].block, r) : Ready(i)' <=> Ready(i)
    <3>1. DefinitionsIn(stack[k].block, r) \subseteq DOMAIN code
      BY <2>2, HouseFacts DEF DefinitionsIn
    <3> QED BY <3>1
  <2>5. CallFits(r, h, k)
    BY <1>5 DEF FitsBy
  <2> QED BY <1>4, <2>2, <2>3, <2>4, <2>5, CallKept
<1> QED BY <1>3, <1>5, <1>6 DEF FitsBy

-----------------------------------------------------------------------------
\* The walk goes on, enters a block, or goes back.
LEMMA WalkOn ==
  ASSUME Laid, SameShape, UNCHANGED <<fn, blocks, conns, preds, phis>>, WalkInv, stack # <<>>, NEW e \in Calling,
         stack' = [stack EXCEPT ![Len(stack)] = e], e.block = Top.block, visited' = visited,
         Top.instruction <= e.instruction,
         \A q \in e.missing : q[1] \in Succ(Top.block) /\ q[2] \in phis[q[1]],
         \A j \in DOMAIN conns[Top.block] : j < e.next => conns[Top.block][j] \in visited,
         pc' # "done"
  PROVE  WalkInv'
<1>1. Blocks' = Blocks /\ Reachable' = Reachable /\ \A b : Succ(b)' = Succ(b)
  BY ShapeFacts
<1>2. stack \in Seq(Calling)
  BY DEF WalkInv
<1>3. /\ stack' \in Seq(Calling') /\ Len(stack') = Len(stack) /\ DOMAIN stack' = DOMAIN stack
      /\ \A k \in DOMAIN stack : stack'[k] = IF k = Len(stack) THEN e ELSE stack[k]
  BY <1>1, <1>2, GoesOn
<1>4. Top = stack[Len(stack)] /\ Len(stack) \in DOMAIN stack /\ Top.block \in Blocks /\ Top.instruction \in Nat
  BY <1>2, TopFacts
<1>5. \A k \in DOMAIN stack : stack'[k].block = stack[k].block
  BY <1>3, <1>4
<1>6. ASSUME NEW k \in DOMAIN stack
      PROVE  /\ stack'[k].block \in visited' /\ blocks'[stack'[k].block].first <= stack'[k].instruction
             /\ k < Len(stack') => stack'[k].next # 0
             /\ \A q \in stack'[k].missing : q[1] \in Succ(stack'[k].block) /\ q[2] \in phis'[q[1]]
             /\ \A j \in DOMAIN conns'[stack'[k].block] : j < stack'[k].next => conns'[stack'[k].block][j] \in visited'
  <2>1. /\ stack[k].block \in visited /\ blocks[stack[k].block].first <= stack[k].instruction
        /\ k < Len(stack) => stack[k].next # 0
        /\ \A q \in stack[k].missing : q[1] \in Succ(stack[k].block) /\ q[2] \in phis[q[1]]
        /\ \A j \in DOMAIN conns[stack[k].block] : j < stack[k].next => conns[stack[k].block][j] \in visited
    BY DEF WalkInv
  <2>2. CASE k # Len(stack)
    BY <1>3, <2>1, <2>2
  <2>3. CASE k = Len(stack)
    <3>1. stack'[k] = e /\ stack[k] = Top /\ ~(k < Len(stack'))
      BY <1>2, <1>3, <1>4, <2>3, TopFacts
    <3>2. blocks[Top.block].first <= e.instruction
      <4>1. blocks[Top.block].first \in Nat
        BY <1>4, HouseFacts
      <4>2. e.instruction \in Nat
        BY DEF Calling
      <4> QED BY <1>4, <2>1, <3>1, <4>1, <4>2
    <3> QED BY <2>1, <3>1, <3>2
  <2> QED BY <2>2, <2>3
<1>7. \A b \in visited : (\E k \in DOMAIN stack : stack'[k].block = b) \/ Succ(b) \subseteq visited
  BY <1>5 DEF WalkInv
<1>8. \A k, l \in DOMAIN stack : stack'[k].block = stack'[l].block => k = l
  BY <1>5 DEF WalkInv
<1> HIDE DEF Calling
<1> QED BY <1>1, <1>3, <1>6, <1>7, <1>8 DEF WalkInv

\* What the walk has to have afterwards, call by call.
LEMMA WalkNow ==
  ASSUME NEW n \in Nat, Calling' = Calling, Reachable' = Reachable, \A b : Succ(b)' = Succ(b),
         stack' \in Seq(Calling), Len(stack') = n, DOMAIN stack' = 1..n,
         visited' \subseteq Reachable, 1 \in visited', pc' # "done",
         \A k \in 1..n :
           /\ stack'[k].block \in visited' /\ blocks'[stack'[k].block].first <= stack'[k].instruction
           /\ k < Len(stack') => stack'[k].next # 0
           /\ \A q \in stack'[k].missing : q[1] \in Succ(stack'[k].block) /\ q[2] \in phis'[q[1]]
           /\ \A j \in DOMAIN conns'[stack'[k].block] : j < stack'[k].next => conns'[stack'[k].block][j] \in visited',
         \A k, l \in 1..n : stack'[k].block = stack'[l].block => k = l,
         \A b \in visited' : (\E k \in 1..n : stack'[k].block = b) \/ Succ(b) \subseteq visited'
  PROVE  WalkInv'
<1> HIDE DEF Calling
<1> QED BY DEF WalkInv

LEMMA WalkInto ==
  ASSUME Laid, UNCHANGED <<fn, code, blocks, conns, preds, phis>>, WalkInv, stack # <<>>,
         Top.next \in DOMAIN conns[Top.block], NEW s, s = conns[Top.block][Top.next], s \notin visited,
         NEW e \in Calling, e = [Top EXCEPT !.next = @ + 1],
         NEW c \in Calling, c.block = s, c.next = 0, c.instruction = blocks[s].first, c.missing = {},
         stack' = Append([stack EXCEPT ![Len(stack)] = e], c), visited' = visited \cup {s}, pc' # "done"
  PROVE  /\ WalkInv'
         /\ stack' \in Seq(Calling) /\ Len(stack') = Len(stack) + 1 /\ DOMAIN stack' = 1..(Len(stack) + 1)
         /\ stack'[Len(stack) + 1] = c /\ Top' = c /\ stack' # <<>>
         /\ \A k \in DOMAIN stack : stack'[k].block = stack[k].block /\ stack'[k].assigned = stack[k].assigned
<1>0. Blocks' = Blocks /\ Reachable' = Reachable /\ \A b : Succ(b)' = Succ(b)
  <2>1. SameShape
    BY DEF Laid, SameShape
  <2> QED BY <2>1, ShapeFacts
<1>1. stack \in Seq(Calling) /\ visited \subseteq Reachable
  BY DEF WalkInv
<1>2. /\ Top = stack[Len(stack)] /\ Top.block \in Blocks /\ Top \in Calling /\ Top.next \in Nat /\ Len(stack) >= 1
  BY <1>1, TopFacts
<1>3. PICK n \in Nat : n = Len(stack) /\ n >= 1 /\ DOMAIN stack = 1..n /\ n \in DOMAIN stack
  BY <1>1, TopFacts
<1>4. e.block = Top.block /\ e.next = Top.next + 1 /\ e.instruction = Top.instruction
      /\ e.assigned = Top.assigned /\ e.missing = Top.missing
  BY <1>2 DEF Calling
<1> HIDE DEF Calling
<1>5. PICK u \in Seq(Calling) : /\ u = [stack EXCEPT ![n] = e] /\ Len(u) = n
                                /\ \A k \in 1..n : u[k] = IF k = n THEN e ELSE stack[k]
  <2>1. /\ [stack EXCEPT ![Len(stack)] = e] \in Seq(Calling) /\ Len([stack EXCEPT ![Len(stack)] = e]) = Len(stack)
        /\ \A k \in 1..Len(stack) : [stack EXCEPT ![Len(stack)] = e][k] = IF k = Len(stack) THEN e ELSE stack[k]
    BY SMTT(20), <1>1, <1>2, ResumedFacts
  <2> QED BY <1>3, <2>1
<1>6. /\ stack' \in Seq(Calling) /\ Len(stack') = n + 1 /\ DOMAIN stack' = 1..(n + 1)
      /\ \A k \in 1..(n + 1) : stack'[k] = IF k = n + 1 THEN c ELSE u[k]
  <2>1. stack' = Append(u, c)
    BY <1>3, <1>5
  <2> QED BY <1>5, <2>1, AppendFacts
<1>7. /\ \A k \in 1..n : k # n => stack'[k] = stack[k]
      /\ stack'[n] = e /\ stack'[n + 1] = c
  <2>1. \A k \in 1..n : k \in 1..(n + 1) /\ k # n + 1
    OBVIOUS
  <2>2. n + 1 \in 1..(n + 1)
    OBVIOUS
  <2> QED BY <1>3, <1>5, <1>6, <2>1, <2>2
<1>8. \A k \in 1..n : stack'[k].block = stack[k].block /\ stack'[k].assigned = stack[k].assigned
  <2>1. stack[n] = Top
    BY <1>2, <1>3
  <2>2. stack'[n].block = stack[n].block /\ stack'[n].assigned = stack[n].assigned
    BY <1>4, <1>7, <2>1
  <2> QED BY <1>7, <2>2
<1>9. s \in Succ(Top.block) /\ s \in Reachable /\ s \in Blocks
  <2>1. s \in Succ(Top.block)
    BY DEF Succ, Seqs!ToSet
  <2>2. Top.block \in visited
    BY <1>2, <1>3 DEF WalkInv
  <2> QED BY <1>1, <2>1, <2>2, HouseFacts
<1>10. ASSUME NEW k \in 1..(n + 1)
       PROVE  /\ stack'[k].block \in visited' /\ blocks'[stack'[k].block].first <= stack'[k].instruction
              /\ k < Len(stack') => stack'[k].next # 0
              /\ \A q \in stack'[k].missing : q[1] \in Succ(stack'[k].block) /\ q[2] \in phis'[q[1]]
              /\ \A j \in DOMAIN conns'[stack'[k].block] : j < stack'[k].next => conns'[stack'[k].block][j] \in visited'
  <2>1. CASE k = n + 1
    <3>1. stack'[k] = c /\ ~(k < Len(stack'))
      BY <1>6, <1>7, <2>1
    <3>2. blocks[s].first <= blocks[s].first
      BY <1>9, HouseFacts
    <3>3. DOMAIN conns[s] \subseteq Nat
      <4>1. conns[s] \in Seq(Blocks)
        BY <1>9, HouseFacts
      <4> QED BY <4>1
    <3>4. \A j \in DOMAIN conns[s] : ~(j < 0)
      BY <3>3
    <3> QED BY <3>1, <3>2, <3>4
  <2>2. CASE k # n + 1
    <3>0. k \in DOMAIN stack /\ k \in 1..n
      BY <1>3, <2>2
    <3>1. /\ stack[k].block \in visited /\ blocks[stack[k].block].first <= stack[k].instruction
          /\ k < Len(stack) => stack[k].next # 0
          /\ \A q \in stack[k].missing : q[1] \in Succ(stack[k].block) /\ q[2] \in phis[q[1]]
          /\ \A j \in DOMAIN conns[stack[k].block] : j < stack[k].next => conns[stack[k].block][j] \in visited
      BY <3>0 DEF WalkInv
    <3>2. CASE k # n
      <4>1. k < n
        BY <3>0, <3>2
      <4> QED BY <1>3, <1>7, <3>0, <3>1, <3>2, <4>1
    <3>3. CASE k = n
      <4>1. stack'[k] = e /\ stack[k] = Top /\ e.next # 0
        <5>1. PICK q \in Nat : q = Top.next
          BY <1>2
        <5>2. q + 1 # 0
          OBVIOUS
        <5>3. e.next # 0
          BY <1>4, <5>1, <5>2
        <5>4. stack[n] = Top
          BY <1>2, <1>3
        <5> QED BY <1>7, <3>3, <5>3, <5>4
      <4>2. ASSUME NEW j \in DOMAIN conns[Top.block], j < e.next
            PROVE  conns[Top.block][j] \in visited'
        <5>1. conns[Top.block] \in Seq(Blocks)
          BY <1>2, HouseFacts
        <5>2. j \in Nat
          BY <5>1
        <5>3. j < Top.next \/ j = Top.next
          <6>1. PICK q \in Nat : q = Top.next
            BY <1>2
          <6>2. j < q + 1
            BY <1>4, <4>2, <6>1
          <6>3. j < q \/ j = q
            BY <5>2, <6>2
          <6> QED BY <6>1, <6>3
        <5> QED BY <3>1, <4>1, <5>3
      <4>3. e.block \in visited' /\ blocks[e.block].first <= e.instruction
        BY <1>4, <3>1, <4>1
      <4>4. \A q \in e.missing : q[1] \in Succ(e.block) /\ q[2] \in phis[q[1]]
        BY <1>4, <3>1, <4>1
      <4>5. \A j \in DOMAIN conns[e.block] : j < e.next => conns[e.block][j] \in visited'
        BY <1>4, <4>2
      <4>6. \A q \in e.missing : q[1] \in Succ(e.block) /\ q[2] \in phis'[q[1]]
        BY <4>4
      <4>7. \A j \in DOMAIN conns'[e.block] : j < e.next => conns'[e.block][j] \in visited'
        BY <4>5
      <4> HIDE DEF Succ
      <4> QED BY <4>1, <4>3, <4>6, <4>7
    <3> QED BY <3>2, <3>3
  <2> QED BY <2>1, <2>2
<1>11. ASSUME NEW k \in 1..(n + 1), NEW l \in 1..(n + 1), stack'[k].block = stack'[l].block
       PROVE  k = l
  <2>1. \A i \in 1..n : stack[i].block \in visited
    BY <1>3 DEF WalkInv
  <2>2. \A i \in 1..(n + 1) : i # n + 1 => i \in 1..n
    OBVIOUS
  <2>3. CASE k \in 1..n /\ l \in 1..n
    BY <1>3, <1>8, <1>11, <2>3 DEF WalkInv
  <2>4. stack'[n + 1].block = s
    BY <1>7
  <2>5. CASE k = n + 1 /\ l # n + 1
    <3>1. stack[l].block \in visited /\ stack'[l].block = stack[l].block
      BY <1>8, <2>1, <2>2, <2>5
    <3> QED BY <1>11, <2>4, <2>5, <3>1
  <2>6. CASE k # n + 1 /\ l = n + 1
    <3>1. stack[k].block \in visited /\ stack'[k].block = stack[k].block
      BY <1>8, <2>1, <2>2, <2>6
    <3> QED BY <1>11, <2>4, <2>6, <3>1
  <2>7. CASE k # n + 1 /\ l # n + 1
    BY <2>2, <2>3, <2>7
  <2>8. CASE k = n + 1 /\ l = n + 1
    BY <2>8
  <2> QED BY <2>5, <2>6, <2>7, <2>8
<1>12. ASSUME NEW b \in visited'
       PROVE  (\E k \in 1..(n + 1) : stack'[k].block = b) \/ Succ(b) \subseteq visited'
  <2>1. CASE b = s
    <3>1. n + 1 \in 1..(n + 1)
      OBVIOUS
    <3> QED BY <1>7, <2>1, <3>1
  <2>2. CASE b # s
    <3>1. (\E k \in 1..n : stack[k].block = b) \/ Succ(b) \subseteq visited
      BY <1>3, <1>12, <2>2 DEF WalkInv
    <3>2. 1..n \subseteq 1..(n + 1)
      OBVIOUS
    <3> QED BY <1>8, <3>1, <3>2
  <2> QED BY <2>1, <2>2
<1>13. Calling' = Calling
  BY <1>0 DEF Calling
<1>14. 1 \in visited'
  BY <1>2, <1>3 DEF WalkInv
<1>15. WalkInv'
  <2>1. PICK m \in Nat : m = n + 1
    OBVIOUS
  <2>2. /\ stack' \in Seq(Calling) /\ Len(stack') = m /\ DOMAIN stack' = 1..m
        /\ visited' \subseteq Reachable /\ 1 \in visited'
    BY <1>1, <1>6, <1>9, <1>14, <2>1
  <2>3. ASSUME NEW k \in 1..m
        PROVE  /\ stack'[k].block \in visited' /\ blocks'[stack'[k].block].first <= stack'[k].instruction
               /\ k < Len(stack') => stack'[k].next # 0
               /\ \A q \in stack'[k].missing : q[1] \in Succ(stack'[k].block) /\ q[2] \in phis'[q[1]]
               /\ \A j \in DOMAIN conns'[stack'[k].block] : j < stack'[k].next => conns'[stack'[k].block][j] \in visited'
    BY ZenonT(20), <1>10, <2>1
  <2>4. \A k, l \in 1..m : stack'[k].block = stack'[l].block => k = l
    BY <1>11, <2>1
  <2>5. \A b \in visited' : (\E k \in 1..m : stack'[k].block = b) \/ Succ(b) \subseteq visited'
    BY <1>12, <2>1
  <2> QED BY <1>0, <1>13, <2>2, <2>3, <2>4, <2>5, WalkNow
<1>16. stack' # <<>> /\ Top' = c
  <2>1. stack' # <<>>
    BY <1>6
  <2> QED BY <1>6, <1>7, <2>1 DEF Top
<1> QED BY <1>3, <1>6, <1>7, <1>8, <1>15, <1>16

LEMMA WalkFirst ==
  ASSUME Laid, UNCHANGED <<fn, code, blocks, conns, preds, phis>>, WalkInv, stack = <<>>, visited = {},
         NEW c \in Calling, c.block = 1, c.next = 0, c.instruction = blocks[1].first, c.missing = {},
         stack' = Append(<<>>, c), visited' = visited \cup {1}, pc' # "done"
  PROVE  /\ WalkInv'
         /\ stack' \in Seq(Calling) /\ Len(stack') = 1 /\ DOMAIN stack' = {1} /\ stack'[1] = c /\ Top' = c /\ stack' # <<>>
<1>0. Blocks' = Blocks /\ Reachable' = Reachable /\ \A b : Succ(b)' = Succ(b)
  <2>1. SameShape
    BY DEF Laid, SameShape
  <2> QED BY <2>1, ShapeFacts
<1> HIDE DEF Calling
<1>1. stack' = <<c>> /\ stack' \in Seq(Calling) /\ Len(stack') = 1 /\ DOMAIN stack' = {1} /\ stack'[1] = c /\ stack' # <<>>
  OBVIOUS
<1>2. Top' = c
  BY <1>1 DEF Top
<1>3. 1 \in Reachable /\ blocks[1].first \in Nat /\ conns[1] \in Seq(Blocks)
  BY HouseFacts
<1>4. \A j \in DOMAIN conns[1] : ~(j < 0)
  BY <1>3
<1>5. blocks[1].first <= blocks[1].first
  BY <1>3
<1>6. Calling' = Calling
  BY <1>0 DEF Calling
<1>7. ~(1 < Len(stack'))
  BY <1>1
<1> QED BY <1>0, <1>1, <1>2, <1>3, <1>4, <1>5, <1>6, <1>7 DEF WalkInv

LEMMA WalkBack ==
  ASSUME Laid, SameShape, UNCHANGED <<fn, blocks, conns, preds, phis>>, WalkInv, stack # <<>>,
         Top.next > Len(conns[Top.block]), stack' = Seqs!Front(stack), visited' = visited, pc' # "done"
  PROVE  /\ WalkInv' /\ Len(stack') = Len(stack) - 1 /\ DOMAIN stack' = 1..(Len(stack) - 1)
         /\ \A k \in 1..(Len(stack) - 1) : stack'[k] = stack[k]
         /\ stack' # <<>> => Top'.next # 0
         /\ Succ(Top.block) \subseteq visited
<1>0. Blocks' = Blocks /\ Reachable' = Reachable /\ \A b : Succ(b)' = Succ(b)
  BY ShapeFacts
<1>1. stack \in Seq(Calling) /\ visited \subseteq Reachable
  BY DEF WalkInv
<1>2. Top = stack[Len(stack)] /\ Top.block \in Blocks /\ Top.next \in Nat
  BY <1>1, TopFacts
<1>3. PICK n \in Nat : n = Len(stack) /\ n >= 1 /\ DOMAIN stack = 1..n /\ n \in DOMAIN stack
  BY <1>1, TopFacts
<1>4. /\ stack' \in Seq(Calling) /\ Len(stack') = n - 1 /\ DOMAIN stack' = 1..(n - 1)
      /\ \A k \in 1..(n - 1) : stack'[k] = stack[k]
  <2> HIDE DEF Calling
  <2> QED BY <1>1, <1>3, FrontFacts
<1>5. 1..(n - 1) \subseteq 1..n /\ \A k \in 1..(n - 1) : k < n
  OBVIOUS
<1>6. Succ(Top.block) \subseteq visited
  <2>1. PICK s \in Seq(Blocks) : s = conns[Top.block]
    BY <1>2, HouseFacts
  <2>2. \A j \in DOMAIN s : j < Top.next
    <3>1. PICK l \in Nat : l = Len(s) /\ DOMAIN s = 1..l
      OBVIOUS
    <3> QED BY <1>2, <2>1, <3>1
  <2>3. \A j \in DOMAIN s : s[j] \in visited
    BY <1>2, <1>3, <2>1, <2>2 DEF WalkInv
  <2> QED BY <2>1, <2>3 DEF Succ, Seqs!ToSet
<1>7. ASSUME NEW k \in 1..(n - 1)
      PROVE  /\ stack[k].block \in visited /\ blocks[stack[k].block].first <= stack[k].instruction
             /\ stack[k].next # 0
             /\ \A q \in stack[k].missing : q[1] \in Succ(stack[k].block) /\ q[2] \in phis[q[1]]
             /\ \A j \in DOMAIN conns[stack[k].block] : j < stack[k].next => conns[stack[k].block][j] \in visited
  <2>1. k \in DOMAIN stack /\ k < Len(stack)
    BY <1>3, <1>5
  <2> QED BY <2>1 DEF WalkInv
<1>8. ASSUME NEW b \in visited
      PROVE  (\E k \in 1..(n - 1) : stack'[k].block = b) \/ Succ(b) \subseteq visited
  <2>1. CASE Succ(b) \subseteq visited
    BY <2>1
  <2>2. CASE \E k \in DOMAIN stack : stack[k].block = b
    <3>1. PICK k \in DOMAIN stack : stack[k].block = b
      BY <2>2
    <3>2. CASE k = n
      BY <1>2, <1>3, <1>6, <3>1, <3>2
    <3>3. CASE k # n
      <4>1. k \in 1..(n - 1)
        BY <1>3, <3>3
      <4> QED BY <1>4, <3>1, <4>1
    <3> QED BY <3>2, <3>3
  <2> QED BY <2>1, <2>2 DEF WalkInv
<1>9. ASSUME NEW k \in 1..(n - 1), NEW l \in 1..(n - 1), stack'[k].block = stack'[l].block
      PROVE  k = l
  <2>1. stack'[k] = stack[k] /\ stack'[l] = stack[l]
    BY <1>4
  <2>2. k \in DOMAIN stack /\ l \in DOMAIN stack /\ stack[k].block = stack[l].block
    BY <1>3, <1>5, <1>9, <2>1
  <2> QED BY <2>2 DEF WalkInv
<1>10. Calling' = Calling
  BY <1>0 DEF Calling
<1>11. stack' # <<>> => Top'.next # 0
  <2> SUFFICES ASSUME stack' # <<>> PROVE Top'.next # 0
    OBVIOUS
  <2>1. n - 1 \in 1..(n - 1)
    <3>1. n - 1 # 0
      BY <1>4
    <3> QED BY <1>3, <3>1
  <2>2. Top' = stack[n - 1]
    BY <1>4, <2>1 DEF Top
  <2> QED BY <1>7, <2>1, <2>2
<1>12. WalkInv'
  <2>1. \A k \in 1..(n - 1) :
             /\ stack'[k].block \in visited' /\ blocks'[stack'[k].block].first <= stack'[k].instruction
             /\ k < Len(stack') => stack'[k].next # 0
             /\ \A q \in stack'[k].missing : q[1] \in Succ(stack'[k].block) /\ q[2] \in phis'[q[1]]
             /\ \A j \in DOMAIN conns'[stack'[k].block] : j < stack'[k].next => conns'[stack'[k].block][j] \in visited'
    BY <1>4, <1>7
  <2>2. visited' # {} => 1 \in visited'
    BY DEF WalkInv
  <2> HIDE DEF Calling
  <2> QED BY <1>0, <1>1, <1>4, <1>8, <1>9, <1>10, <2>1, <2>2 DEF WalkInv
<1> QED BY <1>3, <1>4, <1>6, <1>11, <1>12

-----------------------------------------------------------------------------
\* Which instructions are ready after a step.
LEMMA ReadyStays ==
  ASSUME Laid, SameShape, UNCHANGED <<fn, blocks, conns, preds, phis>>, visited' = visited,
         stack = <<>> \/ Top.next # 0, stack' = <<>> \/ Top'.next # 0, NEW i
  PROVE  Ready(i)' <=> Ready(i)
<1>1. BlockForInstruction(i)' = BlockForInstruction(i)
  BY ShapeFacts
<1> QED BY <1>1 DEF Ready

LEMMA ReadyDone ==
  ASSUME Laid, SameShape, UNCHANGED <<fn, blocks, conns, preds, phis>>, visited' = visited,
         Top.block \in Blocks, Top.instruction \in Nat, Top.instruction > blocks[Top.block].last,
         stack' = <<>> \/ Top'.next # 0, NEW i \in DOMAIN code
  PROVE  Ready(i)' <=> Ready(i)
<1>1. BlockForInstruction(i)' = BlockForInstruction(i)
  BY ShapeFacts
<1>2. Top.block = BlockForInstruction(i) => ~(Top.instruction <= i)
  <2> SUFFICES ASSUME Top.block = BlockForInstruction(i) PROVE ~(Top.instruction <= i)
    OBVIOUS
  <2>1. i \in InstructionsOf(Top.block) /\ i \in Nat /\ blocks[Top.block].last \in Nat /\ blocks[Top.block].first \in Nat
    BY HouseFacts
  <2>2. i <= blocks[Top.block].last
    BY <2>1 DEF InstructionsOf
  <2> QED BY <2>1, <2>2
<1> QED BY <1>1, <1>2 DEF Ready

LEMMA ReadyOne ==
  ASSUME Laid, SameShape, UNCHANGED <<fn, blocks, conns, preds, phis>>, visited' = visited, Top.block \in visited,
         stack # <<>>, stack' # <<>>, Top.next = 0, Top.instruction \in InstructionsOf(Top.block), Top.block \in Blocks,
         Top'.next = 0, Top'.block = Top.block, Top'.instruction = Top.instruction + 1
  PROVE  /\ \A i \in DOMAIN code : Ready(i)' <=> Ready(i) \/ i = Top.instruction
         /\ ~Ready(Top.instruction) /\ Top.instruction \in DOMAIN code
<1>1. \A i : BlockForInstruction(i)' = BlockForInstruction(i)
  BY ShapeFacts
<1>2. PICK p : p = Top.instruction
  OBVIOUS
<1>3. p \in Nat /\ p \in DOMAIN code /\ BlockForInstruction(p) = Top.block
  BY <1>2, HouseFacts
<1>4. ~Ready(p)
  <2>1. p <= p
    BY <1>3
  <2> QED BY <1>2, <1>3, <2>1 DEF Ready
<1>5. ASSUME NEW i \in DOMAIN code
      PROVE  Ready(i)' <=> Ready(i) \/ i = p
  <2>1. i \in Nat
    BY HouseFacts
  <2>2. p + 1 <= i <=> p <= i /\ i # p
    BY <1>3, <2>1
  <2>3. Ready(i)' <=> BlockForInstruction(i) \in visited /\ ~(Top.block = BlockForInstruction(i) /\ p + 1 <= i)
    BY <1>1, <1>2 DEF Ready
  <2>4. Ready(i) <=> BlockForInstruction(i) \in visited /\ ~(Top.block = BlockForInstruction(i) /\ p <= i)
    BY <1>2 DEF Ready
  <2> QED BY <1>3, <2>2, <2>3, <2>4
<1> QED BY <1>2, <1>3, <1>4, <1>5

LEMMA ReadyInto ==
  ASSUME Laid, UNCHANGED <<fn, code, blocks, conns, preds, phis>>, NEW s \in Blocks, s \notin visited, visited' = visited \cup {s},
         stack = <<>> \/ Top.next # 0, stack' # <<>>, Top'.next = 0, Top'.block = s, Top'.instruction = blocks[s].first,
         NEW i \in DOMAIN code
  PROVE  Ready(i)' <=> Ready(i)
<1>0. SameShape
  BY DEF Laid, SameShape
<1>1. BlockForInstruction(i)' = BlockForInstruction(i)
  BY <1>0, ShapeFacts
<1>2. CASE BlockForInstruction(i) = s
  <2>1. i \in InstructionsOf(s) /\ i \in Nat /\ blocks[s].first \in Nat /\ blocks[s].last \in Nat
    BY <1>2, HouseFacts
  <2>2. blocks[s].first <= i
    BY <2>1 DEF InstructionsOf
  <2> QED BY <1>1, <1>2, <2>2 DEF Ready
<1>3. CASE BlockForInstruction(i) # s
  BY <1>1, <1>3 DEF Ready
<1> QED BY <1>2, <1>3

\* Steps that leave the code alone, and what is ready with it.
LEMMA SteadySame ==
  ASSUME Laid, UNCHANGED <<fn, code, blocks, conns, preds, phis>>, \A i \in DOMAIN code : Ready(i)' <=> Ready(i)
  PROVE  Steady
<1>1. SameShape
  BY DEF Laid, SameShape
<1> QED BY <1>1 DEF Steady

LEMMA UsesSame ==
  ASSUME Laid, Steady, UsesInv, \A i \in DOMAIN code : Ready(i)' <=> Ready(i)
  PROVE  UsesInv'
<1>1. \A b \in Reachable : \A i \in InstructionsOf(b) : i \in DOMAIN code
  BY HouseFacts
<1> QED BY <1>1, UsesKept

LEMMA LastKept ==
  ASSUME Laid, Steady, LastInv, \A r \in Registers : last[r] # <<>> => last'[r] # <<>>,
         \A i \in DOMAIN code : \A r \in Registers : ~Ready(i) /\ Ready(i)' /\ Defines(i, r) => last'[r] # <<>>
  PROVE  LastInv'
<1>1. SameShape /\ UNCHANGED <<fn, blocks, conns, preds, phis>>
  BY DEF Steady
<1>2. DOMAIN code' = DOMAIN code /\ \A i \in DOMAIN code : \A r : Defines(i, r)' <=> Defines(i, r)
  BY <1>1, ShapeFacts DEF SameShape
<1> QED BY <1>2 DEF LastInv

-----------------------------------------------------------------------------
\* What a register is called where the call on top has come to.
LEMMA FitTop ==
  ASSUME Laid, stack \in Seq(Calling), stack # <<>>, NEW r, NEW h, FitsBy(r, h)
  PROVE  \E n \in Nat :
           /\ n = Len(stack) /\ n >= 1 /\ DOMAIN stack = 1..n /\ Top = stack[n] /\ Top.block \in Blocks
           /\ \A k \in 0..n : h[k] \in Nat
           /\ h[n] \in Nat /\ h[n - 1] \in Nat /\ h[n] = Len(names[r])
           /\ h[n] = h[n - 1] + IF Gone(Top.block, r) = {} THEN 0 ELSE 1
           /\ \A d \in Gone(Top.block, r) : names[r][h[n]].version = VersionAt(d, r)
           /\ h[n - 1] = 0 => Top.block \in Undefined(r)
           /\ h[n - 1] # 0 =>
                \E d \in Leaving(r) :
                  Settled(d) /\ names[r][h[n - 1]].version = VersionAt(d, r) /\ Top.block \in ReachedBy(d, r)
           /\ r # Mem \/ n # 1 => (r \in Top.assigned <=> Gone(Top.block, r) # {})
<1>1. PICK n \in Nat : n = Len(stack) /\ n >= 1 /\ DOMAIN stack = 1..n /\ Top = stack[n] /\ n \in DOMAIN stack /\ Top.block \in Blocks
  BY TopFacts
<1>2. \A k \in 0..n : h[k] \in Nat
  BY <1>1 DEF FitsBy
<1>3. n \in 0..n /\ n - 1 \in 0..n
  BY <1>1
<1>4. CallFits(r, h, n)
  BY <1>1 DEF FitsBy
<1>5. h[n] = Len(names[r])
  BY <1>1 DEF FitsBy
<1> QED BY <1>1, <1>2, <1>3, <1>4, <1>5 DEF CallFits

\* The walk enters a block that the one in hand leads to.
LEMMA FitInto ==
  ASSUME Laid, Steady, FitInv, stack \in Seq(Calling), stack # <<>>, visited \subseteq Reachable, Top.block \in visited,
         Top.next # 0, NEW s, s \in Succ(Top.block), s \notin visited,
         Len(stack') = Len(stack) + 1, DOMAIN stack' = 1..(Len(stack) + 1),
         stack'[Len(stack) + 1].block = s,
         \A k \in DOMAIN stack : stack'[k].block = stack[k].block /\ stack'[k].assigned = stack[k].assigned,
         \A i \in DOMAIN code : Ready(i)' <=> Ready(i),
         \A r \in Registers : Tracked(r) => names'[r] = names[r] /\ r \notin stack'[Len(stack) + 1].assigned
  PROVE  FitInv'
<1>1. SameShape /\ UNCHANGED <<fn, blocks, conns, preds, phis>>
  BY DEF Steady
<1>2. Blocks' = Blocks /\ Reachable' = Reachable /\ \A r : Tracked(r)' <=> Tracked(r)
  BY <1>1, ShapeFacts
<1>3. /\ Reachable \in SUBSET Blocks /\ \A b \in Reachable : Succ(b) \subseteq Reachable
      /\ \A b \in Blocks : InstructionsOf(b) \subseteq DOMAIN code
      /\ \A b \in Blocks : \A i \in InstructionsOf(b) : BlockForInstruction(i) = b
      /\ Housed /\ Linked /\ Drawn
  BY HouseFacts DEF Laid
<1> SUFFICES ASSUME NEW r \in Registers, Tracked(r) PROVE \E h : FitsBy(r, h)'
  BY <1>2 DEF FitInv
<1>4. PICK h : FitsBy(r, h)
  BY DEF FitInv
<1>5. PICK n \in Nat :
           /\ n = Len(stack) /\ n >= 1 /\ DOMAIN stack = 1..n /\ Top = stack[n] /\ Top.block \in Blocks
           /\ \A k \in 0..n : h[k] \in Nat
           /\ h[n] \in Nat /\ h[n - 1] \in Nat /\ h[n] = Len(names[r])
           /\ h[n] = h[n - 1] + IF Gone(Top.block, r) = {} THEN 0 ELSE 1
           /\ \A d \in Gone(Top.block, r) : names[r][h[n]].version = VersionAt(d, r)
           /\ h[n - 1] = 0 => Top.block \in Undefined(r)
           /\ h[n - 1] # 0 =>
                \E d \in Leaving(r) :
                  Settled(d) /\ names[r][h[n - 1]].version = VersionAt(d, r) /\ Top.block \in ReachedBy(d, r)
           /\ r # Mem \/ n # 1 => (r \in Top.assigned <=> Gone(Top.block, r) # {})
  BY <1>4, FitTop
<1>6. PICK b \in Blocks : b = Top.block /\ b \in Reachable
  BY <1>5
<1>7. Gone(b, r) = DefinitionsIn(b, r)
  <2>1. \A i \in DefinitionsIn(b, r) : Ready(i)
    BY <1>3, <1>6 DEF DefinitionsIn, Ready
  <2> QED BY <2>1 DEF Gone
<1>8. Gone(s, r)' = {}
  <2>1. s \in Blocks
    BY <1>3, <1>6
  <2>2. DefinitionsIn(s, r)' = DefinitionsIn(s, r)
    BY <1>1, <2>1, ShapeFacts
  <2>3. \A i \in DefinitionsIn(s, r) : i \in DOMAIN code /\ ~Ready(i)
    BY <1>3, <2>1 DEF DefinitionsIn, Ready
  <2> QED BY <2>2, <2>3 DEF Gone
<1>9. h[n] = 0 => s \in Undefined(r)
  <2> SUFFICES ASSUME h[n] = 0 PROVE s \in Undefined(r)
    OBVIOUS
  <2>1. Gone(b, r) = {} /\ h[n - 1] = 0
    BY <1>5, <1>6
  <2>2. b \in Undefined(r) /\ DefinitionsIn(b, r) = {} /\ s \in Succ(b)
    BY <1>5, <1>6, <1>7, <2>1
  <2>3. r # Mem /\ b \in Through({1}, r) /\ Undefined(r) = Through({1}, r)
    BY <2>2 DEF Undefined
  <2>4. {1} \in SUBSET Blocks
    BY <1>3 DEF Drawn
  <2>5. \A c \in Through({1}, r) : DefinitionsIn(c, r) = {} => Succ(c) \subseteq Through({1}, r)
    BY <1>3, <2>4, ThroughFacts
  <2> QED BY <2>2, <2>3, <2>5
<1>10. PICK v : v = names[r][h[n]].version
  OBVIOUS
<1>11. h[n] # 0 => \E d \in Leaving(r) : Settled(d) /\ v = VersionAt(d, r) /\ s \in ReachedBy(d, r)
  <2> SUFFICES ASSUME h[n] # 0
               PROVE  \E d \in Leaving(r) : Settled(d) /\ v = VersionAt(d, r) /\ s \in ReachedBy(d, r)
    OBVIOUS
  <2>1. CASE Gone(b, r) = {}
    <3>1. h[n] = h[n - 1] /\ h[n - 1] # 0
      BY <1>5, <1>6, <2>1
    <3>2. PICK d \in Leaving(r) : Settled(d) /\ names[r][h[n - 1]].version = VersionAt(d, r) /\ Top.block \in ReachedBy(d, r)
      BY <1>5, <3>1
    <3>3. DefinitionsIn(b, r) = {} /\ b \in ReachedBy(d, r) /\ s \in Succ(b)
      BY <1>6, <1>7, <2>1, <3>2
    <3>4. s \in ReachedBy(d, r)
      BY <1>3, <3>3, ReachedFacts
    <3> QED BY <1>10, <3>1, <3>2, <3>4
  <2>2. CASE Gone(b, r) # {}
    <3>1. PICK d : d \in Gone(b, r)
      BY <2>2
    <3>2. d \in DefinitionsIn(b, r) /\ Ready(d)
      BY <3>1 DEF Gone
    <3>3. v = VersionAt(d, r)
      BY <1>5, <1>6, <1>10, <3>1
    <3>4. d \in InstructionsOf(b) /\ d \in Nat /\ d # 0 /\ BlockForInstruction(d) = b
      BY <1>3, <3>2 DEF DefinitionsIn, Housed
    <3>5. d \in Latest(DefinitionsIn(b, r))
      <4>1. \A j \in DefinitionsIn(b, r) : j = d
        BY <1>6, <3>2, OneEachFacts DEF OneEach
      <4>2. d <= d
        BY <3>4
      <4> QED BY <3>2, <4>1, <4>2 DEF Latest
    <3>6. d \in Leaving(r)
      BY <1>6, <3>5 DEF Leaving
    <3>7. s \in ReachedBy(d, r)
      <4>1. s \in Starting(d)
        BY <1>6, <3>4 DEF Starting
      <4> QED BY <1>3, <3>6, <4>1, ReachedFacts
    <3> QED BY <3>2, <3>3, <3>6, <3>7 DEF Settled
  <2> QED BY <2>1, <2>2
<1>12. PICK m \in Nat : m = n + 1
  OBVIOUS
<1>13. PICK g : g = [k \in 0..m |-> IF k = m THEN h[n] ELSE h[k]]
  OBVIOUS
<1>14. \A k \in 0..n : k \in 0..m /\ k # m /\ g[k] = h[k]
  BY <1>12, <1>13
<1>15. g[m] = h[n] /\ g[m - 1] = h[n] /\ m - 1 = n /\ n \in 0..n /\ m \in 1..m
  BY <1>12, <1>13, <1>14
<1>16. ASSUME NEW k \in 1..n
       PROVE  CallFits(r, g, k)'
  <2>1. k \in 0..n /\ k - 1 \in 0..n
    OBVIOUS
  <2>2. g[k] = h[k] /\ g[k - 1] = h[k - 1] /\ h[k] \in Nat /\ h[k - 1] \in Nat
    BY <1>5, <1>14, <2>1
  <2>3. stack[k] \in Calling
    BY <1>5
  <2>4. stack[k].block \in Blocks
    BY <2>3 DEF Calling
  <2>5. \A i \in DefinitionsIn(stack[k].block, r) : Ready(i)' <=> Ready(i)
    <3>1. DefinitionsIn(stack[k].block, r) \subseteq DOMAIN code
      BY <1>3, <2>4 DEF DefinitionsIn
    <3> QED BY <3>1
  <2>6. CallFits(r, h, k)
    BY <1>4, <1>5 DEF FitsBy
  <2>7. stack'[k].block = stack[k].block /\ stack'[k].assigned = stack[k].assigned /\ names'[r] = names[r]
    BY <1>5
  <2> QED BY <2>2, <2>4, <2>5, <2>6, <2>7, CallKept
<1>17. CallFits(r, g, m)'
  <2>1. stack'[m].block = s /\ r \notin stack'[m].assigned /\ names'[r] = names[r]
    BY <1>5, <1>12
  <2>2. Undefined(r)' = Undefined(r)
    BY <1>1, ShapeFacts
  <2>3. g[m - 1] # 0 => \E d \in Leaving(r)' : Settled(d)' /\ v = VersionAt(d, r)' /\ s \in ReachedBy(d, r)'
    BY <1>11, <1>15, WayKept
  <2>4. v = names'[r][g[m - 1]].version
    BY <1>10, <1>15, <2>1
  <2>5. g[m] = g[m - 1] + 0
    BY <1>5, <1>15
  <2> QED BY <1>8, <1>9, <1>15, <2>1, <2>2, <2>3, <2>4, <2>5 DEF CallFits
<1>18. ASSUME NEW k \in 1..m
       PROVE  CallFits(r, g, k)'
  <2>1. k = m \/ k \in 1..n
    BY <1>12
  <2> QED BY <1>16, <1>17, <2>1
<1>19. g \in [0..m -> Nat]
  <2>1. \A k \in 0..m : k = m \/ k \in 0..n
    BY <1>12
  <2> QED BY <1>5, <1>13, <2>1
<1>20. ASSUME NEW j \in 0..m, NEW k \in 0..m, j <= k
       PROVE  g[j] <= g[k]
  <2>1. \A i \in 0..m : i = m \/ i \in 0..n
    BY <1>12
  <2>2. \A i, l \in 0..n : i <= l => h[i] <= h[l]
    BY <1>4, <1>5 DEF FitsBy
  <2>3. CASE j \in 0..n /\ k \in 0..n
    BY <1>14, <1>20, <2>2, <2>3
  <2>4. CASE j \in 0..n /\ k = m
    <3>1. j <= n
      BY <2>4
    <3> QED BY <1>14, <1>15, <2>2, <2>4, <3>1
  <2>5. CASE j = m
    <3>1. k = m
      BY <1>20, <2>5
    <3> QED BY <1>5, <1>15, <2>5, <3>1
  <2> QED BY <2>1, <2>3, <2>4, <2>5
<1>21. g[0] = Base(r)
  <2>1. 0 \in 0..n
    OBVIOUS
  <2> QED BY <1>4, <1>14, <2>1 DEF FitsBy
<1>22. g[m] = Len(names'[r])
  BY <1>5, <1>15
<1>23. Len(stack') = m /\ DOMAIN stack' = 1..m
  BY <1>5, <1>12
<1>24. FitsBy(r, g)'
  BY <1>18, <1>19, <1>20, <1>21, <1>22, <1>23 DEF FitsBy, Base
<1> QED BY <1>24

\* The walk begins.
LEMMA FitFirst ==
  ASSUME Laid, Steady, Len(stack') = 1, DOMAIN stack' = {1}, stack'[1].block = 1,
         \A i \in DOMAIN code : ~Ready(i)',
         \A r \in Registers : Tracked(r) /\ r # Mem => names'[r] = <<>> /\ r \notin stack'[1].assigned,
         Tracked(Mem) => Len(names'[Mem]) = 1 /\ names'[Mem][1].version = 1
  PROVE  FitInv'
<1>1. SameShape /\ UNCHANGED <<fn, blocks, conns, preds, phis>>
  BY DEF Steady
<1>2. Blocks' = Blocks /\ \A r : Tracked(r)' <=> Tracked(r)
  BY <1>1, ShapeFacts
<1>3. /\ Reachable \in SUBSET Blocks /\ 1 \in Reachable /\ 1 \in Blocks
      /\ \A b \in Blocks : InstructionsOf(b) \subseteq DOMAIN code
      /\ Housed /\ Linked /\ Drawn
  BY HouseFacts DEF Laid
<1> SUFFICES ASSUME NEW r \in Registers, Tracked(r) PROVE \E h : FitsBy(r, h)'
  BY <1>2 DEF FitInv
<1>4. Gone(1, r)' = {}
  <2>1. DefinitionsIn(1, r)' = DefinitionsIn(1, r)
    BY <1>1, <1>3, ShapeFacts
  <2>2. \A i \in DefinitionsIn(1, r) : i \in DOMAIN code
    BY <1>3 DEF DefinitionsIn
  <2> QED BY <2>1, <2>2 DEF Gone
<1>5. PICK x \in {0, 1} : x = Base(r)
  BY DEF Base
<1>6. PICK g \in [0..1 -> Nat] : g = [k \in 0..1 |-> x]
  <2>1. [k \in 0..1 |-> x] \in [0..1 -> Nat]
    OBVIOUS
  <2> QED BY <2>1
<1>7. g[0] = x /\ g[1] = x /\ \A k \in 0..1 : g[k] = x
  BY <1>6
<1>8. Len(names'[r]) = x
  BY <1>5 DEF Base
<1>9. CallFits(r, g, 1)'
  <2>1. stack'[1].block = 1 /\ g[1 - 1] = x
    BY <1>7
  <2>2. g[1] = g[1 - 1] + 0
    BY <1>5, <1>7
  <2>3. x = 0 => 1 \in Undefined(r)'
    <3>1. Undefined(r)' = Undefined(r) /\ (x = 0 => Undefined(r) = Through({1}, r))
      BY <1>1, <1>5, ShapeFacts DEF Base, Undefined
    <3>2. {1} \in SUBSET Blocks
      BY <1>3
    <3>3. {1} \subseteq Through({1}, r)
      BY <1>3, <3>2, ThroughFacts
    <3> QED BY <3>1, <3>3
  <2>4. x # 0 => \E d \in Leaving(r)' : Settled(d)' /\ names'[r][x].version = VersionAt(d, r)' /\ 1 \in ReachedBy(d, r)'
    <3> SUFFICES ASSUME x # 0
                 PROVE  \E d \in Leaving(r)' : Settled(d)' /\ names'[r][x].version = VersionAt(d, r)' /\ 1 \in ReachedBy(d, r)'
      OBVIOUS
    <3>1. r = Mem /\ x = 1
      BY <1>5 DEF Base
    <3>2. 0 \in Leaving(r)
      BY <3>1 DEF Leaving
    <3>3. 1 \in Starting(0)
      BY DEF Starting
    <3>4. 1 \in ReachedBy(0, r)
      BY <1>3, <3>2, <3>3, ReachedFacts
    <3>5. Leaving(r)' = Leaving(r) /\ ReachedBy(0, r)' = ReachedBy(0, r)
      BY <1>1, ShapeFacts
    <3>6. Settled(0)' /\ VersionAt(0, r)' = 1
      BY DEF Settled, VersionAt
    <3> QED BY <3>1, <3>2, <3>4, <3>5, <3>6
  <2>5. r # Mem => r \notin stack'[1].assigned
    OBVIOUS
  <2> QED BY <1>4, <2>1, <2>2, <2>3, <2>4, <2>5 DEF CallFits
<1>10. ASSUME NEW j \in 0..1, NEW k \in 0..1
       PROVE  g[j] <= g[k]
  BY <1>5, <1>7
<1>11. \A k \in DOMAIN stack' : CallFits(r, g, k)'
  BY <1>9
<1>12. FitsBy(r, g)'
  BY <1>5, <1>6, <1>7, <1>8, <1>10, <1>11 DEF FitsBy, Base
<1> QED BY <1>12

-----------------------------------------------------------------------------
\* A call returns.
LEMMA FitBack ==
  ASSUME Laid, Steady, FitInv, stack \in Seq(Calling), stack # <<>>, Named(Maps),
         Len(stack') = Len(stack) - 1, DOMAIN stack' = 1..(Len(stack) - 1),
         \A k \in 1..(Len(stack) - 1) : stack'[k] = stack[k],
         \A i \in DOMAIN code : Ready(i)' <=> Ready(i),
         \A r \in Registers : names'[r] = IF r \in Top.assigned THEN Seqs!Front(names[r]) ELSE names[r]
  PROVE  FitInv'
<1>1. SameShape /\ UNCHANGED <<fn, blocks, conns, preds, phis>>
  BY DEF Steady
<1>2. Blocks' = Blocks /\ \A r : Tracked(r)' <=> Tracked(r)
  BY <1>1, ShapeFacts
<1> SUFFICES ASSUME NEW r \in Registers, Tracked(r), stack' # <<>> PROVE \E h : FitsBy(r, h)'
  BY <1>2 DEF FitInv
<1>3. PICK h : FitsBy(r, h)
  BY DEF FitInv
<1>4. PICK n \in Nat :
           /\ n = Len(stack) /\ n >= 1 /\ DOMAIN stack = 1..n /\ Top = stack[n] /\ Top.block \in Blocks
           /\ \A k \in 0..n : h[k] \in Nat
           /\ h[n] \in Nat /\ h[n - 1] \in Nat /\ h[n] = Len(names[r])
           /\ h[n] = h[n - 1] + IF Gone(Top.block, r) = {} THEN 0 ELSE 1
           /\ r # Mem \/ n # 1 => (r \in Top.assigned <=> Gone(Top.block, r) # {})
  <2>1. \E n \in Nat :
           /\ n = Len(stack) /\ n >= 1 /\ DOMAIN stack = 1..n /\ Top = stack[n] /\ Top.block \in Blocks
           /\ \A k \in 0..n : h[k] \in Nat
           /\ h[n] \in Nat /\ h[n - 1] \in Nat /\ h[n] = Len(names[r])
           /\ h[n] = h[n - 1] + IF Gone(Top.block, r) = {} THEN 0 ELSE 1
           /\ \A d \in Gone(Top.block, r) : names[r][h[n]].version = VersionAt(d, r)
           /\ h[n - 1] = 0 => Top.block \in Undefined(r)
           /\ h[n - 1] # 0 =>
                \E d \in Leaving(r) :
                  Settled(d) /\ names[r][h[n - 1]].version = VersionAt(d, r) /\ Top.block \in ReachedBy(d, r)
           /\ r # Mem \/ n # 1 => (r \in Top.assigned <=> Gone(Top.block, r) # {})
    BY <1>3, FitTop
  <2> QED BY <2>1
<1>5. PICK m \in Nat : m = n - 1 /\ m >= 1 /\ m + 1 = n
  <2>1. n - 1 # 0
    BY <1>4
  <2> QED BY <1>4, <2>1
<1>6. /\ \A k \in 0..m : k \in 0..n
      /\ \A k \in 1..m : k \in 1..n /\ k \in 0..m /\ k - 1 \in 0..m
      /\ m \in 0..m /\ 0 \in 0..m /\ DOMAIN stack' = 1..m /\ Len(stack') = m
  BY <1>4, <1>5
<1>7. names[r] \in Seq(Name)
  BY DEF Named, MapsType, Maps
<1>8. /\ Len(names'[r]) = h[m] /\ names'[r] \in Seq(Name)
      /\ \A j \in 1..h[m] : names'[r][j] = names[r][j]
  <2>1. CASE Gone(Top.block, r) = {}
    <3>1. h[m] = Len(names[r]) /\ names'[r] = names[r]
      BY <1>4, <1>5, <2>1
    <3> QED BY <1>7, <3>1
  <2>2. CASE Gone(Top.block, r) # {}
    <3>1. h[m] = Len(names[r]) - 1 /\ names'[r] = Seqs!Front(names[r]) /\ h[m] \in Nat
      BY <1>4, <1>5, <2>2
    <3>2. PICK p \in Seq(Name) : p = names[r]
      BY <1>7
    <3>3. Len(p) \in Nat /\ Len(p) >= 1 /\ h[m] = Len(p) - 1
      BY <3>1, <3>2
    <3>4. p # <<>>
      BY <3>3
    <3>5. Seqs!Front(p) \in Seq(Name) /\ Len(Seqs!Front(p)) = Len(p) - 1 /\ \A j \in 1..(Len(p) - 1) : Seqs!Front(p)[j] = p[j]
      BY <3>4, FrontFacts
    <3> QED BY <3>1, <3>2, <3>3, <3>5
  <2> QED BY <2>1, <2>2
<1>9. PICK g \in [0..m -> Nat] : g = [k \in 0..m |-> h[k]]
  <2>1. [k \in 0..m |-> h[k]] \in [0..m -> Nat]
    BY <1>4, <1>6
  <2> QED BY <2>1
<1>10. \A k \in 0..m : g[k] = h[k] /\ h[k] \in Nat
  BY <1>4, <1>6, <1>9
<1>11. \A j, k \in 0..m : j <= k => h[j] <= h[k]
  <2>1. \A j, k \in 0..n : j <= k => h[j] <= h[k]
    BY <1>3, <1>4 DEF FitsBy
  <2> QED BY <1>6, <2>1
<1>12. ASSUME NEW k \in 0..m, h[k] # 0
       PROVE  names'[r][h[k]] = names[r][h[k]]
  <2>1. k <= m
    OBVIOUS
  <2>2. h[k] <= h[m] /\ h[k] \in Nat /\ h[m] \in Nat
    BY <1>6, <1>10, <1>11, <2>1
  <2>3. h[k] \in 1..h[m]
    BY <1>12, <2>2
  <2> QED BY <1>8, <2>3
<1>13. ASSUME NEW k \in 1..m
       PROVE  CallFits(r, g, k)'
  <2>1. k \in 0..m /\ k - 1 \in 0..m /\ k \in 1..n
    BY <1>6
  <2>2. g[k] = h[k] /\ g[k - 1] = h[k - 1] /\ h[k] \in Nat /\ h[k - 1] \in Nat
    BY <1>10, <2>1
  <2>3. stack[k] \in Calling
    BY <1>4, <2>1
  <2>4. stack[k].block \in Blocks
    BY <2>3 DEF Calling
  <2>5. \A i \in DefinitionsIn(stack[k].block, r) : Ready(i)' <=> Ready(i)
    <3>1. DefinitionsIn(stack[k].block, r) \subseteq DOMAIN code
      BY <2>4, HouseFacts DEF DefinitionsIn
    <3> QED BY <3>1
  <2>6. CallFits(r, h, k)
    BY <1>3, <1>4, <2>1 DEF FitsBy
  <2>7. stack'[k] = stack[k]
    BY <1>4, <1>5
  <2>8. h[k] # 0 => names'[r][h[k]] = names[r][h[k]]
    BY <1>12, <2>1
  <2>9. h[k - 1] # 0 => names'[r][h[k - 1]] = names[r][h[k - 1]]
    BY <1>12, <2>1
  <2> QED BY <2>2, <2>4, <2>5, <2>6, <2>7, <2>8, <2>9, CallKept
<1>14. \A j, k \in 0..m : j <= k => g[j] <= g[k]
  BY <1>10, <1>11
<1>15. g[0] = Base(r) /\ g[m] = Len(names'[r])
  <2>1. h[0] = Base(r)
    BY <1>3 DEF FitsBy
  <2> QED BY <1>6, <1>8, <1>10, <2>1
<1>16. \A k \in DOMAIN stack' : CallFits(r, g, k)'
  BY <1>6, <1>13
<1>17. FitsBy(r, g)'
  BY <1>6, <1>9, <1>14, <1>15, <1>16 DEF FitsBy, Base
<1> QED BY <1>17

\* An instruction is renamed.
LEMMA FitInstruction ==
  ASSUME Laid, Steady, FitInv, stack \in Seq(Calling), stack # <<>>, Named(Maps),
         \A k, l \in DOMAIN stack : stack[k].block = stack[l].block => k = l,
         Top.block \in Reachable, NEW p \in InstructionsOf(Top.block), p \in DOMAIN code, ~Ready(p),
         \A i \in DOMAIN code : Ready(i)' <=> Ready(i) \/ i = p,
         NEW e \in Calling, stack' = [stack EXCEPT ![Len(stack)] = e], e.block = Top.block,
         \A r \in Registers : r \in e.assigned <=> r \in Top.assigned \/ Defines(p, r),
         \A r \in Registers :
           IF Defines(p, r) THEN \E x \in Name : x.version = VersionAt(p, r)' /\ names'[r] = Append(names[r], x)
           ELSE names'[r] = names[r]
  PROVE  FitInv'
<1>1. SameShape /\ UNCHANGED <<fn, blocks, conns, preds, phis>>
  BY DEF Steady
<1>2. Blocks' = Blocks /\ \A r : Tracked(r)' <=> Tracked(r)
  BY <1>1, ShapeFacts
<1> SUFFICES ASSUME NEW r \in Registers, Tracked(r) PROVE \E h : FitsBy(r, h)'
  BY <1>2 DEF FitInv
<1>3. PICK h : FitsBy(r, h)
  BY DEF FitInv
<1>4. PICK n \in Nat :
           /\ n = Len(stack) /\ n >= 1 /\ DOMAIN stack = 1..n /\ Top = stack[n] /\ Top.block \in Blocks
           /\ \A k \in 0..n : h[k] \in Nat
           /\ h[n] \in Nat /\ h[n - 1] \in Nat /\ h[n] = Len(names[r])
           /\ h[n] = h[n - 1] + IF Gone(Top.block, r) = {} THEN 0 ELSE 1
           /\ \A d \in Gone(Top.block, r) : names[r][h[n]].version = VersionAt(d, r)
           /\ h[n - 1] = 0 => Top.block \in Undefined(r)
           /\ h[n - 1] # 0 =>
                \E d \in Leaving(r) :
                  Settled(d) /\ names[r][h[n - 1]].version = VersionAt(d, r) /\ Top.block \in ReachedBy(d, r)
           /\ r # Mem \/ n # 1 => (r \in Top.assigned <=> Gone(Top.block, r) # {})
  BY <1>3, FitTop
<1>5. /\ Len(stack') = n /\ DOMAIN stack' = 1..n
      /\ \A k \in 1..n : stack'[k] = IF k = n THEN e ELSE stack[k]
  BY <1>2, <1>4, GoesOn
<1>6. names[r] \in Seq(Name)
  BY DEF Named, MapsType, Maps
<1>7. \A j, k \in 0..n : j <= k => h[j] <= h[k]
  BY <1>3, <1>4 DEF FitsBy
<1>8. PICK q \in Seq(Name) : q = names[r] /\ Len(q) \in Nat /\ h[n] = Len(q)
  BY <1>4, <1>6
<1>9. \A j \in 1..h[n] : names'[r][j] = names[r][j]
  <2>1. CASE Defines(p, r)
    <3>1. PICK x \in Name : names'[r] = Append(q, x)
      BY <1>8, <2>1
    <3>2. \A k \in 1..(Len(q) + 1) : Append(q, x)[k] = IF k = Len(q) + 1 THEN x ELSE q[k]
      BY AppendFacts
    <3>3. \A j \in 1..Len(q) : j \in 1..(Len(q) + 1) /\ j # Len(q) + 1
      BY <1>8
    <3> QED BY <1>8, <3>1, <3>2, <3>3
  <2>2. CASE ~Defines(p, r)
    BY <2>2
  <2> QED BY <2>1, <2>2
<1>10. ASSUME NEW k \in 0..n, h[k] # 0
       PROVE  names'[r][h[k]] = names[r][h[k]]
  <2>1. k <= n /\ n \in 0..n
    OBVIOUS
  <2>2. h[k] <= h[n] /\ h[k] \in Nat
    BY <1>4, <1>7, <2>1
  <2>3. h[k] \in 1..h[n]
    BY <1>4, <1>10, <2>2
  <2> QED BY <1>9, <2>3
<1>11. ASSUME NEW k \in 1..n, k # n \/ ~Defines(p, r), NEW g, g[k] = h[k], g[k - 1] = h[k - 1]
       PROVE  CallFits(r, g, k)'
  <2>1. k \in 0..n /\ k - 1 \in 0..n
    OBVIOUS
  <2>2. h[k] \in Nat /\ h[k - 1] \in Nat
    BY <1>4, <2>1
  <2>3. stack[k] \in Calling
    BY <1>4
  <2>4. stack[k].block \in Blocks
    BY <2>3 DEF Calling
  <2>5. \A i \in DefinitionsIn(stack[k].block, r) : i \in DOMAIN code /\ i # p
    <3> SUFFICES ASSUME NEW i \in DefinitionsIn(stack[k].block, r) PROVE i \in DOMAIN code /\ i # p
      OBVIOUS
    <3>1. i \in InstructionsOf(stack[k].block) /\ Defines(i, r)
      BY DEF DefinitionsIn
    <3>2. i \in DOMAIN code /\ BlockForInstruction(i) = stack[k].block
      BY <2>4, <3>1, HouseFacts
    <3>3. BlockForInstruction(p) = Top.block
      BY <1>4, HouseFacts
    <3>4. k # n => stack[k].block # Top.block
      BY <1>4
    <3> QED BY <1>11, <3>1, <3>2, <3>3, <3>4
  <2>6. \A i \in DefinitionsIn(stack[k].block, r) : Ready(i)' <=> Ready(i)
    BY <2>5
  <2>7. CallFits(r, h, k)
    BY <1>3, <1>4 DEF FitsBy
  <2>8. stack'[k].block = stack[k].block /\ (r \in stack'[k].assigned <=> r \in stack[k].assigned)
    BY <1>4, <1>5, <1>11
  <2>9. h[k] # 0 => names'[r][h[k]] = names[r][h[k]]
    BY <1>10, <2>1
  <2>10. h[k - 1] # 0 => names'[r][h[k - 1]] = names[r][h[k - 1]]
    BY <1>10, <2>1
  <2> QED BY <1>11, <2>2, <2>4, <2>6, <2>7, <2>8, <2>9, <2>10, CallKept
<1>12. CASE ~Defines(p, r)
  <2>1. \A k \in DOMAIN stack' : CallFits(r, h, k)'
    BY <1>5, <1>11, <1>12
  <2>2. names'[r] = names[r]
    BY <1>12
  <2>3. FitsBy(r, h)'
    BY <1>3, <1>4, <1>5, <2>1, <2>2 DEF FitsBy, Base
  <2> QED BY <2>3
<1>13. CASE Defines(p, r)
  <2>1. PICK b \in Blocks : b = Top.block
    BY <1>4
  <2>2. p \in DefinitionsIn(b, r) /\ \A j \in DefinitionsIn(b, r) : j = p
    BY <1>13, <2>1, OneEachFacts DEF OneEach, DefinitionsIn
  <2>3. Gone(b, r) = {} /\ Gone(b, r)' = {p}
    <3>1. DefinitionsIn(b, r)' = DefinitionsIn(b, r)
      BY <1>1, ShapeFacts
    <3> QED BY <2>2, <3>1 DEF Gone
  <2>4. h[n] = h[n - 1]
    BY <1>4, <2>1, <2>3
  <2>5. PICK x \in Name : x.version = VersionAt(p, r)' /\ names'[r] = Append(q, x)
    BY <1>8, <1>13
  <2>6. Len(Append(q, x)) = Len(q) + 1 /\ Append(q, x)[Len(q) + 1] = x
    <3>1. Len(q) + 1 \in 1..(Len(q) + 1)
      BY <1>8
    <3> QED BY <3>1, AppendFacts
  <2>7. PICK g : g = [k \in 0..n |-> IF k = n THEN h[n] + 1 ELSE h[k]]
    OBVIOUS
  <2>8. g \in [0..n -> Nat]
    BY <1>4, <2>7
  <2>9. /\ \A k \in 0..n : k # n => g[k] = h[k]
        /\ g[n] = h[n] + 1 /\ g[n - 1] = h[n - 1] /\ n - 1 \in 0..n /\ n \in 0..n
    <3>1. n - 1 \in 0..n /\ n - 1 # n /\ n \in 0..n
      BY <1>4
    <3> QED BY <2>7, <3>1
  <2>10. CallFits(r, g, n)'
    <3>1. stack'[n].block = b /\ r \in stack'[n].assigned
      BY <1>4, <1>5, <1>13, <2>1
    <3>2. g[n] = g[n - 1] + 1
      BY <2>4, <2>9
    <3>3. \A d \in {p} : names'[r][g[n]].version = VersionAt(d, r)'
      BY <1>8, <2>5, <2>6, <2>9
    <3>4. g[n - 1] = 0 => b \in Undefined(r)'
      <4>1. Undefined(r)' = Undefined(r)
        BY <1>1, ShapeFacts
      <4> QED BY <1>4, <2>1, <2>9, <4>1
    <3>5. g[n - 1] # 0 => \E d \in Leaving(r)' : Settled(d)' /\ names'[r][g[n - 1]].version = VersionAt(d, r)' /\ b \in ReachedBy(d, r)'
      <4> SUFFICES ASSUME h[n - 1] # 0
                   PROVE  \E d \in Leaving(r)' : Settled(d)' /\ names'[r][h[n - 1]].version = VersionAt(d, r)' /\ b \in ReachedBy(d, r)'
        BY <2>9
      <4>1. PICK v : v = names[r][h[n - 1]].version
        OBVIOUS
      <4>2. \E d \in Leaving(r) : Settled(d) /\ v = VersionAt(d, r) /\ b \in ReachedBy(d, r)
        BY <1>4, <2>1, <4>1
      <4>3. \E d \in Leaving(r)' : Settled(d)' /\ v = VersionAt(d, r)' /\ b \in ReachedBy(d, r)'
        BY <4>2, WayKept
      <4>4. names'[r][h[n - 1]] = names[r][h[n - 1]]
        BY <1>10, <2>9
      <4> QED BY <4>1, <4>3, <4>4
    <3> QED BY <2>3, <3>1, <3>2, <3>3, <3>4, <3>5 DEF CallFits
  <2>11. ASSUME NEW k \in 1..n
         PROVE  CallFits(r, g, k)'
    <3>1. CASE k = n
      BY <2>10, <3>1
    <3>2. CASE k # n
      <4>1. k \in 0..n /\ k - 1 \in 0..n /\ k - 1 # n
        OBVIOUS
      <4>2. g[k] = h[k] /\ g[k - 1] = h[k - 1]
        BY <2>9, <3>2, <4>1
      <4> QED BY <1>11, <3>2, <4>2
    <3> QED BY <3>1, <3>2
  <2>12. ASSUME NEW j \in 0..n, NEW k \in 0..n, j <= k
         PROVE  g[j] <= g[k]
    <3>1. h[j] <= h[k] /\ h[j] \in Nat /\ h[k] \in Nat
      BY <1>4, <1>7, <2>12
    <3>2. g[k] = h[k] \/ g[k] = h[k] + 1
      BY <2>9
    <3>3. CASE j # n
      BY <2>9, <3>1, <3>2, <3>3
    <3>4. CASE j = n
      <4>1. k = n
        BY <2>12, <3>4
      <4> QED BY <1>4, <2>9, <3>4, <4>1
    <3> QED BY <3>3, <3>4
  <2>13. g[0] = Base(r) /\ g[n] = Len(names'[r])
    <3>1. 0 \in 0..n /\ 0 # n
      BY <1>4
    <3>2. h[0] = Base(r)
      BY <1>3 DEF FitsBy
    <3> QED BY <1>8, <2>5, <2>6, <2>9, <3>1, <3>2
  <2>14. FitsBy(r, g)'
    BY <1>5, <2>8, <2>11, <2>12, <2>13 DEF FitsBy, Base
  <2> QED BY <2>14
<1> QED BY <1>12, <1>13

-----------------------------------------------------------------------------
\* Every step of the walk.
LEMMA BecomesFacts ==
  ASSUME NEW m, Named(m), Becomes(m)
  PROVE  Named(Maps)' /\ counters' = m.counters /\ names' = m.names /\ last' = m.last
<1>1. m = [counters |-> m.counters, names |-> m.names, last |-> m.last]
  BY DEF Named, MapsType
<1>2. Maps' = m
  BY <1>1 DEF Becomes, Maps
<1> QED BY <1>2 DEF Becomes, Named

LEMMA WalkTop ==
  ASSUME Laid, WalkInv, stack # <<>>
  PROVE  /\ stack \in Seq(Calling) /\ Top \in Calling /\ Top.block \in visited /\ Top.block \in Reachable /\ Top.block \in Blocks
         /\ Top.next \in Nat /\ Top.instruction \in Nat /\ blocks[Top.block].first <= Top.instruction
         /\ visited \subseteq Reachable /\ visited # {}
         /\ \A k, l \in DOMAIN stack : stack[k].block = stack[l].block => k = l
         /\ \A q \in Top.missing : q[1] \in Succ(Top.block) /\ q[2] \in phis[q[1]]
         /\ \A j \in DOMAIN conns[Top.block] : j < Top.next => conns[Top.block][j] \in visited
<1>1. stack \in Seq(Calling) /\ visited \subseteq Reachable
  BY DEF WalkInv
<1>2. /\ Top \in Calling /\ Top.block \in Blocks /\ Top.next \in Nat /\ Top.instruction \in Nat
      /\ Len(stack) \in DOMAIN stack /\ Top = stack[Len(stack)]
  BY <1>1, TopFacts
<1>3. /\ Top.block \in visited /\ blocks[Top.block].first <= Top.instruction
      /\ \A q \in Top.missing : q[1] \in Succ(Top.block) /\ q[2] \in phis[q[1]]
      /\ \A j \in DOMAIN conns[Top.block] : j < Top.next => conns[Top.block][j] \in visited
  BY <1>2 DEF WalkInv
<1>4. \A k, l \in DOMAIN stack : stack[k].block = stack[l].block => k = l
  BY DEF WalkInv
<1> QED BY <1>1, <1>2, <1>3, <1>4

LEMMA WInvParts ==
  ASSUME Laid, WInv, pc \in Late, stack # <<>>
  PROVE  /\ Named(Maps) /\ WalkInv /\ LastInv /\ FitInv /\ UsesInv /\ counters[Mem] > 0
         /\ counters \in [Registers -> Nat] /\ names \in [Registers -> Seq(Name)] /\ last \in [Registers -> Seq(Name)]
<1>1. Named(Maps) /\ WalkInv /\ LastInv /\ FitInv /\ UsesInv /\ (visited # {} => counters[Mem] > 0)
  BY DEF WInv
<1>2. visited # {}
  BY <1>1, WalkTop
<1>3. counters \in [Registers -> Nat] /\ names \in [Registers -> Seq(Name)] /\ last \in [Registers -> Seq(Name)]
  BY <1>1 DEF Named, MapsType, Maps
<1> QED BY <1>1, <1>2, <1>3

LEMMA AdvancedFacts ==
  ASSUME NEW t \in Calling, NEW A \in SUBSET Registers
  PROVE  LET e == [t EXCEPT !.instruction = @ + 1, !.assigned = @ \cup A]
         IN  /\ e \in Calling /\ e.block = t.block /\ e.next = t.next /\ e.instruction = t.instruction + 1
             /\ e.assigned = t.assigned \cup A /\ e.missing = t.missing
<1>1. PICK i \in Nat : i = t.instruction + 1
  BY DEF Calling
<1>2. PICK S \in SUBSET Registers : S = t.assigned \cup A
  BY DEF Calling
<1>3. PICK u \in Calling : /\ u = [t EXCEPT !.instruction = i] /\ u.block = t.block /\ u.next = t.next /\ u.instruction = i
                          /\ u.assigned = t.assigned /\ u.missing = t.missing
  <2>1. [t EXCEPT !.instruction = i] \in Calling
    BY DEF Calling
  <2> QED BY <2>1 DEF Calling
<1>4. PICK v \in Calling : /\ v = [u EXCEPT !.assigned = S] /\ v.block = u.block /\ v.next = u.next /\ v.instruction = u.instruction
                          /\ v.assigned = S /\ v.missing = u.missing
  <2>1. [u EXCEPT !.assigned = S] \in Calling
    BY DEF Calling
  <2> QED BY <2>1 DEF Calling
<1>5. v = [t EXCEPT !.instruction = @ + 1, !.assigned = @ \cup A]
  BY <1>1, <1>2, <1>3, <1>4
<1> QED BY <1>1, <1>2, <1>3, <1>4, <1>5

LEMMA StepInstruction ==
  ASSUME Laid, WInv, RenameInstruction
  PROVE  Laid' /\ WInv'
<1>1. /\ pc = "rename" /\ pc' = pc /\ stack # <<>> /\ Top.next = 0 /\ Top.instruction <= blocks[Top.block].last
      /\ code' = [code EXCEPT ![Top.instruction] = Renamed(Top.instruction)]
      /\ Becomes(MapsAfter(Top.instruction))
      /\ stack' = [stack EXCEPT ![Len(stack)].instruction = @ + 1,
                                ![Len(stack)].assigned = @ \cup Seqs!ToSet(Ids(code[Top.instruction].to))]
      /\ UNCHANGED <<fn, blocks, conns, preds, phis, visited>>
  BY DEF RenameInstruction, graph
<1>2. /\ Named(Maps) /\ WalkInv /\ LastInv /\ FitInv /\ UsesInv /\ counters[Mem] > 0
      /\ counters \in [Registers -> Nat] /\ names \in [Registers -> Seq(Name)] /\ last \in [Registers -> Seq(Name)]
  BY <1>1, WInvParts DEF Late
<1>3. /\ stack \in Seq(Calling) /\ Top \in Calling /\ Top.block \in visited /\ Top.block \in Reachable /\ Top.block \in Blocks
      /\ Top.instruction \in Nat /\ blocks[Top.block].first <= Top.instruction
      /\ \A k, l \in DOMAIN stack : stack[k].block = stack[l].block => k = l
      /\ \A q \in Top.missing : q[1] \in Succ(Top.block) /\ q[2] \in phis[q[1]]
      /\ \A j \in DOMAIN conns[Top.block] : j < Top.next => conns[Top.block][j] \in visited
  BY <1>1, <1>2, WalkTop
<1>4. PICK p \in Nat : p = Top.instruction
  BY <1>3
<1>5. PICK b \in Blocks : b = Top.block
  BY <1>3
<1>6. p \in InstructionsOf(b) /\ p \in DOMAIN code /\ BlockForInstruction(p) = b
  <2>1. blocks[b].first \in Nat /\ blocks[b].last \in Nat /\ InstructionsOf(b) \subseteq DOMAIN code
        /\ \A i \in InstructionsOf(b) : BlockForInstruction(i) = b
    BY HouseFacts
  <2>2. p \in InstructionsOf(b)
    BY <1>1, <1>3, <1>4, <1>5, <2>1 DEF InstructionsOf
  <2> QED BY <2>1, <2>2
<1>7. Renamable(code[p])
  BY <1>6 DEF Laid, Renamable
<1>8. PICK new \in Instruction :
        /\ new = Renamed(p) /\ new.kind = code[p].kind /\ DOMAIN new.to = DOMAIN code[p].to
        /\ \A k \in DOMAIN code[p].to :
             new.to[k].id = code[p].to[k].id /\ new.to[k].version = counters[code[p].to[k].id] + 1
        /\ code[p].kind # "phi" =>
             /\ DOMAIN new.uses = DOMAIN code[p].uses
             /\ \A k \in DOMAIN code[p].uses :
                  /\ new.uses[k] = NameOf(MapsForOperands(p), code[p].uses[k].id)
                  /\ new.uses[k].id = code[p].uses[k].id
  BY <1>2, <1>7, RenamedFacts
<1>9. code \in Seq(Instruction)
  BY DEF Laid
<1>10. /\ code' \in Seq(Instruction) /\ DOMAIN code' = DOMAIN code
       /\ \A i \in DOMAIN code : code'[i] = IF i = p THEN new ELSE code[i]
  BY <1>1, <1>4, <1>6, <1>8, <1>9
<1>11. SameShape
  BY <1>8, <1>10 DEF SameShape
<1>12. Blocks' = Blocks /\ Laid' /\ \A i \in DOMAIN code : \A r : Defines(i, r)' <=> Defines(i, r)
  BY <1>1, <1>11, ShapeFacts
<1>13. PICK m : /\ m = MapsAfter(p) /\ Named(m)
                /\ \A r \in Registers :
                  /\ Defines(p, r) =>
                       /\ \E x \in Name : x.version = counters[r] + 1 /\ m.names[r] = Append(names[r], x)
                       /\ m.last[r] # <<>>
                  /\ ~Defines(p, r) => m.names[r] = names[r]
                  /\ last[r] # <<>> => m.last[r] # <<>>
                  /\ m.counters[r] >= counters[r]
                  /\ code[p].kind # "phi" /\ (code[p].kind # "call" => ~Defines(p, r)) =>
                       NameOf(MapsForOperands(p), r) = NameOf(Maps, r)
  BY <1>2, <1>7, AfterFacts
<1>14. Named(Maps)' /\ counters' = m.counters /\ names' = m.names /\ last' = m.last
  BY <1>1, <1>4, <1>13, BecomesFacts
<1>15. PICK A \in SUBSET Registers : A = Seqs!ToSet(Ids(code[p].to)) /\ \A r : r \in A <=> Defines(p, r)
  <2>1. code[p].to \in Seq(Name)
    BY <1>7, InstructionFacts DEF Renamable
  <2>2. \A r : r \in Seqs!ToSet(Ids(code[p].to)) <=> Defines(p, r)
    BY <2>1, IdsFacts DEF Defines
  <2>3. \A k \in DOMAIN code[p].to : code[p].to[k].id \in Registers
    <3>1. \A k \in DOMAIN code[p].to : code[p].to[k] \in Name
      BY <2>1
    <3> QED BY <3>1 DEF Name
  <2>4. Seqs!ToSet(Ids(code[p].to)) \in SUBSET Registers
    BY <2>1, <2>3, IdsFacts
  <2> QED BY <2>2, <2>4
<1>16. PICK e \in Calling :
         /\ e = [Top EXCEPT !.instruction = @ + 1, !.assigned = @ \cup A]
         /\ e.block = b /\ e.next = 0 /\ e.instruction = p + 1 /\ e.assigned = Top.assigned \cup A /\ e.missing = Top.missing
  <2>1. PICK t \in Calling : t = Top
    BY <1>3
  <2> HIDE DEF Calling
  <2>2. PICK e : e = [t EXCEPT !.instruction = @ + 1, !.assigned = @ \cup A]
    OBVIOUS
  <2>3. /\ e \in Calling /\ e.block = t.block /\ e.next = t.next /\ e.instruction = t.instruction + 1
        /\ e.assigned = t.assigned \cup A /\ e.missing = t.missing
    BY <2>2, AdvancedFacts
  <2>4. e = [Top EXCEPT !.instruction = @ + 1, !.assigned = @ \cup A]
    BY <2>1, <2>2
  <2> QED BY <1>1, <1>4, <1>5, <2>1, <2>3, <2>4
<1>17. stack' = [stack EXCEPT ![Len(stack)] = e]
  <2>1. Len(stack) \in DOMAIN stack /\ Top = stack[Len(stack)]
    BY <1>1, <1>3, TopFacts
  <2> HIDE DEF Calling
  <2> QED BY <1>1, <1>4, <1>15, <1>16, <2>1
<1>18. Top' = e /\ stack' # <<>>
  <2> HIDE DEF Calling
  <2> QED BY <1>1, <1>3, <1>12, <1>17, GoesOn
<1>19. (\A i \in DOMAIN code : Ready(i)' <=> Ready(i) \/ i = p) /\ ~Ready(p)
  BY <1>1, <1>3, <1>4, <1>5, <1>6, <1>11, <1>16, <1>18, ReadyOne
<1>20. Steady
  BY <1>1, <1>10, <1>11, <1>19 DEF Steady
<1>21. WalkInv'
  <2>1. Top.instruction <= e.instruction
    BY <1>4, <1>16
  <2>2. pc' # "done"
    BY <1>1
  <2> QED BY <1>1, <1>2, <1>3, <1>5, <1>11, <1>16, <1>17, <2>1, <2>2, WalkOn
<1>22. LastInv'
  BY <1>2, <1>13, <1>14, <1>19, <1>20, LastKept
<1>23. ASSUME NEW r, Defines(p, r)
       PROVE  VersionAt(p, r)' = counters[r] + 1
  <2>1. VersionAt(p, r)' = LET k == CHOOSE k \in DOMAIN new.to : new.to[k].id = r IN new.to[k].version
    <3>1. p # 0 /\ code'[p] = new
      BY <1>6, <1>10, HouseFacts
    <3> QED BY <3>1 DEF VersionAt
  <2>2. \E k \in DOMAIN new.to : new.to[k].id = r
    BY <1>8, <1>23 DEF Defines
  <2>3. PICK k \in DOMAIN new.to : new.to[k].id = r /\ VersionAt(p, r)' = new.to[k].version
    BY <2>1, <2>2
  <2> QED BY <1>8, <2>3
<1>24. FitInv'
  <2>1. \A r \in Registers : r \in e.assigned <=> r \in Top.assigned \/ Defines(p, r)
    BY <1>15, <1>16
  <2>2. \A r \in Registers :
           IF Defines(p, r) THEN \E x \in Name : x.version = VersionAt(p, r)' /\ names'[r] = Append(names[r], x)
           ELSE names'[r] = names[r]
    BY <1>13, <1>14, <1>23
  <2>3. p \in InstructionsOf(Top.block) /\ e.block = Top.block
    BY <1>5, <1>6, <1>16
  <2> HIDE DEF Calling
  <2> QED BY <1>1, <1>2, <1>3, <1>6, <1>17, <1>19, <1>20, <2>1, <2>2, <2>3, FitInstruction
<1>25. UsesInv'
  <2> SUFFICES ASSUME NEW r \in Registers, NEW c \in Reachable, NEW i \in InstructionsOf(c), NEW k \in DOMAIN code'[i].uses, NEW v,
                      Tracked(r), ~Ready(i), Ready(i)', code[i].kind # "phi",
                      code'[i].uses[k].id = r, v = code'[i].uses[k].version
               PROVE  Meant(c, i, v, r)'
    BY <1>2, <1>20, UsesKept
  <2>1. i \in DOMAIN code /\ BlockForInstruction(i) = c /\ c \in Blocks
    BY HouseFacts
  <2>2. i = p /\ c = b
    BY <1>6, <1>19, <2>1
  <2>3. k \in DOMAIN code[p].uses /\ code[p].uses[k].id = r /\ v = NameOf(MapsForOperands(p), r).version
    BY <1>6, <1>8, <1>10, <2>2
  <2>4. code[p].kind # "call" => ~Defines(p, r)
    BY <1>6, <2>2, <2>3 DEF Tracked
  <2>5. v = NameOf(Maps, r).version
    BY <1>13, <2>2, <2>3, <2>4
  <2>6. Before(b, p, r) = Gone(b, r)
    <3>1. ASSUME NEW j \in DefinitionsIn(b, r)
          PROVE  j < p <=> Ready(j)
      <4>1. j \in InstructionsOf(b) /\ j \in DOMAIN code /\ j \in Nat
        BY HouseFacts DEF DefinitionsIn
      <4>2. BlockForInstruction(j) = b
        BY <4>1, HouseFacts
      <4>3. Ready(j) <=> ~(p <= j)
        BY <1>1, <1>3, <1>4, <1>5, <4>2 DEF Ready
      <4> QED BY <4>1, <4>3
    <3> QED BY <3>1 DEF Before, Gone
  <2>7. PICK h : FitsBy(r, h)
    BY <1>1, <1>2 DEF FitInv
  <2>8. PICK n \in Nat :
           /\ n >= 1
           /\ h[n] \in Nat /\ h[n - 1] \in Nat /\ h[n] = Len(names[r])
           /\ h[n] = h[n - 1] + IF Gone(Top.block, r) = {} THEN 0 ELSE 1
           /\ \A d \in Gone(Top.block, r) : names[r][h[n]].version = VersionAt(d, r)
           /\ h[n - 1] = 0 => Top.block \in Undefined(r)
           /\ h[n - 1] # 0 =>
                \E d \in Leaving(r) :
                  Settled(d) /\ names[r][h[n - 1]].version = VersionAt(d, r) /\ Top.block \in ReachedBy(d, r)
    <3>1. \E n \in Nat :
           /\ n = Len(stack) /\ n >= 1 /\ DOMAIN stack = 1..n /\ Top = stack[n] /\ Top.block \in Blocks
           /\ \A j \in 0..n : h[j] \in Nat
           /\ h[n] \in Nat /\ h[n - 1] \in Nat /\ h[n] = Len(names[r])
           /\ h[n] = h[n - 1] + IF Gone(Top.block, r) = {} THEN 0 ELSE 1
           /\ \A d \in Gone(Top.block, r) : names[r][h[n]].version = VersionAt(d, r)
           /\ h[n - 1] = 0 => Top.block \in Undefined(r)
           /\ h[n - 1] # 0 =>
                \E d \in Leaving(r) :
                  Settled(d) /\ names[r][h[n - 1]].version = VersionAt(d, r) /\ Top.block \in ReachedBy(d, r)
           /\ r # Mem \/ n # 1 => (r \in Top.assigned <=> Gone(Top.block, r) # {})
      BY SMTT(20), <1>1, <1>3, <2>7, FitTop
    <3> QED BY <3>1
  <2>9. h[n] # 0 => v = names[r][h[n]].version
    <3>1. PICK q \in Seq(Name) : q = names[r]
      BY <1>2
    <3>2. Len(q) # 0 => q # <<>>
      OBVIOUS
    <3>3. q # <<>> => NameOf(Maps, r) = q[Len(q)]
      BY <3>1 DEF NameOf, Maps
    <3> QED BY <2>5, <2>8, <3>1, <3>2, <3>3
  <2>10. Meant(b, p, v, r)
    <3>1. CASE Gone(b, r) # {}
      <4>1. PICK d : d \in Gone(b, r)
        BY <3>1
      <4>2. Ready(d)
        BY <4>1 DEF Gone
      <4>3. h[n] = h[n - 1] + 1
        BY <1>5, <2>8, <3>1
      <4>4. h[n] # 0
        BY <2>8, <4>3
      <4>5. VersionAt(d, r) = v
        BY <1>5, <2>8, <2>9, <4>1, <4>4
      <4> QED BY <2>6, <3>1, <4>1, <4>2, <4>5 DEF Meant
    <3>2. CASE Gone(b, r) = {}
      <4>1. h[n] = h[n - 1]
        BY <1>5, <2>8, <3>2
      <4>2. CASE h[n] = 0
        BY <1>5, <2>6, <2>8, <3>2, <4>1, <4>2 DEF Meant
      <4>3. CASE h[n] # 0
        <5>1. PICK d \in Leaving(r) : Settled(d) /\ names[r][h[n - 1]].version = VersionAt(d, r) /\ Top.block \in ReachedBy(d, r)
          BY <2>8, <4>1, <4>3
        <5>2. VersionAt(d, r) = v
          BY <2>9, <4>1, <4>3, <5>1
        <5> QED BY <1>5, <2>6, <3>2, <5>1, <5>2 DEF Meant
      <4> QED BY <4>2, <4>3
    <3> QED BY <3>1, <3>2
  <2> QED BY <1>20, <2>2, <2>10, MeantKept
<1>26. counters'[Mem] > 0
  <2>1. m.counters[Mem] >= counters[Mem] /\ counters[Mem] \in Nat
    BY <1>2, <1>13, MemAssumption
  <2>2. m.counters[Mem] \in Nat
    BY <1>13, MemAssumption DEF Named, MapsType
  <2> QED BY <1>2, <1>14, <2>1, <2>2
<1>27. visited' # {}
  BY <1>1, <1>3
<1> QED BY <1>1, <1>12, <1>14, <1>21, <1>22, <1>24, <1>25, <1>26, <1>27 DEF WInv, Late

LEMMA EnterFacts ==
  ASSUME Laid, Named(Maps), fn \in Functions, NEW b \in Blocks, NEW resumed, Enter(b, resumed)
  PROVE  /\ Named(Maps)' /\ visited' = visited \cup {b} /\ counters'[Mem] > 0
         /\ \A r \in Registers : last[r] # <<>> => last'[r] # <<>>
         /\ \E c \in Calling :
              /\ stack' = Append(resumed, c) /\ c.block = b /\ c.next = 0 /\ c.instruction = blocks[b].first /\ c.missing = {}
              /\ \A r \in Registers : Tracked(r) /\ (r # Mem \/ counters[Mem] # 0) => names'[r] = names[r] /\ r \notin c.assigned
         /\ Tracked(Mem) /\ counters[Mem] = 0 =>
              \E x \in Name : x.version = 1 /\ names'[Mem] = Append(names[Mem], x)
<1>1. /\ Becomes(Assigned(Maps, EntryAssigns)) /\ visited' = visited \cup {b}
      /\ stack' = Append(resumed, [Call(b) EXCEPT !.next = 0, !.instruction = blocks[b].first, !.assigned = Seqs!ToSet(EntryAssigns)])
  BY DEF Enter
<1>2. PICK E \in Seq(Registers) : /\ E = EntryAssigns
         /\ \E S \in SUBSET Registers :
              /\ S = Seqs!ToSet(E)
              /\ \A r : Tracked(r) => (r \in S <=> r = Mem /\ counters[Mem] = 0)
              /\ Tracked(Mem) /\ counters[Mem] = 0 => Occurrences(E, Mem) = 1
              /\ counters[Mem] = 0 => Mem \in S
  <2>1. /\ EntryAssigns \in Seq(Registers) /\ Seqs!ToSet(EntryAssigns) \in SUBSET Registers
        /\ \A r : r \notin Seqs!ToSet(fn.args) \cup fn.retains => (r \in Seqs!ToSet(EntryAssigns) <=> r = Mem /\ counters[Mem] = 0)
        /\ Mem \notin Seqs!ToSet(fn.args) \cup fn.retains /\ counters[Mem] = 0 => Occurrences(EntryAssigns, Mem) = 1
        /\ counters[Mem] = 0 => Mem \in Seqs!ToSet(EntryAssigns)
    BY EntryFacts
  <2>2. \A r : Tracked(r) => r \notin Seqs!ToSet(fn.args) \cup fn.retains
    BY DEF Tracked
  <2>3. /\ \A r : Tracked(r) => (r \in Seqs!ToSet(EntryAssigns) <=> r = Mem /\ counters[Mem] = 0)
        /\ Tracked(Mem) /\ counters[Mem] = 0 => Occurrences(EntryAssigns, Mem) = 1
    BY <2>1, <2>2
  <2> QED BY <2>1, <2>3
<1>9. PICK S \in SUBSET Registers :
         /\ S = Seqs!ToSet(E)
         /\ \A r : Tracked(r) => (r \in S <=> r = Mem /\ counters[Mem] = 0)
         /\ Tracked(Mem) /\ counters[Mem] = 0 => Occurrences(E, Mem) = 1
         /\ counters[Mem] = 0 => Mem \in S
  BY <1>2
<1>3. Maps.counters = counters /\ Maps.names = names /\ Maps.last = last
  BY DEF Maps
<1>4. PICK m : /\ m = Assigned(Maps, E) /\ Named(m)
               /\ \A r \in Registers :
                  /\ r \notin S => m.names[r] = names[r]
                  /\ r \in S => m.counters[r] > 0
                  /\ Occurrences(E, r) = 1 => m.names[r] = Append(names[r], [id |-> r, version |-> counters[r] + 1, phi |-> FALSE])
                  /\ last[r] # <<>> => m.last[r] # <<>>
                  /\ m.counters[r] >= counters[r]
  BY SMTT(20), <1>3, <1>9, AssignedFacts
<1>5. Named(Maps)' /\ counters' = m.counters /\ names' = m.names /\ last' = m.last
  BY <1>1, <1>2, <1>4, BecomesFacts
<1>6. counters[Mem] \in Nat /\ m.counters[Mem] \in Nat
  BY <1>3, <1>4, MemAssumption DEF Named, MapsType
<1>7. counters'[Mem] > 0
  <2>1. CASE counters[Mem] = 0
    BY <1>4, <1>5, <1>9, <2>1, MemAssumption
  <2>2. CASE counters[Mem] # 0
    <3>1. m.counters[Mem] >= counters[Mem]
      BY <1>4, MemAssumption
    <3> QED BY <1>5, <1>6, <2>2, <3>1
  <2> QED BY <2>1, <2>2
<1>8. \A r \in Registers : last[r] # <<>> => last'[r] # <<>>
  BY <1>4, <1>5
<1>10. PICK f \in Nat : f = blocks[b].first
  BY HouseFacts
<1>11. PICK t \in Calling : t = Call(b) /\ t.block = b /\ t.missing = {}
  <2>1. [block |-> b, next |-> 1, instruction |-> 0, assigned |-> {}, missing |-> {}] \in Calling
    BY DEF Calling
  <2> QED BY <2>1 DEF Call
<1>12. PICK u \in Calling : u = [t EXCEPT !.next = 0] /\ u.block = b /\ u.missing = {} /\ u.next = 0
  <2>1. [t EXCEPT !.next = 0] \in Calling
    BY DEF Calling
  <2> QED BY <1>11, <2>1 DEF Calling
<1>13. PICK v \in Calling : v = [u EXCEPT !.instruction = f] /\ v.block = b /\ v.missing = {} /\ v.next = 0 /\ v.instruction = f
  <2>1. [u EXCEPT !.instruction = f] \in Calling
    BY DEF Calling
  <2> QED BY <1>12, <2>1 DEF Calling
<1>17. PICK c \in Calling : /\ c = [v EXCEPT !.assigned = S]
                           /\ c.block = b /\ c.missing = {} /\ c.next = 0 /\ c.instruction = f /\ c.assigned = S
  <2>1. [v EXCEPT !.assigned = S] \in Calling
    BY DEF Calling
  <2> QED BY <1>13, <2>1 DEF Calling
<1>18. c = [Call(b) EXCEPT !.next = 0, !.instruction = blocks[b].first, !.assigned = Seqs!ToSet(EntryAssigns)]
  <2> HIDE DEF Calling
  <2> QED BY <1>2, <1>9, <1>10, <1>11, <1>12, <1>13, <1>17
<1>14. stack' = Append(resumed, c)
  BY <1>1, <1>18
<1>15. \A r \in Registers : Tracked(r) /\ (r # Mem \/ counters[Mem] # 0) => names'[r] = names[r] /\ r \notin c.assigned
  <2> SUFFICES ASSUME NEW r \in Registers, Tracked(r), r # Mem \/ counters[Mem] # 0
               PROVE  names'[r] = names[r] /\ r \notin c.assigned
    OBVIOUS
  <2>1. r \notin S
    BY <1>9
  <2> QED BY <1>4, <1>5, <1>17, <2>1
<1>16. Tracked(Mem) /\ counters[Mem] = 0 => \E x \in Name : x.version = 1 /\ names'[Mem] = Append(names[Mem], x)
  <2> SUFFICES ASSUME Tracked(Mem), counters[Mem] = 0
               PROVE  \E x \in Name : x.version = 1 /\ names'[Mem] = Append(names[Mem], x)
    OBVIOUS
  <2>2. Occurrences(E, Mem) = 1
    BY <1>9
  <2>3. PICK x \in Name : x = [id |-> Mem, version |-> counters[Mem] + 1, phi |-> FALSE]
    <3>1. counters[Mem] + 1 \in Nat
      BY <1>6
    <3> QED BY <3>1, MemAssumption DEF Name
  <2>4. x.version = 1
    BY <2>3
  <2>5. names'[Mem] = Append(names[Mem], x)
    BY <1>4, <1>5, <2>2, <2>3, MemAssumption
  <2> QED BY <2>4, <2>5
<1> QED BY <1>1, <1>5, <1>7, <1>8, <1>10, <1>14, <1>15, <1>16, <1>17

LEMMA StepFirst ==
  ASSUME Laid, fn \in Functions, WInv, RenameFirst
  PROVE  Laid' /\ WInv'
<1>1. /\ pc = "rename" /\ pc' = pc /\ stack = <<>> /\ visited = {} /\ Enter(1, <<>>)
      /\ UNCHANGED <<fn, code, blocks, conns, preds, phis>>
  BY DEF RenameFirst, graph
<1>2. /\ Named(Maps) /\ Fresh /\ WalkInv /\ LastInv /\ UsesInv
  BY <1>1 DEF WInv, Late
<1>3. 1 \in Blocks
  BY HouseFacts
<1>4. counters[Mem] = 0 /\ names[Mem] = <<>> /\ \A r \in Registers : names[r] = <<>>
  BY <1>2, MemAssumption DEF Fresh
<1>5. /\ Named(Maps)' /\ visited' = visited \cup {1} /\ counters'[Mem] > 0
      /\ \A r \in Registers : last[r] # <<>> => last'[r] # <<>>
      /\ \E c \in Calling :
           /\ stack' = Append(<<>>, c) /\ c.block = 1 /\ c.next = 0 /\ c.instruction = blocks[1].first /\ c.missing = {}
           /\ \A r \in Registers : Tracked(r) /\ (r # Mem \/ counters[Mem] # 0) => names'[r] = names[r] /\ r \notin c.assigned
      /\ Tracked(Mem) /\ counters[Mem] = 0 => \E x \in Name : x.version = 1 /\ names'[Mem] = Append(names[Mem], x)
  BY <1>1, <1>2, <1>3, EnterFacts
<1>6. PICK c \in Calling :
           /\ stack' = Append(<<>>, c) /\ c.block = 1 /\ c.next = 0 /\ c.instruction = blocks[1].first /\ c.missing = {}
           /\ \A r \in Registers : Tracked(r) /\ (r # Mem \/ counters[Mem] # 0) => names'[r] = names[r] /\ r \notin c.assigned
  BY <1>5
<1>7. /\ WalkInv' /\ Len(stack') = 1 /\ DOMAIN stack' = {1} /\ stack'[1] = c /\ Top' = c /\ stack' # <<>>
  <2>1. pc' # "done"
    BY <1>1
  <2> HIDE DEF Calling
  <2> QED BY <1>1, <1>2, <1>5, <1>6, <2>1, WalkFirst
<1>8. \A i \in DOMAIN code : Ready(i)' <=> Ready(i)
  <2> SUFFICES ASSUME NEW i \in DOMAIN code PROVE Ready(i)' <=> Ready(i)
    OBVIOUS
  <2>1. 1 \notin visited
    BY <1>1
  <2> QED BY <1>1, <1>3, <1>5, <1>6, <1>7, <2>1, ReadyInto
<1>9. \A i \in DOMAIN code : ~Ready(i)'
  BY <1>1, <1>8 DEF Ready
<1>10. Steady
  BY <1>1, <1>8, SteadySame
<1>11. Laid'
  BY <1>1, <1>10, ShapeFacts DEF Steady
<1>12. LastInv'
  BY <1>2, <1>5, <1>9, <1>10, LastKept
<1>13. UsesInv'
  BY <1>2, <1>8, <1>10, UsesSame
<1>14. FitInv'
  <2>1. \A r \in Registers : Tracked(r) /\ r # Mem => names'[r] = <<>> /\ r \notin stack'[1].assigned
    BY <1>4, <1>6, <1>7
  <2>2. Tracked(Mem) => Len(names'[Mem]) = 1 /\ names'[Mem][1].version = 1
    <3> SUFFICES ASSUME Tracked(Mem) PROVE Len(names'[Mem]) = 1 /\ names'[Mem][1].version = 1
      OBVIOUS
    <3>1. PICK x \in Name : x.version = 1 /\ names'[Mem] = Append(<<>>, x)
      BY <1>4, <1>5
    <3>2. names'[Mem] = <<x>>
      BY <3>1
    <3> QED BY <3>1, <3>2
  <2>3. stack'[1].block = 1
    BY <1>6, <1>7
  <2> QED BY <1>7, <1>9, <1>10, <2>1, <2>2, <2>3, FitFirst
<1> QED BY <1>1, <1>5, <1>7, <1>11, <1>12, <1>13, <1>14 DEF WInv, Late

LEMMA StepOperands ==
  ASSUME Laid, WInv, RenameOperands
  PROVE  Laid' /\ WInv'
<1>1. /\ pc = "rename" /\ pc' = pc /\ stack # <<>> /\ Top.next = 0 /\ Top.instruction > blocks[Top.block].last
      /\ code' = WithOperands(OperandsNow(Top.block))
      /\ stack' = [stack EXCEPT ![Len(stack)].next = 1, ![Len(stack)].missing = Missing(Top.block)]
      /\ UNCHANGED <<fn, blocks, conns, preds, phis, visited, counters, names, last>>
  BY DEF RenameOperands, graph, renaming
<1>2. /\ Named(Maps) /\ WalkInv /\ LastInv /\ FitInv /\ UsesInv /\ counters[Mem] > 0
  BY <1>1, WInvParts DEF Late
<1>3. /\ stack \in Seq(Calling) /\ Top \in Calling /\ Top.block \in visited /\ Top.block \in Reachable /\ Top.block \in Blocks
      /\ Top.instruction \in Nat /\ blocks[Top.block].first <= Top.instruction
      /\ \A q \in Top.missing : q[1] \in Succ(Top.block) /\ q[2] \in phis[q[1]]
  BY <1>1, <1>2, WalkTop
<1>4. PICK b \in Blocks : b = Top.block
  BY <1>3
<1>5. conns[b] \in Seq(Blocks)
  BY HouseFacts
<1>6. PICK times : times = OperandsNow(b)
  OBVIOUS
<1>7. \A c \in Blocks : \A r \in Registers : times[<<c, r>>] \in Nat /\ (times[<<c, r>>] # 0 => last[r] # <<>>)
  <2> SUFFICES ASSUME NEW c \in Blocks, NEW r \in Registers
               PROVE  times[<<c, r>>] \in Nat /\ (times[<<c, r>>] # 0 => last[r] # <<>>)
    OBVIOUS
  <2>1. Occurrences(conns[b], c) \in Nat
    BY <1>5, OccurrencesFacts
  <2>2. times[<<c, r>>] = IF last[r] = <<>> THEN 0 ELSE Occurrences(conns[b], c)
    <3>1. <<c, r>> \in Blocks \X Registers /\ <<c, r>>[1] = c /\ <<c, r>>[2] = r
      OBVIOUS
    <3>2. PICK q \in Blocks \X Registers : q = <<c, r>>
      BY <3>1
    <3>3. q[1] = c /\ q[2] = r
      BY <3>1, <3>2
    <3>4. times[q] = IF last[q[2]] = <<>> THEN 0 ELSE Occurrences(conns[b], q[1])
      BY <1>6 DEF OperandsNow
    <3> QED BY <3>2, <3>3, <3>4
  <2> QED BY <2>1, <2>2
<1>8. /\ SameShape /\ \A i \in DOMAIN code : code'[i].to = code[i].to
      /\ \A i \in DOMAIN code : code[i].kind # "phi" => code'[i] = code[i]
  BY <1>1, <1>2, <1>4, <1>6, <1>7, OperandsFacts
<1>9. PICK M \in SUBSET (Blocks \X Registers) : M = Missing(b) /\ \A q \in M : q[1] \in Succ(b) /\ q[2] \in phis[q[1]]
  <2>1. Seqs!ToSet(conns[b]) \subseteq Blocks
    BY <1>5 DEF Seqs!ToSet
  <2>2. ASSUME NEW q \in Missing(b)
        PROVE  q \in Blocks \X Registers /\ q[1] \in Succ(b) /\ q[2] \in phis[q[1]]
    <3>1. q \in Seqs!ToSet(conns[b]) \X Registers /\ q[2] \in phis[q[1]]
      BY DEF Missing
    <3>2. PICK c \in Seqs!ToSet(conns[b]), r \in Registers : q = <<c, r>>
      BY <3>1
    <3> QED BY <2>1, <3>1, <3>2 DEF Succ
  <2>3. Missing(b) \in SUBSET (Blocks \X Registers)
    BY <2>2
  <2> QED BY <2>2, <2>3
<1>10. PICK e \in Calling :
         /\ e = [Top EXCEPT !.next = 1, !.missing = M]
         /\ e.block = b /\ e.next = 1 /\ e.instruction = Top.instruction /\ e.assigned = Top.assigned /\ e.missing = M
  <2>1. PICK t \in Calling : t = Top
    BY <1>3
  <2>2. PICK u \in Calling : /\ u = [t EXCEPT !.next = 1] /\ u.block = t.block /\ u.next = 1 /\ u.instruction = t.instruction
                             /\ u.assigned = t.assigned
    <3>1. [t EXCEPT !.next = 1] \in Calling
      BY DEF Calling
    <3> QED BY <3>1 DEF Calling
  <2>3. PICK v \in Calling : /\ v = [u EXCEPT !.missing = M] /\ v.block = u.block /\ v.next = 1 /\ v.instruction = u.instruction
                             /\ v.assigned = u.assigned /\ v.missing = M
    <3>1. [u EXCEPT !.missing = M] \in Calling
      BY DEF Calling
    <3> QED BY <2>2, <3>1 DEF Calling
  <2>4. v = [Top EXCEPT !.next = 1, !.missing = M]
    BY <2>1, <2>2, <2>3
  <2> HIDE DEF Calling
  <2> QED BY <1>4, <2>1, <2>2, <2>3, <2>4
<1>11. stack' = [stack EXCEPT ![Len(stack)] = e]
  <2>1. Len(stack) \in DOMAIN stack /\ Top = stack[Len(stack)]
    BY <1>1, <1>3, TopFacts
  <2> HIDE DEF Calling
  <2> QED BY <1>1, <1>4, <1>9, <1>10, <2>1
<1>12. Blocks' = Blocks /\ Laid'
  BY <1>1, <1>8, ShapeFacts
<1>13. Top' = e /\ stack' # <<>>
  <2> HIDE DEF Calling
  <2> QED BY <1>1, <1>3, <1>12, <1>11, GoesOn
<1>14. \A i \in DOMAIN code : Ready(i)' <=> Ready(i)
  <2>1. Top'.next # 0
    BY <1>10, <1>13
  <2> QED BY <1>1, <1>3, <1>8, <2>1, ReadyDone
<1>15. Steady
  BY <1>1, <1>8, <1>14 DEF Steady
<1>16. WalkInv'
  <2>1. Top.instruction <= e.instruction
    BY <1>3, <1>10
  <2>2. pc' # "done"
    BY <1>1
  <2>3. \A j \in DOMAIN conns[Top.block] : ~(j < e.next)
    BY <1>4, <1>5, <1>10
  <2>4. \A q \in e.missing : q[1] \in Succ(Top.block) /\ q[2] \in phis[q[1]]
    BY <1>4, <1>9, <1>10
  <2> HIDE DEF Calling
  <2> QED BY <1>1, <1>2, <1>4, <1>8, <1>10, <1>11, <2>1, <2>2, <2>3, <2>4, WalkOn
<1>17. LastInv'
  BY <1>1, <1>2, <1>14, <1>15, LastKept
<1>18. FitInv'
  <2> HIDE DEF Calling
  <2> QED BY <1>1, <1>2, <1>3, <1>4, <1>10, <1>11, <1>14, <1>15, FitSame
<1>19. UsesInv'
  BY <1>2, <1>14, <1>15, UsesSame
<1>20. Named(Maps)' /\ counters'[Mem] > 0 /\ visited' # {}
  BY <1>1, <1>2, <1>3 DEF Named, Maps
<1> QED BY <1>1, <1>12, <1>16, <1>17, <1>18, <1>19, <1>20 DEF WInv, Late

LEMMA ResumedCall ==
  ASSUME NEW t \in Calling
  PROVE  LET e == [t EXCEPT !.next = @ + 1]
         IN  /\ e \in Calling /\ e.block = t.block /\ e.next = t.next + 1 /\ e.instruction = t.instruction
             /\ e.assigned = t.assigned /\ e.missing = t.missing
<1>1. PICK i \in Nat : i = t.next + 1
  BY DEF Calling
<1>2. [t EXCEPT !.next = i] \in Calling
  BY DEF Calling
<1>3. PICK u \in Calling : /\ u = [t EXCEPT !.next = i] /\ u.block = t.block /\ u.next = i /\ u.instruction = t.instruction
                          /\ u.assigned = t.assigned /\ u.missing = t.missing
  BY <1>2 DEF Calling
<1> QED BY <1>1, <1>3

LEMMA StepNext ==
  ASSUME Laid, fn \in Functions, WInv, RenameNext
  PROVE  Laid' /\ WInv'
<1>1. /\ pc = "rename" /\ pc' = pc /\ stack # <<>> /\ Top.next \in DOMAIN conns[Top.block]
      /\ UNCHANGED <<fn, code, blocks, conns, preds, phis>>
  BY DEF RenameNext, graph
<1>2. /\ Named(Maps) /\ WalkInv /\ LastInv /\ FitInv /\ UsesInv /\ counters[Mem] > 0
      /\ counters \in [Registers -> Nat]
  BY <1>1, WInvParts DEF Late
<1>3. /\ stack \in Seq(Calling) /\ Top \in Calling /\ Top.block \in visited /\ Top.block \in Reachable /\ Top.block \in Blocks
      /\ Top.next \in Nat /\ Top.instruction \in Nat /\ visited \subseteq Reachable
      /\ \A q \in Top.missing : q[1] \in Succ(Top.block) /\ q[2] \in phis[q[1]]
      /\ \A j \in DOMAIN conns[Top.block] : j < Top.next => conns[Top.block][j] \in visited
  BY <1>1, <1>2, WalkTop
<1>4. PICK b \in Blocks : b = Top.block
  BY <1>3
<1>5. conns[b] \in Seq(Blocks)
  BY HouseFacts
<1>6. PICK s \in Blocks : s = conns[b][Top.next] /\ s \in Succ(b)
  <2>1. conns[b][Top.next] \in Blocks
    BY <1>1, <1>4, <1>5
  <2> QED BY <1>1, <1>4, <2>1 DEF Succ, Seqs!ToSet
<1>7. Top.next # 0
  BY <1>1, <1>4, <1>5
<1>8. PICK e \in Calling :
         /\ e = [Top EXCEPT !.next = @ + 1]
         /\ e.block = b /\ e.next = Top.next + 1 /\ e.instruction = Top.instruction /\ e.assigned = Top.assigned /\ e.missing = Top.missing
  <2>1. PICK t \in Calling : t = Top
    BY <1>3
  <2>2. PICK v : v = [t EXCEPT !.next = @ + 1]
    OBVIOUS
  <2> HIDE DEF Calling
  <2>3. /\ v \in Calling /\ v.block = t.block /\ v.next = t.next + 1 /\ v.instruction = t.instruction
        /\ v.assigned = t.assigned /\ v.missing = t.missing
    BY <2>2, ResumedCall
  <2>4. v = [Top EXCEPT !.next = @ + 1]
    BY <2>1, <2>2
  <2> QED BY <1>4, <2>1, <2>3, <2>4
<1>9. PICK resumed : resumed = [stack EXCEPT ![Len(stack)].next = @ + 1]
  OBVIOUS
<1>10. resumed = [stack EXCEPT ![Len(stack)] = e]
  <2>1. Len(stack) \in DOMAIN stack /\ Top = stack[Len(stack)]
    BY <1>1, <1>3, TopFacts
  <2> HIDE DEF Calling
  <2> QED BY <1>8, <1>9, <2>1
<1>11. IF s \in visited THEN stack' = resumed /\ UNCHANGED <<renaming, visited>> ELSE Enter(s, resumed)
  BY <1>4, <1>6, <1>9, Zenon DEF RenameNext
<1>12. CASE s \in visited
  <2>1. stack' = [stack EXCEPT ![Len(stack)] = e] /\ visited' = visited /\ counters' = counters /\ names' = names /\ last' = last
    BY <1>10, <1>11, <1>12 DEF renaming
  <2>2. Blocks' = Blocks
    BY <1>1 DEF Blocks
  <2>3. Top' = e /\ stack' # <<>>
    <3> HIDE DEF Calling
    <3> QED BY <1>1, <1>3, <2>1, <2>2, GoesOn
  <2>4. SameShape
    BY <1>1 DEF Laid, SameShape
  <2>5. \A i \in DOMAIN code : Ready(i)' <=> Ready(i)
    <3>1. Top'.next # 0
      BY <1>3, <1>8, <2>3
    <3> QED BY <1>1, <1>7, <2>1, <2>4, <3>1, ReadyStays
  <2>6. Steady
    BY <1>1, <2>5, SteadySame
  <2>7. Laid'
    BY <1>1, <2>4, ShapeFacts
  <2>8. WalkInv'
    <3>1. Top.instruction <= e.instruction
      BY <1>3, <1>8
    <3>2. pc' # "done"
      BY <1>1
    <3>3. \A j \in DOMAIN conns[Top.block] : j < e.next => conns[Top.block][j] \in visited
      <4> SUFFICES ASSUME NEW j \in DOMAIN conns[Top.block], j < e.next PROVE conns[Top.block][j] \in visited
        OBVIOUS
      <4>1. j \in Nat
        BY <1>4, <1>5
      <4>2. j < Top.next \/ j = Top.next
        BY <1>3, <1>8, <4>1
      <4> QED BY <1>3, <1>4, <1>6, <1>12, <4>2
    <3> HIDE DEF Calling
    <3> QED BY <1>1, <1>2, <1>3, <1>4, <1>8, <2>1, <2>4, <3>1, <3>2, <3>3, WalkOn
  <2>9. LastInv'
    BY <1>2, <2>1, <2>5, <2>6, LastKept
  <2>10. FitInv'
    <3> HIDE DEF Calling
    <3> QED BY <1>1, <1>2, <1>3, <1>4, <1>8, <2>1, <2>5, <2>6, FitSame
  <2>11. UsesInv'
    BY <1>2, <2>5, <2>6, UsesSame
  <2>12. Named(Maps)' /\ counters'[Mem] > 0 /\ visited' # {}
    BY <1>2, <1>3, <2>1 DEF Named, Maps
  <2> QED BY <1>1, <2>7, <2>8, <2>9, <2>10, <2>11, <2>12 DEF WInv, Late
<1>13. CASE s \notin visited
  <2>1. Enter(s, resumed)
    BY <1>11, <1>13
  <2>2. counters[Mem] # 0
    BY <1>2
  <2>3. /\ Named(Maps)' /\ visited' = visited \cup {s} /\ counters'[Mem] > 0
        /\ \A r \in Registers : last[r] # <<>> => last'[r] # <<>>
        /\ \E c \in Calling :
             /\ stack' = Append(resumed, c) /\ c.block = s /\ c.next = 0 /\ c.instruction = blocks[s].first /\ c.missing = {}
             /\ \A r \in Registers : Tracked(r) /\ (r # Mem \/ counters[Mem] # 0) => names'[r] = names[r] /\ r \notin c.assigned
        /\ Tracked(Mem) /\ counters[Mem] = 0 => \E x \in Name : x.version = 1 /\ names'[Mem] = Append(names[Mem], x)
    <3> HIDE DEF Calling
    <3> QED BY <1>2, <2>1, EnterFacts
  <2>4. PICK c \in Calling :
             /\ stack' = Append(resumed, c) /\ c.block = s /\ c.next = 0 /\ c.instruction = blocks[s].first /\ c.missing = {}
             /\ \A r \in Registers : Tracked(r) /\ (r # Mem \/ counters[Mem] # 0) => names'[r] = names[r] /\ r \notin c.assigned
    BY <2>3
  <2>5. /\ WalkInv'
        /\ Len(stack') = Len(stack) + 1 /\ DOMAIN stack' = 1..(Len(stack) + 1)
        /\ stack'[Len(stack) + 1] = c /\ Top' = c /\ stack' # <<>>
        /\ \A k \in DOMAIN stack : stack'[k].block = stack[k].block /\ stack'[k].assigned = stack[k].assigned
    <3>1. stack' = Append([stack EXCEPT ![Len(stack)] = e], c)
      BY <1>10, <2>4
    <3>2. pc' # "done"
      BY <1>1
    <3>3. s = conns[Top.block][Top.next] /\ Top.next \in DOMAIN conns[Top.block]
      BY <1>1, <1>4, <1>6
    <3>4. visited' = visited \cup {s}
      BY <2>3
    <3>5. UNCHANGED <<fn, code, blocks, conns, preds, phis>> /\ stack # <<>> /\ WalkInv /\ e = [Top EXCEPT !.next = @ + 1]
      BY <1>1, <1>2, <1>8
    <3>6. c.block = s /\ c.next = 0 /\ c.instruction = blocks[s].first /\ c.missing = {}
      BY <2>4
    <3> HIDE DEF Calling
    <3> QED BY <1>13, <3>1, <3>2, <3>3, <3>4, <3>5, <3>6, WalkInto
  <2>6. \A i \in DOMAIN code : Ready(i)' <=> Ready(i)
    BY <1>1, <1>7, <1>13, <2>3, <2>4, <2>5, ReadyInto
  <2>7. Steady
    BY <1>1, <2>6, SteadySame
  <2>8. Laid'
    BY <1>1, <2>7, ShapeFacts DEF Steady
  <2>9. LastInv'
    BY <1>2, <2>3, <2>6, <2>7, LastKept
  <2>10. FitInv'
    <3>1. \A r \in Registers : Tracked(r) => names'[r] = names[r] /\ r \notin stack'[Len(stack) + 1].assigned
      BY <2>2, <2>4, <2>5
    <3>2. s \in Succ(Top.block) /\ stack'[Len(stack) + 1].block = s
      BY <1>4, <1>6, <2>4, <2>5
    <3> HIDE DEF Calling
    <3> QED BY <1>1, <1>2, <1>3, <1>7, <1>13, <2>5, <2>6, <2>7, <3>1, <3>2, FitInto
  <2>11. UsesInv'
    BY <1>2, <2>6, <2>7, UsesSame
  <2>12. visited' # {}
    BY <2>3
  <2> QED BY <1>1, <2>3, <2>5, <2>8, <2>9, <2>10, <2>11, <2>12 DEF WInv, Late
<1> QED BY <1>12, <1>13

LEMMA AnyFront ==
  ASSUME NEW T, NEW s \in Seq(T)
  PROVE  Seqs!Front(s) \in Seq(T) /\ \A k \in DOMAIN Seqs!Front(s) : k \in DOMAIN s /\ Seqs!Front(s)[k] = s[k]
<1>1. CASE s = <<>>
  <2>1. Seqs!Front(s) = SubSeq(s, 1, Len(s) - 1)
    BY DEF Seqs!Front
  <2>2. Seqs!Front(s) \in Seq(T) /\ Len(Seqs!Front(s)) = 0
    BY <1>1, <2>1
  <2>3. DOMAIN Seqs!Front(s) = {}
    BY <2>2
  <2> QED BY <2>2, <2>3
<1>2. CASE s # <<>>
  <2>1. /\ Seqs!Front(s) \in Seq(T) /\ DOMAIN Seqs!Front(s) = 1..(Len(s) - 1)
        /\ \A k \in 1..(Len(s) - 1) : Seqs!Front(s)[k] = s[k]
    BY <1>2, FrontFacts
  <2>2. \A k \in 1..(Len(s) - 1) : k \in DOMAIN s
    OBVIOUS
  <2> QED BY <2>1, <2>2
<1> QED BY <1>1, <1>2

LEMMA StepReturns ==
  ASSUME Laid, WInv, RenameReturns
  PROVE  Laid' /\ WInv'
<1>1. /\ pc = "rename" /\ pc' = pc /\ stack # <<>> /\ Top.next > Len(conns[Top.block])
      /\ code' = WithOperands(OperandsLate(Top.block, Top.missing))
      /\ names' = [r \in Registers |-> IF r \in Top.assigned THEN Seqs!Front(names[r]) ELSE names[r]]
      /\ stack' = Seqs!Front(stack)
      /\ UNCHANGED <<fn, blocks, conns, preds, phis, visited, counters, last>>
  BY DEF RenameReturns, graph
<1>2. /\ Named(Maps) /\ WalkInv /\ LastInv /\ FitInv /\ UsesInv /\ counters[Mem] > 0
      /\ counters \in [Registers -> Nat] /\ names \in [Registers -> Seq(Name)] /\ last \in [Registers -> Seq(Name)]
  BY <1>1, WInvParts DEF Late
<1>3. /\ stack \in Seq(Calling) /\ Top \in Calling /\ Top.block \in visited /\ Top.block \in Reachable /\ Top.block \in Blocks
      /\ Top.next \in Nat /\ visited \subseteq Reachable
      /\ \A q \in Top.missing : q[1] \in Succ(Top.block) /\ q[2] \in phis[q[1]]
      /\ \A j \in DOMAIN conns[Top.block] : j < Top.next => conns[Top.block][j] \in visited
  BY <1>1, <1>2, WalkTop
<1>4. PICK b \in Blocks : b = Top.block
  BY <1>3
<1>5. conns[b] \in Seq(Blocks) /\ Len(conns[b]) \in Nat
  BY HouseFacts
<1>6. Top.next # 0
  BY <1>1, <1>3, <1>4, <1>5
<1>7. ASSUME NEW s \in Succ(b), NEW r \in phis[s]
      PROVE  r \in Registers => last[r] # <<>>
  <2>1. PICK j \in DOMAIN conns[b] : s = conns[b][j]
    BY DEF Succ, Seqs!ToSet
  <2>2. j < Top.next
    BY <1>1, <1>3, <1>4, <1>5, <2>1
  <2>3. s \in visited /\ s \in Blocks
    BY <1>3, <1>4, <1>5, <2>1, <2>2
  <2>4. PICK i \in InstructionsOf(s) : Defines(i, r)
    BY <2>3 DEF Laid, PhisThere
  <2>5. i \in DOMAIN code /\ BlockForInstruction(i) = s
    BY <2>3, HouseFacts
  <2>6. Ready(i)
    BY <1>6, <2>3, <2>5 DEF Ready
  <2> QED BY <1>2, <2>4, <2>5, <2>6 DEF LastInv
<1>8. PICK M \in SUBSET (Blocks \X Registers) : M = Top.missing
  BY <1>1, <1>3, TopFacts
<1>9. PICK times : times = OperandsLate(b, M)
  OBVIOUS
<1>10. \A c \in Blocks : \A r \in Registers : times[<<c, r>>] \in Nat /\ (times[<<c, r>>] # 0 => last[r] # <<>>)
  <2> SUFFICES ASSUME NEW c \in Blocks, NEW r \in Registers
               PROVE  times[<<c, r>>] \in Nat /\ (times[<<c, r>>] # 0 => last[r] # <<>>)
    OBVIOUS
  <2>1. <<c, r>> \in Blocks \X Registers /\ <<c, r>>[1] = c /\ <<c, r>>[2] = r
    OBVIOUS
  <2>2. PICK q \in Blocks \X Registers : q = <<c, r>>
    BY <2>1
  <2>3. q[1] = c /\ q[2] = r
    BY <2>1, <2>2
  <2>4. PICK o \in Nat : o = Occurrences(conns[b], q[1])
    BY <1>5, OccurrencesFacts
  <2>5. PICK l \in Nat : l = Len(conns[b])
    BY <1>5
  <2>6. times[q] = IF q \in M THEN l * o ELSE 0
    BY <1>9, <2>4, <2>5 DEF OperandsLate
  <2>7. l * o \in Nat
    OBVIOUS
  <2>8. q \in M => last[r] # <<>>
    BY <1>3, <1>4, <1>7, <1>8, <2>3
  <2> QED BY <2>2, <2>6, <2>7, <2>8
<1>11. /\ SameShape /\ \A i \in DOMAIN code : code'[i].to = code[i].to
       /\ \A i \in DOMAIN code : code[i].kind # "phi" => code'[i] = code[i]
  BY <1>1, <1>2, <1>4, <1>8, <1>9, <1>10, OperandsFacts
<1>12. /\ WalkInv' /\ Len(stack') = Len(stack) - 1 /\ DOMAIN stack' = 1..(Len(stack) - 1)
       /\ \A k \in 1..(Len(stack) - 1) : stack'[k] = stack[k]
       /\ stack' # <<>> => Top'.next # 0
  <2>1. pc' # "done"
    BY <1>1
  <2> HIDE DEF Calling
  <2> QED BY <1>1, <1>2, <1>11, <2>1, WalkBack
<1>13. \A i \in DOMAIN code : Ready(i)' <=> Ready(i)
  BY <1>1, <1>6, <1>11, <1>12, ReadyStays
<1>14. Steady
  BY <1>1, <1>11, <1>13 DEF Steady
<1>15. Laid'
  BY <1>1, <1>11, ShapeFacts
<1>16. LastInv'
  BY <1>1, <1>2, <1>13, <1>14, LastKept
<1>17. FitInv'
  <2>1. \A r \in Registers : names'[r] = IF r \in Top.assigned THEN Seqs!Front(names[r]) ELSE names[r]
    BY <1>1
  <2> HIDE DEF Calling
  <2> QED BY <1>1, <1>2, <1>3, <1>12, <1>13, <1>14, <2>1, FitBack
<1>18. UsesInv'
  BY <1>2, <1>13, <1>14, UsesSame
<1>19. Named(Maps)'
  <2>1. \A r \in Registers : \A k \in DOMAIN names[r] : names[r][k].id = r
    BY <1>2 DEF Named, Maps
  <2>2. ASSUME NEW r \in Registers
        PROVE  names'[r] \in Seq(Name) /\ \A k \in DOMAIN names'[r] : names'[r][k].id = r
    <3>1. PICK p \in Seq(Name) : p = names[r] /\ \A k \in DOMAIN p : p[k].id = r
      BY <1>2, <2>1
    <3>2. Seqs!Front(p) \in Seq(Name) /\ \A k \in DOMAIN Seqs!Front(p) : k \in DOMAIN p /\ Seqs!Front(p)[k] = p[k]
      BY AnyFront
    <3>3. names'[r] = p \/ names'[r] = Seqs!Front(p)
      BY <1>1, <3>1
    <3> QED BY <3>1, <3>2, <3>3
  <2>3. names' \in [Registers -> Seq(Name)]
    BY <1>1, <2>2
  <2>4. Maps' = [counters |-> counters, names |-> names', last |-> last]
    BY <1>1 DEF Maps
  <2>5. \A r \in Registers : \A k \in DOMAIN last[r] : last[r][k].id = r
    BY <1>2 DEF Named, Maps
  <2>6. \A r \in Registers : last[r] = <<>> \/ DOMAIN last[r] = {1}
    BY <1>2 DEF Named, Maps
  <2>7. PICK m : /\ m = [counters |-> counters, names |-> names', last |-> last] /\ m \in MapsType
                 /\ m.names = names' /\ m.last = last
    <3>1. PICK n \in [Registers -> Seq(Name)] : n = names'
      BY <2>3
    <3>2. PICK c \in [Registers -> Nat] : c = counters
      BY <1>2
    <3>3. PICK l \in [Registers -> Seq(Name)] : l = last
      BY <1>2
    <3>4. PICK m : m = [counters |-> c, names |-> n, last |-> l]
      OBVIOUS
    <3>5. m \in MapsType /\ m.names = n /\ m.last = l
      BY <3>4, MapsFacts
    <3>6. m = [counters |-> counters, names |-> names', last |-> last]
      BY <3>1, <3>2, <3>3, <3>4
    <3> QED BY <3>1, <3>3, <3>5, <3>6
  <2>8. Named(m)
    BY <2>2, <2>5, <2>6, <2>7 DEF Named
  <2> QED BY <2>4, <2>7, <2>8 DEF Named
<1>20. counters'[Mem] > 0 /\ visited' # {}
  BY <1>1, <1>2, <1>3
<1> QED BY <1>1, <1>12, <1>15, <1>16, <1>17, <1>18, <1>19, <1>20 DEF WInv, Late

\* Steps that leave everything alone but where the function has come to.
LEMMA StepQuiet ==
  ASSUME Laid, WInv, pc \in Late, pc' \in Late, pc' = "done" => stack = <<>> /\ visited # {},
         UNCHANGED <<fn, code, blocks, conns, preds, phis, visited, stack, counters, names, last>>
  PROVE  WInv'
<1>1. Named(Maps) /\ WalkInv /\ LastInv /\ FitInv /\ UsesInv
  BY DEF WInv
<1>2. SameShape
  BY DEF Laid, SameShape
<1>3. Blocks' = Blocks /\ Reachable' = Reachable /\ \A b : Succ(b)' = Succ(b)
  BY <1>2, ShapeFacts
<1>4. Top' = Top
  BY DEF Top
<1>5. \A i : Ready(i)' <=> Ready(i)
  BY <1>2, <1>4, ShapeFacts DEF Ready
<1>6. Steady
  BY <1>5, SteadySame
<1>7. Calling' = Calling
  BY <1>3 DEF Calling
<1>8. WalkInv'
  <2> HIDE DEF Calling
  <2> QED BY <1>1, <1>3, <1>7 DEF WalkInv
<1>9. LastInv'
  BY <1>1, <1>5, <1>6, LastKept
<1>10. UsesInv'
  BY <1>1, <1>5, <1>6, UsesSame
<1>11. FitInv'
  <2> SUFFICES ASSUME stack # <<>> PROVE FitInv'
    BY DEF FitInv
  <2>1. stack \in Seq(Calling) /\ Top \in Calling /\ Top = stack[Len(stack)]
    BY <1>1, TopFacts DEF WalkInv
  <2>2. stack' = [stack EXCEPT ![Len(stack)] = Top]
    <3> HIDE DEF Calling
    <3> QED BY <2>1
  <2>3. PICK e \in Calling : e = Top
    BY <2>1
  <2> HIDE DEF Calling
  <2> QED BY <1>1, <1>5, <1>6, <2>1, <2>2, <2>3, FitSame
<1>12. Named(Maps)' /\ (Fresh => Fresh')
  BY <1>1 DEF Named, Maps, Fresh
<1> QED BY <1>8, <1>9, <1>10, <1>11, <1>12 DEF WInv

\* Steps before the walk.
LEMMA StepBefore ==
  ASSUME WInv, pc \notin Late, UNCHANGED <<counters, names, last>>, pc' \in Late => visited' = {} /\ stack' = <<>> /\ pc' # "done"
  PROVE  WInv'
<1>1. Named(Maps)' /\ Fresh'
  BY DEF WInv, Named, Maps, Fresh
<1>2. CASE pc' \notin Late
  BY <1>1, <1>2 DEF WInv
<1>3. CASE pc' \in Late
  <2>1. visited' = {} /\ stack' = <<>> /\ pc' # "done"
    BY <1>3
  <2>2. \A i : ~Ready(i)'
    BY <2>1 DEF Ready
  <2>3. WalkInv'
    <3> HIDE DEF Calling
    <3> QED BY <2>1 DEF WalkInv
  <2>4. LastInv' /\ FitInv' /\ UsesInv'
    BY <2>1, <2>2 DEF LastInv, FitInv, UsesInv, UsesFit
  <2> QED BY <1>1, <2>1, <2>3, <2>4 DEF WInv
<1> QED BY <1>2, <1>3

RInv == LaidInv /\ WInv

LEMMA RInvInit == Init => RInv
<1> SUFFICES ASSUME Init PROVE RInv
  OBVIOUS
<1>1. /\ pc = "blocks" /\ counters = [r \in Registers |-> 0] /\ names = [r \in Registers |-> <<>>] /\ last = [r \in Registers |-> <<>>]
  BY DEF Init
<1>2. LaidInv
  BY <1>1 DEF LaidInv, Drawing, Placing
<1>3. Named(Maps)
  <2>1. PICK c \in [Registers -> Nat] : c = counters
    BY <1>1
  <2> DEFINE T == Seq(Name)
  <2>7. <<>> \in T
    OBVIOUS
  <2> HIDE DEF T
  <2>2. PICK n \in [Registers -> T] : n = names
    BY <1>1, <2>7
  <2>3. PICK l \in [Registers -> T] : l = last
    BY <1>1, <2>7
  <2>4. PICK m : m = [counters |-> c, names |-> n, last |-> l]
    OBVIOUS
  <2>5. m \in MapsType /\ m.names = n /\ m.last = l /\ m = Maps
    BY <2>1, <2>2, <2>3, <2>4, MapsFacts DEF Maps, T
  <2>6. \A r \in Registers : n[r] = <<>> /\ l[r] = <<>>
    BY <1>1, <2>2, <2>3
  <2> QED BY <2>5, <2>6 DEF Named
<1>4. Fresh
  BY <1>1 DEF Fresh
<1> QED BY <1>1, <1>2, <1>3, <1>4 DEF RInv, WInv, Late

LEMMA RInvNext ==
  ASSUME IInv, DInv, RInv, [Next]_vars
  PROVE  RInv'
<1>1. LaidInv /\ WInv /\ fn \in Functions
  BY DEF RInv, IInv, CodeInv
<1>2. CASE UNCHANGED vars
  <2>1. UNCHANGED <<fn, code, pc, blocks, conns, preds, visited, stack, phis, counters, names, last>>
    BY <1>2 DEF vars, graph, renaming
  <2>2. LaidInv'
    <3>1. CASE pc \in Drawing
      BY <2>1, <3>1 DEF LaidInv, Drawing, Placing
    <3>2. CASE pc \notin Drawing
      BY <1>1, <2>1, <3>2, LaidKept
    <3> QED BY <3>1, <3>2
  <2>3. WInv'
    <3>1. CASE pc \notin Late
      BY <1>1, <2>1, <3>1, StepBefore
    <3>2. CASE pc \in Late
      <4>1. Laid
        BY <1>1, <3>2 DEF LaidInv, Late, Drawing
      <4>2. pc = "done" => stack = <<>> /\ visited # {}
        BY <1>1, <3>2 DEF WInv, WalkInv
      <4> QED BY <1>1, <2>1, <3>2, <4>1, <4>2, StepQuiet
    <3> QED BY <3>1, <3>2
  <2> QED BY <2>2, <2>3 DEF RInv
<1>3. CASE GetBlocks \/ Connect \/ Connected
  <2>1. pc \notin Late /\ pc' = "connect" /\ UNCHANGED <<counters, names, last>>
    BY <1>3, Zenon DEF GetBlocks, Connect, Connected, Late, renaming
  <2>2. LaidInv'
    BY <2>1 DEF LaidInv, Drawing, Placing
  <2>3. WInv'
    BY <1>1, <2>1, StepBefore DEF Late
  <2> QED BY <2>2, <2>3 DEF RInv
<1>4. CASE StartDominators
  <2>1. pc \notin Late /\ pc' \notin Late /\ UNCHANGED <<counters, names, last>>
    BY <1>4 DEF StartDominators, Late, renaming
  <2> QED BY <1>1, <1>4, <2>1, LaidStart, StepBefore DEF RInv
<1>5. CASE Dominate \/ DominateAgain \/ StartFrontiers \/ NextFrontier \/ StartRunner \/ Run \/ StartPhis \/ NextRegister \/ NextBlock
  <2>1. /\ pc \in Placing /\ pc' \in Placing
        /\ UNCHANGED <<counters, names, last>> /\ UNCHANGED <<code, blocks, conns, preds, phis>>
    BY <1>5, Zenon DEF Dominate, DominateAgain, StartFrontiers, NextFrontier, StartRunner, Run, StartPhis, NextRegister, NextBlock,
                Placing, renaming, graph
  <2>2. pc \notin Late /\ pc' \notin Late /\ pc \notin Drawing /\ pc' \notin Drawing
    BY <2>1 DEF Placing, Late, Drawing
  <2> QED BY <1>1, <2>1, <2>2, LaidKept, StepBefore DEF RInv
<1>6. CASE PlacePhi
  <2>1. pc \notin Late /\ pc' \notin Late /\ UNCHANGED <<counters, names, last>>
    BY <1>6 DEF PlacePhi, Late, renaming
  <2> QED BY <1>1, <1>6, <2>1, LaidPlaced, StepBefore DEF RInv
<1>7. CASE StartRename
  <2>1. /\ pc = "phis" /\ pc' = "rename" /\ visited' = {} /\ stack' = <<>>
        /\ UNCHANGED <<counters, names, last>> /\ UNCHANGED <<code, blocks, conns, preds, phis>>
    BY <1>7 DEF StartRename, renaming, graph
  <2>2. pc \notin Late /\ pc' # "done" /\ pc \notin Drawing /\ pc' \notin Drawing /\ pc' \notin Placing
    BY <2>1 DEF Placing, Late, Drawing
  <2> QED BY <1>1, <2>1, <2>2, LaidKept, StepBefore DEF RInv
<1>8. CASE RenameFirst \/ RenameInstruction \/ RenameOperands \/ RenameNext \/ RenameReturns
  <2>1. pc = "rename" /\ pc' = "rename"
    BY <1>8, Zenon DEF RenameFirst, RenameInstruction, RenameOperands, RenameNext, RenameReturns
  <2>2. Laid
    BY <1>1, <2>1 DEF LaidInv, Drawing
  <2>3. Laid' /\ WInv'
    BY <1>1, <1>8, <2>2, StepFirst, StepInstruction, StepOperands, StepNext, StepReturns
  <2> QED BY <2>1, <2>3 DEF RInv, LaidInv, Placing
<1>9. CASE RenameCrashes \/ Built
  <2>1. /\ pc = "rename" /\ pc' \in {"done", "crashed"} /\ (pc' = "done" => stack = <<>> /\ visited # {})
        /\ UNCHANGED <<fn, code, blocks, conns, preds, phis, visited, stack, counters, names, last>>
    BY <1>9, Zenon DEF RenameCrashes, Built, graph, renaming
  <2>2. pc \in Late /\ pc' \in Late /\ pc \notin Drawing /\ pc' \notin Drawing /\ pc' \notin Placing
    BY <2>1 DEF Placing, Late, Drawing
  <2>3. Laid
    BY <1>1, <2>2 DEF LaidInv
  <2> QED BY <1>1, <2>1, <2>2, <2>3, LaidKept, StepQuiet DEF RInv
<1> QED BY <1>2, <1>3, <1>4, <1>5, <1>6, <1>7, <1>8, <1>9 DEF Next

\* When the walk is over every block that can be reached has been renamed.
LEMMA AllReady ==
  ASSUME Laid, WInv, pc = "done"
  PROVE  \A b \in Reachable : \A i \in InstructionsOf(b) : Ready(i)
<1>1. WalkInv
  BY DEF WInv, Late
<1>2. stack = <<>> /\ 1 \in visited /\ visited \subseteq Reachable /\ \A b \in visited : Succ(b) \subseteq visited
  BY <1>1 DEF WalkInv
<1>3. Reachable \in SUBSET Blocks /\ 1 \in Blocks /\ Drawn
  BY HouseFacts
<1>4. PICK V \in SUBSET Blocks : V = visited
  BY <1>2, <1>3
<1>5. 1 \in V /\ \A b \in V : Succ(b) \subseteq V
  BY <1>2, <1>4
<1>6. \A P \in SUBSET Blocks : 1 \in P /\ (\A b \in P : Succ(b) \subseteq P) => Reachable \subseteq P
  BY <1>3, AroundFacts
<1>7. Reachable \subseteq V
  BY <1>5, <1>6
<1>8. \A b \in Reachable : \A i \in InstructionsOf(b) : BlockForInstruction(i) = b
  BY <1>3, HouseFacts
<1> QED BY <1>2, <1>4, <1>7, <1>8 DEF Ready

LEMMA NamesMeant ==
  ASSUME Laid, WInv, pc = "done", NEW r \in Registers, Tracked(r), MeetInPhis(r)
  PROVE  NamesReach(r)
<1> DEFINE reached == [d \in Leaving(r) |-> ReachedBy(d, r)]
           reaching(b, i) == IF Before(b, i, r) # {} THEN Latest(Before(b, i, r)) ELSE {d \in Leaving(r) : b \in reached[d]}
<1>1. Linked /\ Housed /\ OneEach(r) /\ Reachable \in SUBSET Blocks
  BY HouseFacts, OneEachFacts DEF Laid
<1>2. PhisDefine(r)
  BY DEF PhisDefine, Laid, PhisThere, DefinitionsIn
<1>3. ASSUME NEW b \in Reachable, NEW i \in InstructionsOf(b), NEW k \in DOMAIN code[i].uses,
             code[i].uses[k].id = r, code[i].kind # "phi", Before(b, i, r) = {} => b \notin Undefined(r)
      PROVE  \E d \in reaching(b, i) : reaching(b, i) = {d} /\ VersionAt(d, r) = code[i].uses[k].version
  <2>1. PICK v : v = code[i].uses[k].version
    OBVIOUS
  <2>2. UsesFit(r)
    BY DEF WInv, Late, UsesInv
  <2>3. Ready(i)
    BY AllReady
  <2>4. Meant(b, i, v, r)
    BY <1>3, <2>1, <2>2, <2>3 DEF UsesFit
  <2>5. CASE Before(b, i, r) # {}
    <3>1. PICK d \in Before(b, i, r) : VersionAt(d, r) = v
      BY <2>4, <2>5 DEF Meant
    <3>2. Before(b, i, r) = {d}
      <4>1. \A j \in Before(b, i, r) : j = d
        BY <1>1 DEF Before, OneEach
      <4> QED BY <4>1
    <3>3. d \in Nat
      <4>1. d \in InstructionsOf(b) /\ b \in Blocks
        BY <1>1 DEF Before, DefinitionsIn
      <4> QED BY <1>1, <4>1 DEF Housed
    <3>4. Latest({d}) = {d}
      <4>1. d <= d
        BY <3>3
      <4> QED BY <4>1 DEF Latest
    <3> QED BY <2>1, <2>5, <3>1, <3>2, <3>4
  <2>6. CASE Before(b, i, r) = {}
    <3>1. b \notin Undefined(r)
      BY <1>3, <2>6
    <3>2. PICK d \in Leaving(r) : VersionAt(d, r) = v /\ b \in ReachedBy(d, r)
      BY <2>4, <2>6, <3>1 DEF Meant
    <3>3. r \notin phis[b]
      <4> SUFFICES ASSUME r \in phis[b] PROVE FALSE
        OBVIOUS
      <4>1. b \in Blocks
        BY <1>1
      <4>2. PICK j \in InstructionsOf(b) : code[j].kind = "phi" /\ Defines(j, r)
        BY <4>1 DEF Laid, PhisThere
      <4>3. i \in Nat /\ j \in Nat
        BY <1>1, <4>1 DEF Housed
      <4>4. CASE i < j
        <5>1. code[i].kind = "phi" \/ code[i].uses = <<>>
          BY <4>1, <4>2, <4>4 DEF Laid, PhisFirst
        <5>2. code[i].uses = <<>>
          BY <1>3, <5>1
        <5>3. k \in DOMAIN << >>
          BY <5>2
        <5> QED BY <5>3
      <4>5. CASE j < i
        <5>1. j \in Before(b, i, r)
          BY <4>2, <4>5 DEF Before, DefinitionsIn
        <5> QED BY <2>6, <5>1
      <4>6. CASE i = j
        BY <1>3, <4>2, <4>6
      <4> QED BY <4>3, <4>4, <4>5, <4>6
    <3>4. \A e \in Leaving(r) : b \in ReachedBy(e, r) => e = d
      BY <1>1, <1>2, <3>1, <3>2, <3>3, OneReaches
    <3>5. {e \in Leaving(r) : b \in reached[e]} = {d}
      BY <3>2, <3>4
    <3>6. reaching(b, i) = {d}
      BY <2>6, <3>5
    <3> QED BY <2>1, <3>2, <3>6
  <2> QED BY <2>5, <2>6
<1> QED BY <1>3 DEF NamesReach, Before

\* Of every function and at every step: the code stays laid out as it was when phis came
\* in, and the walk has its names as WInv says (builder.cpp:824-974).
THEOREM RenamingInvariance == Spec => [](DInv /\ RInv)
<1>1. Init => DInv /\ RInv
  <2>1. Init => DInv
    BY DEF Init, DInv, GraphInv, DominateInv, ExactInv
  <2> QED BY <2>1, RInvInit
<1>2. IInv /\ (DInv /\ RInv) /\ [Next]_vars => (DInv /\ RInv)'
  BY DInvNext, RInvNext
<1> QED BY <1>1, <1>2, Invariance, PTL DEF Spec

(***************************************************************************)
(* Every operand of a register that is assigned first on every way has the *)
(* version of the one definition that reaches it, wherever definitions     *)
(* meet in phis: though rename walks the connections and gives a block the *)
(* names of whichever way it comes first (builder.cpp:824-974).            *)
(***************************************************************************)
THEOREM NamesAreReaching == Spec => []UsesReachingDefinition
<1>1. RInv => UsesReachingDefinition
  <2> SUFFICES ASSUME LaidInv, WInv, pc = "done" PROVE UsesReachingDefinition
    BY DEF RInv, UsesReachingDefinition
  <2>1. Laid
    BY DEF LaidInv, Drawing
  <2> QED BY <2>1, NamesMeant DEF UsesReachingDefinition
<1> QED BY <1>1, RenamingInvariance, PTL

-----------------------------------------------------------------------------
\* What the other invariants leave out of the types.
TypeInv ==
  /\ pc = "blocks" => blocks = <<>>
  /\ visited \subseteq Blocks /\ \A k \in DOMAIN stack : stack[k].block \in Blocks
  /\ frontiers \in [Blocks -> SUBSET Blocks]
  /\ pc \notin Drawing => dominators \in [Blocks -> Seq(Blocks)]
  /\ at \in 1..(Len(blocks) + 1) \cup {2} /\ changed \in BOOLEAN
  /\ todo \subseteq Registers /\ work \in Seq(Blocks) /\ seen \subseteq Blocks /\ joins \subseteq Blocks

LEMMA TypeInit == Init => TypeInv
<1> SUFFICES ASSUME Init PROVE TypeInv
  OBVIOUS
<1>1. /\ pc = "blocks" /\ blocks = <<>> /\ visited = {} /\ stack = <<>> /\ at = 1 /\ changed = FALSE
      /\ frontiers = <<>> /\ todo = {} /\ work = <<>> /\ seen = {} /\ joins = {}
  BY DEF Init
<1>2. Blocks = {} /\ Len(blocks) = 0
  BY <1>1 DEF Blocks
<1>3. frontiers \in [Blocks -> SUBSET Blocks]
  BY <1>1, <1>2
<1>4. at \in 1..(Len(blocks) + 1) \cup {2}
  BY <1>1, <1>2
<1>5. \A k \in DOMAIN stack : stack[k].block \in Blocks
  BY <1>1
<1>6. work \in Seq(Blocks) /\ changed \in BOOLEAN
  <2>1. \A S : << >> \in Seq(S)
    OBVIOUS
  <2>2. work \in Seq(Blocks)
    BY <1>1, <2>1, Zenon
  <2> QED BY <1>1, <2>2
<1> QED BY <1>1, <1>3, <1>4, <1>5, <1>6 DEF TypeInv, Drawing

\* A step that leaves all of that where it is.
LEMMA TypeSame ==
  ASSUME TypeInv, Blocks' = Blocks, Len(blocks') = Len(blocks), pc' # "blocks",
         pc' \notin Drawing => dominators' \in [Blocks -> Seq(Blocks)],
         visited' \subseteq Blocks, \A k \in DOMAIN stack' : stack'[k].block \in Blocks,
         frontiers' \in [Blocks -> SUBSET Blocks],
         at' \in 1..(Len(blocks) + 1) \cup {2}, changed' \in BOOLEAN,
         todo' \subseteq Registers, work' \in Seq(Blocks), seen' \subseteq Blocks, joins' \subseteq Blocks
  PROVE  TypeInv'
<1>1. (DOMAIN stack)' = DOMAIN stack'
  OBVIOUS
<1> QED BY <1>1 DEF TypeInv

LEMMA TypeNext ==
  ASSUME IInv, DInv, RInv, IInv', DInv', RInv', TypeInv, [Next]_vars
  PROVE  TypeInv'
<1>1. /\ pc = "blocks" => blocks = <<>>
      /\ visited \subseteq Blocks /\ \A k \in DOMAIN stack : stack[k].block \in Blocks
      /\ frontiers \in [Blocks -> SUBSET Blocks]
      /\ pc \notin Drawing => dominators \in [Blocks -> Seq(Blocks)]
      /\ at \in 1..(Len(blocks) + 1) \cup {2} /\ changed \in BOOLEAN
      /\ todo \subseteq Registers /\ work \in Seq(Blocks) /\ seen \subseteq Blocks /\ joins \subseteq Blocks
  BY DEF TypeInv
<1>2. CASE UNCHANGED vars
  <2>1. UNCHANGED <<pc, blocks, visited, stack, frontiers, dominators, at, changed, todo, work, seen, joins>>
    BY <1>2 DEF vars, graph, dominance, walking, placing
  <2> QED BY <2>1 DEF TypeInv, Blocks
<1>3. CASE GetBlocks
  <2>1. /\ pc = "blocks" /\ pc' = "connect"
        /\ frontiers' = [b \in DOMAIN Starts |-> {}] /\ DOMAIN blocks' = DOMAIN Starts
        /\ visited' = {1} /\ stack' = <<Call(1)>>
        /\ UNCHANGED <<at, dominators, changed, todo, work, seen, joins>>
    BY <1>3 DEF GetBlocks, dominance, placing
  <2>2. 1 \in Blocks' /\ Blocks' = DOMAIN Starts
    BY <2>1 DEF DInv, GraphInv, Blocks
  <2>3. Len(blocks') \in Nat
    <3>1. blocks' \in Seq(Stretch)
      BY <2>1 DEF IInv, CutInv, Cut, Partition
    <3> QED BY <3>1
  <2>4. blocks = <<>> /\ Blocks = {}
    BY <1>1, <2>1 DEF Blocks
  <2>5. at' \in 1..(Len(blocks') + 1) \cup {2}
    <3>1. at = 1 \/ at = 2
      BY <1>1, <2>4
    <3> QED BY <2>1, <2>3, <3>1
  <2>6. \A k \in DOMAIN stack' : stack'[k].block \in Blocks'
    <3>1. DOMAIN stack' = {1} /\ stack'[1].block = 1
      BY <2>1 DEF Call
    <3> QED BY <2>2, <3>1
  <2>7. seen' = {} /\ work' = <<>> /\ joins' = {} /\ todo' = {} /\ changed' \in BOOLEAN
    <3>1. work' = <<>> /\ joins' = {} /\ todo' = {}
      BY <2>1 DEF IInv, CodeInv
    <3> QED BY <1>1, <2>1, <2>4, <3>1
  <2>8. frontiers' \in [Blocks' -> SUBSET Blocks']
    BY <2>1, <2>2
  <2>9. pc' # "blocks" /\ pc' \in Drawing /\ visited' \subseteq Blocks'
    BY <2>1, <2>2 DEF Drawing
  <2>10. work' \in Seq(Blocks') /\ seen' \subseteq Blocks' /\ joins' \subseteq Blocks' /\ todo' \subseteq Registers
    BY <2>7
  <2> QED BY <2>5, <2>6, <2>7, <2>8, <2>9, <2>10 DEF TypeInv, Drawing
<1>4. CASE Connect \/ Connected
  <2>1. /\ pc' = "connect"
        /\ UNCHANGED <<blocks, frontiers, dominators, at, changed, todo, work, seen, joins>>
    BY <1>4 DEF Connect, Connected, graph, dominance, placing
  <2>2. Blocks' = Blocks
    BY <2>1 DEF Blocks
  <2>3. visited' \subseteq Blocks' /\ stack' \in Seq(Connecting')
    BY <2>1 DEF IInv, ConnectInv
  <2>4. \A k \in DOMAIN stack' : stack'[k].block \in Blocks
    <3>1. \A k \in DOMAIN stack' : stack'[k] \in Connecting'
      BY <2>3
    <3> QED BY <2>2, <3>1 DEF Connecting
  <2>5. pc' # "blocks" /\ pc' \in Drawing /\ Len(blocks') = Len(blocks)
    BY <2>1 DEF Drawing
  <2> QED BY <1>1, <2>1, <2>2, <2>3, <2>4, <2>5, TypeSame
<1>5. CASE StartDominators \/ Dominate
  <2>1. /\ pc' = "dominate" /\ ((pc = "connect" /\ at' = 2) \/ (at <= Len(blocks) /\ at' = at + 1))
        /\ UNCHANGED <<blocks, visited, stack, frontiers, todo, work, seen, joins>>
    BY <1>5 DEF StartDominators, Dominate, graph, placing
  <2>2. Blocks' = Blocks /\ Len(blocks') = Len(blocks) /\ pc' # "blocks"
    BY <2>1 DEF Blocks
  <2>3. dominators' \in [Blocks -> Seq(Blocks)]
    BY <2>1, <2>2 DEF DInv, DominateInv
  <2>4. changed' \in BOOLEAN
    BY <1>5, <1>1, Zenon DEF StartDominators, Dominate
  <2>5. at' \in 1..(Len(blocks) + 1) \cup {2}
    <3>1. Len(blocks) \in Nat
      BY <2>1, <2>2, BlockFacts DEF IInv, CutInv, CodeInv, Cut, StartDominators, Dominate
    <3> QED BY <1>1, <2>1, <3>1
  <2> QED BY <1>1, <2>1, <2>2, <2>3, <2>4, <2>5, TypeSame
<1>6. CASE DominateAgain \/ StartFrontiers \/ NextFrontier \/ StartRunner
  <2>1. /\ pc' \in {"dominate", "frontiers"} /\ pc \in {"dominate", "frontiers"}
        /\ at' = 2 \/ at' = 1 \/ at' = at \/ (at <= Len(blocks) /\ at' = at + 1)
        /\ changed' = FALSE \/ changed' = changed
        /\ UNCHANGED <<blocks, visited, stack, dominators, frontiers, todo, work, seen, joins>>
    BY <1>6 DEF DominateAgain, StartFrontiers, NextFrontier, StartRunner, graph, placing, dominance
  <2>2. Blocks' = Blocks /\ Len(blocks') = Len(blocks) /\ pc' # "blocks" /\ pc \notin Drawing
    BY <2>1 DEF Blocks, Drawing
  <2>3. Len(blocks) \in Nat
    BY <2>1, BlockFacts DEF IInv, CutInv, CodeInv, Cut
  <2>4. at' \in 1..(Len(blocks) + 1) \cup {2}
    BY <1>1, <2>1, <2>3
  <2>5. changed' \in BOOLEAN
    BY <1>1, <2>1
  <2> QED BY <1>1, <2>1, <2>2, <2>4, <2>5, TypeSame
<1>7. CASE Run
  <2>1. /\ pc' = "frontiers" /\ pc = "frontiers"
        /\ UNCHANGED <<blocks, visited, stack, dominators, at, changed, todo, work, seen, joins>>
    BY <1>7 DEF Run, graph, placing
  <2>2. Blocks' = Blocks /\ Len(blocks') = Len(blocks) /\ pc' # "blocks" /\ pc \notin Drawing
    BY <2>1 DEF Blocks, Drawing
  <2>3. frontiers' \in [Blocks' -> SUBSET Joining'] /\ Joining' \subseteq Blocks'
    BY <2>1 DEF IInv, FrontierInv, Cut, Joining
  <2>4. frontiers' \in [Blocks -> SUBSET Blocks]
    BY <2>2, <2>3
  <2> QED BY <1>1, <2>1, <2>2, <2>4, TypeSame
<1>8. CASE StartPhis \/ NextRegister \/ NextBlock \/ PlacePhi
  <2>1. /\ pc' = "phis" /\ pc \in {"frontiers", "phis"}
        /\ UNCHANGED <<visited, stack, dominators, frontiers, at, changed>>
        /\ conns' = conns /\ preds' = preds
        /\ UNCHANGED blocks \/ blocks' \in [Blocks -> {Moved(b, s) : b \in Blocks, s \in Blocks \cup joins}]
    <3>1. PlacePhi => UNCHANGED blocks \/ \E s \in joins : blocks' = [b \in Blocks |-> Moved(b, s)]
      BY DEF PlacePhi
    <3>2. (\E s \in joins : blocks' = [b \in Blocks |-> Moved(b, s)])
             => blocks' \in [Blocks -> {Moved(b, s) : b \in Blocks, s \in Blocks \cup joins}]
      <4> HIDE DEF Moved
      <4> QED OBVIOUS
    <3>3. ~PlacePhi => UNCHANGED blocks
      BY <1>8 DEF StartPhis, NextRegister, NextBlock, graph
    <3>4. /\ pc' = "phis" /\ pc \in {"frontiers", "phis"}
          /\ UNCHANGED <<visited, stack, dominators, frontiers, at, changed>>
          /\ conns' = conns /\ preds' = preds
      BY <1>8, Zenon DEF StartPhis, NextRegister, NextBlock, PlacePhi, graph, dominance
    <3> QED BY <3>1, <3>2, <3>3, <3>4
  <2>2. pc' # "blocks" /\ pc \notin Drawing
    BY <2>1 DEF Drawing
  <2>3. Len(blocks) \in Nat /\ Blocks = 1..Len(blocks)
    BY <2>1, BlockFacts DEF IInv, CutInv, CodeInv, Cut
  <2>4. blocks' \in Seq(Stretch)
    BY <2>1 DEF IInv, CutInv, Cut, Partition
  <2>5. DOMAIN blocks' = DOMAIN blocks
    BY <2>1 DEF Blocks
  <2>6. Blocks' = Blocks /\ Len(blocks') = Len(blocks)
    <3>1. Len(blocks') \in Nat /\ DOMAIN blocks' = 1..Len(blocks')
      BY <2>4
    <3>2. 1..Len(blocks') = 1..Len(blocks)
      BY <2>3, <2>5, <3>1 DEF Blocks
    <3>3. Len(blocks') = Len(blocks)
      BY <2>3, <3>1, <3>2
    <3> QED BY <2>5, <3>3 DEF Blocks
  <2>7. work' \in Seq(Blocks) /\ joins' \subseteq Blocks /\ todo' \subseteq Registers
    <3>1. /\ work' \in Seq(Blocks') /\ joins' \subseteq Joining' /\ Joining' \subseteq Blocks'
          /\ todo' \subseteq Registers
      BY <2>1 DEF IInv, PlaceInv, Joining
    <3> QED BY <2>6, <3>1
  <2>8. seen' \subseteq Blocks
    <3>1. seen' = seen \/ seen' = {} \/ \E s \in joins : seen' = seen \cup {s}
      BY <1>8 DEF StartPhis, NextRegister, NextBlock, PlacePhi
    <3> QED BY <1>1, <3>1
  <2> QED BY <1>1, <2>1, <2>2, <2>6, <2>7, <2>8, TypeSame
<1>9. CASE \/ StartRename \/ RenameFirst \/ RenameInstruction \/ RenameOperands \/ RenameNext \/ RenameReturns
           \/ RenameCrashes \/ Built
  <2>1. /\ pc' \in Late /\ pc \notin Drawing
        /\ UNCHANGED <<blocks, conns, preds, dominators, frontiers, at, changed, todo, work, seen, joins>>
    BY <1>9, Zenon DEF StartRename, RenameFirst, RenameInstruction, RenameOperands, RenameNext, RenameReturns,
         RenameCrashes, Built, Late, Drawing, graph, dominance, placing
  <2>2. Blocks' = Blocks /\ Len(blocks') = Len(blocks) /\ pc' # "blocks" /\ pc' \notin Drawing
    BY <2>1 DEF Blocks, Late, Drawing
  <2>3. WalkInv' /\ Laid'
    BY <2>1, <2>2 DEF RInv, WInv, LaidInv
  <2>4. Reachable' \subseteq Blocks'
    <3>1. Laid
      BY <2>1 DEF RInv, LaidInv
    <3> QED BY <2>1, <2>2, <3>1, HouseFacts, SameGraph
  <2>5. visited' \subseteq Blocks /\ stack' \in Seq(Calling')
    BY <2>2, <2>3, <2>4 DEF WalkInv
  <2>6. \A k \in DOMAIN stack' : stack'[k].block \in Blocks
    <3>1. \A k \in DOMAIN stack' : stack'[k] \in Calling'
      BY <2>5
    <3> QED BY <2>2, <3>1 DEF Calling
  <2> QED BY <1>1, <2>1, <2>2, <2>5, <2>6, TypeSame
<1> QED BY <1>2, <1>3, <1>4, <1>5, <1>6, <1>7, <1>8, <1>9 DEF Next

\* Blocks begin and end in the code, whatever instructions it has.
LEMMA BlocksInCode ==
  ASSUME Partition, Len(code) \in Nat, DOMAIN code = 1..Len(code)
  PROVE  \A b \in Blocks : blocks[b] \in [first : DOMAIN code, last : DOMAIN code]
<1> SUFFICES ASSUME NEW b \in Blocks PROVE blocks[b] \in [first : 1..Len(code), last : 1..Len(code)]
  OBVIOUS
<1>1. blocks[b] \in Stretch
  <2>1. blocks \in Seq(Stretch)
    BY DEF Partition
  <2> HIDE DEF Stretch
  <2> QED BY <2>1 DEF Blocks
<1>2. PICK x, y \in Nat : blocks[b] = [first |-> x, last |-> y]
  BY <1>1 DEF Stretch
<1>3. 1 <= x /\ x <= y /\ y <= Len(code)
  BY <1>2 DEF Partition
<1> QED BY <1>2, <1>3

LEMMA TypesFollow ==
  ASSUME IInv, DInv, RInv, TypeInv
  PROVE  TypeOK
<1>1. code \in Seq(Instruction)
  <2>1. CASE pc \in Drawing
    <3>1. code = fn.code /\ fn \in Functions
      BY <2>1 DEF IInv, CodeInv, Drawing
    <3> HIDE DEF Instruction
    <3> QED BY <3>1, FunctionsAssumption
  <2>2. CASE pc \notin Drawing
    BY <2>2 DEF RInv, LaidInv, Laid
  <2> QED BY <2>1, <2>2
<1>2. Len(code) \in Nat /\ DOMAIN code = 1..Len(code)
  <2> HIDE DEF Instruction
  <2> QED BY <1>1
<1>3. \A b \in Blocks : blocks[b] \in [first : DOMAIN code, last : DOMAIN code]
  <2>1. CASE pc = "blocks"
    BY <2>1 DEF TypeInv, Blocks
  <2>2. CASE pc # "blocks"
    <3>1. Partition
      BY <2>2 DEF IInv, CutInv, Cut, RInv, LaidInv, Laid, Drawing
    <3> QED BY <1>2, <3>1, BlocksInCode
  <2> QED BY <2>1, <2>2
<1>4. After("blocks") => pc # "blocks"
  BY DEF After, Phase
<1>5. After("connect") => pc \notin Drawing
  BY DEF After, Phase, Drawing
<1>6. pc # "blocks" => conns \in [Blocks -> Seq(Blocks)] /\ preds \in [Blocks -> Seq(Blocks)]
  <2>1. CASE pc = "connect"
    BY <2>1 DEF DInv, GraphInv, IInv, CutInv, Cut
  <2>2. CASE pc \notin Drawing
    BY <2>2 DEF RInv, LaidInv, Laid, Linked, Drawn
  <2> QED BY <2>1, <2>2 DEF Drawing
<1>7. pc # "blocks" => phis \in [Blocks -> SUBSET Registers]
  <2>1. CASE pc = "connect"
    <3>1. phis = [b \in Blocks |-> {}]
      BY <2>1 DEF IInv, CodeInv
    <3> QED BY <3>1
  <2>2. CASE pc \notin Drawing
    BY <2>2 DEF RInv, LaidInv, Laid
  <2> QED BY <2>1, <2>2 DEF Drawing
<1>8. Maps \in MapsType /\ \A r \in Registers : Maps.last[r] = <<>> \/ DOMAIN Maps.last[r] = {1}
  BY DEF RInv, WInv, Named
<1>9. Maps.counters = counters /\ Maps.names = names /\ Maps.last = last
  BY DEF Maps
<1>10. counters \in [Registers -> Nat] /\ names \in [Registers -> Seq(Name)] /\ last \in [Registers -> Seq(Name)]
  <2> DEFINE T == Seq(Name)
  <2>1. Maps.counters \in [Registers -> Nat] /\ Maps.names \in [Registers -> T] /\ Maps.last \in [Registers -> T]
    <3> HIDE DEF T, Maps
    <3> QED BY <1>8 DEF MapsType, T
  <2> QED BY <1>9, <2>1
<1>11. \A r \in Registers : Len(last[r]) <= 1 /\ last[r] \in Seq(Name)
  <2> SUFFICES ASSUME NEW r \in Registers PROVE Len(last[r]) <= 1 /\ last[r] \in Seq(Name)
    OBVIOUS
  <2>1. PICK s \in Seq(Name) : s = last[r]
    BY <1>10
  <2>2. s = <<>> \/ DOMAIN s = {1}
    BY <1>8, <1>9, <2>1
  <2>3. Len(s) \in Nat /\ DOMAIN s = 1..Len(s)
    <3> HIDE DEF Name
    <3> QED OBVIOUS
  <2>4. Len(s) <= 1
    <3>1. CASE s = <<>>
      BY <3>1
    <3>2. CASE DOMAIN s = {1}
      <4>1. 1..Len(s) = {1}
        BY <2>3, <3>2
      <4>2. Len(s) >= 2 => 2 \in 1..Len(s)
        BY <2>3
      <4> QED BY <2>3, <4>1, <4>2
    <3> QED BY <2>2, <3>1, <3>2
  <2> QED BY <2>1, <2>4
<1>12. register \in Registers
  BY DEF IInv, CodeInv
<1> HIDE DEF Instruction, Name
<1>13. /\ visited \subseteq Blocks /\ \A k \in DOMAIN stack : stack[k].block \in Blocks
       /\ frontiers \in [Blocks -> SUBSET Blocks]
       /\ pc \notin Drawing => dominators \in [Blocks -> Seq(Blocks)]
       /\ at \in 1..(Len(blocks) + 1) \cup {2} /\ changed \in BOOLEAN
       /\ todo \subseteq Registers /\ work \in Seq(Blocks) /\ seen \subseteq Blocks /\ joins \subseteq Blocks
  BY DEF TypeInv
<1> HIDE DEF After
<1> QED BY <1>1, <1>3, <1>4, <1>5, <1>6, <1>7, <1>10, <1>11, <1>12, <1>13 DEF TypeOK

(***************************************************************************)
(* The names of rename and the code it names, the graph and the ranges of  *)
(* blocks that phis move have their types in every state, so every look    *)
(* into one of them finds something, for every function.                   *)
(***************************************************************************)
THEOREM TypeCorrect == Spec => []TypeOK
<1>1. Init => TypeInv
  BY TypeInit
<1>2. IInv /\ IInv' /\ (DInv /\ RInv) /\ (DInv /\ RInv)' /\ TypeInv /\ [Next]_vars => TypeInv'
  BY TypeNext
<1>3. IInv /\ (DInv /\ RInv) /\ TypeInv => TypeOK
  BY TypesFollow
<1> QED BY <1>1, <1>2, <1>3, Invariance, RenamingInvariance, PTL DEF Spec

==============================================================================
