------------------------------ MODULE Peephole ------------------------------
(***************************************************************************)
(* Peephole::run of codegen/x86-64/peephole.cpp on the text of one         *)
(* function, as CodeGenerator::generate calls it when it optimizes: again  *)
(* until a pass changes nothing. The cursor keeps the end the text had     *)
(* when the pass began, so after an erasure it also visits slots that hold *)
(* instructions no more; stale has the opcodes found there. The function   *)
(* runs before and after.                                                  *)
(***************************************************************************)
EXTENDS InstructionSelection

VARIABLES
    phase,      \* "run", "optimize", "rerun" or "done"
    cursor,     \* the slot m_current is at
    limit,      \* the slot of m_end
    stale,      \* opcodes in the slots from the end of the text to limit
    change,     \* whether this pass changed the text
    fired,      \* the rules that did
    expected    \* the outcome of the first run

optimizer == <<cursor, limit, stale, change, fired>>

-----------------------------------------------------------------------------
(* Rules. The text t has instructions at c and c + 1 where a rule looks at *)
(* them; Erased is how many it takes out and Instead what it puts there.   *)

Opcode(t, c) == IF c \in DOMAIN t THEN t[c].op ELSE "end"

(* MoveResolver::operandEquals: types do not count, and two addresses      *)
(* without an index are never equal.                                       *)
OperandEquals(o1, o2) ==
    /\ o1.kind = o2.kind
    /\ CASE o1.kind = "reg" -> o1.reg = o2.reg
         [] o1.kind = "imm" -> o1.n = o2.n
         [] OTHER -> /\ o1.reg = o2.reg /\ o1.n = o2.n /\ o1.scale = o2.scale
                     /\ o1.index = o2.index /\ o1.index # ""

(* The amounts are read as numbers whatever they are; two neighbours with   *)
(* one target that are not moves of rsp are never emitted.                 *)
SameAmount(t, c) ==
    /\ OperandEquals(t[c].a, t[c + 1].a)
    /\ t[c].b.kind = "imm" /\ t[c + 1].b.kind = "imm" /\ t[c].b.n = t[c + 1].b.n

VainPushPop(t, c) ==
    Opcode(t, c) = "push" /\ Opcode(t, c + 1) = "pop" /\ t[c].a.reg = t[c + 1].a.reg
VainSubAdd(t, c) == Opcode(t, c) = "sub" /\ Opcode(t, c + 1) = "add" /\ SameAmount(t, c)
VainAddSub(t, c) == Opcode(t, c) = "add" /\ Opcode(t, c + 1) = "sub" /\ SameAmount(t, c)
VainMov(t, c)    == Opcode(t, c) \in {"mov", "movss"} /\ OperandEquals(t[c].a, t[c].b)
Overwrite(t, c)  ==
    Opcode(t, c) = "mov" /\ Opcode(t, c + 1) = "mov" /\ OperandEquals(t[c].a, t[c + 1].a)

Rules == <<"VainPushPop", "VainSubAdd", "VainAddSub", "VainMov", "Overwrite">>

Matches(rule, t, c) ==
    CASE rule = "VainPushPop" -> VainPushPop(t, c)
      [] rule = "VainSubAdd"  -> VainSubAdd(t, c)
      [] rule = "VainAddSub"  -> VainAddSub(t, c)
      [] rule = "VainMov"     -> VainMov(t, c)
      [] rule = "Overwrite"   -> Overwrite(t, c)

Erased_OneMore(rule) == CASE rule = "VainAddSub" -> 3 [] rule = "Overwrite" -> 2 [] OTHER -> 1

(* The spans of the first two end before the second instruction.           *)
Erased(rule) == IF rule \in {"VainAddSub", "Overwrite"} THEN 2 ELSE 1
Instead_First(rule, t, c) == IF rule = "Overwrite" THEN <<t[c]>> ELSE <<>>
Instead(rule, t, c) == IF rule = "Overwrite" THEN <<t[c + 1]>> ELSE <<>>

(* The second instruction of an overwrite may read what the first writes.  *)
OverwriteReads(t, c) == t[c + 1].b.kind # "imm" /\ t[c].a.reg \in {t[c + 1].b.reg, t[c + 1].b.index}
Kind(rule, t, c) ==
    IF rule = "Overwrite" /\ OverwriteReads(t, c) THEN "OverwriteRead" ELSE rule

(* The text moves down over what is taken out and leaves its last          *)
(* instructions behind it.                                                 *)
Fire(rule, s) ==
    LET out  == Erased(rule) - Len(Instead(rule, s.text, s.cursor))
        left == [k \in 1..out |-> s.text[Len(s.text) - out + k].op]
    IN  [text   |-> SubSeq(s.text, 1, s.cursor - 1) \o Instead(rule, s.text, s.cursor)
                       \o SubSeq(s.text, s.cursor + Erased(rule), Len(s.text)),
         cursor |-> IF s.cursor > 1 THEN s.cursor - 1 ELSE 1,
         stale  |-> left \o s.stale,
         fired  |-> s.fired \union {Kind(rule, s.text, s.cursor)}]

Try(s, rule) == IF Matches(rule, s.text, s.cursor) THEN Fire(rule, s) ELSE s

-----------------------------------------------------------------------------
(* What the caller can tell: that it is back, the value, the memory that   *)
(* is not the function's frame.                                            *)
Outcome(m) ==
    [back   |-> Back(m),
     result |-> IF "%return" \in Vars THEN ValueOf("%return", m) ELSE <<>>,
     memory |-> [place \in {q \in DOMAIN m.memory : q[1] # Frame} |-> m.memory[place]]]

InitOptimized ==
    /\ Init
    /\ phase = "run"
    /\ cursor = 0 /\ limit = 0 /\ stale = <<>> /\ change = FALSE /\ fired = {}
    /\ expected = <<>>

FirstRun ==
    /\ phase = "run"
    /\ Step
    /\ UNCHANGED <<phase, optimizer, expected>>

(* Peephole::run begins. *)
Pass(t) == cursor' = 1 /\ limit' = Len(t) /\ stale' = <<>> /\ change' = FALSE

Optimize ==
    /\ phase = "run" /\ machine.pc = 0
    /\ phase' = "optimize"
    /\ expected' = Outcome(machine)
    /\ Pass(text)
    /\ UNCHANGED <<vars, fired>>

(* The rules in turn, each where the one before left the cursor.           *)
Scan ==
    /\ phase = "optimize" /\ cursor # limit + 1
    /\ LET s == FoldLeft(Try, [text |-> text, cursor |-> cursor, stale |-> stale, fired |-> fired],
                         Rules)
       IN  /\ text' = s.text
           /\ cursor' = s.cursor + 1
           /\ stale' = s.stale
           /\ fired' = s.fired
           /\ change' = (change \/ s.text # text)
    /\ UNCHANGED <<phase, limit, expected, program, homes, places, machine, settled, zero>>

Again ==
    /\ phase = "optimize" /\ cursor = limit + 1 /\ change
    /\ Pass(text)
    /\ UNCHANGED <<phase, fired, expected, vars>>

Optimized ==
    /\ phase = "optimize" /\ cursor = limit + 1 /\ ~change
    /\ phase' = "rerun"
    /\ machine' = Start
    /\ UNCHANGED <<optimizer, expected, program, homes, places, text, settled, zero>>

SecondRun ==
    /\ phase = "rerun" /\ machine.pc > 0
    /\ machine' = Execute(machine, text, zero)
    /\ UNCHANGED <<phase, optimizer, expected, program, homes, places, text, settled, zero>>

Stopped ==
    /\ phase = "rerun" /\ machine.pc <= 0
    /\ UNCHANGED <<phase, optimizer, expected, vars>>

NextOptimized ==
    FirstRun \/ Optimize \/ Scan \/ Again \/ Optimized \/ SecondRun \/ Stopped

SpecOptimized == InitOptimized /\ [][NextOptimized]_<<phase, optimizer, expected, vars>>

-----------------------------------------------------------------------------
(* Properties *)

(* Two of the rules, and one when its second instruction reads, do not     *)
(* keep what the code does (see the hazards).                              *)
WrongRules == {"VainPushPop", "VainSubAdd", "OverwriteRead"}

(* The optimized text has the outcome of the text that was generated,      *)
(* unless a rule that is wrong was applied to it.                          *)
PeepholeKeepsOutcome ==
    phase = "rerun" /\ machine.pc <= 0 /\ fired \intersect WrongRules = {} =>
        Outcome(machine) = expected

(* At the end of the text, and past it where a pass still goes after an    *)
(* erasure, no rule finds an opcode that makes it read operands or the     *)
(* next slot: what is there are instructions that were moved from.         *)
OpcodeAt(c) == IF c <= Len(text) THEN text[c].op ELSE stale[c - Len(text)]
ReadsInBounds ==
    phase = "optimize" /\ cursor \in Len(text)..limit =>
        OpcodeAt(cursor) \notin {"push", "sub", "add", "mov", "movss"}
=============================================================================
