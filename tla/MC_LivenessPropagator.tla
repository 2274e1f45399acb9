----------------------- MODULE MC_LivenessPropagator -----------------------
\* Functions of a few shapes around one variable: if and else, the rotated
\* while loop of the IR with two ifs in its body, and a loop left by a return.
EXTENDS LivenessPropagator

MC_Ids == {"v", "p"}

Label == [kind |-> "label", to |-> 0, operands |-> <<>>]
Return == [kind |-> "return", to |-> 0, operands |-> <<>>]
Goto(i) == [kind |-> "jump", to |-> i, operands |-> <<>>]
Operands(role) == IF role = "none" THEN <<>> ELSE <<[id |-> "v", role |-> role]>>
Branch(i, role) == [kind |-> "branch", to |-> i, operands |-> Operands(role)]
Op(role) == [kind |-> "other", to |-> 0, operands |-> Operands(role)]

Any == {"none", "set", "update", "result", "read", "pointed"}
Some == {"none", "set", "read"}

IfElse ==
  {<<Label, Op(a), Op(b), Branch(7, t), Op(c), Goto(9), Label, Op(d), Label, Op(e), Return>> :
     a \in Any, b \in Any, t \in {"none", "test"}, c \in Some, d \in {"none", "set", "pointed"}, e \in {"none", "read", "pointed"}}
While ==
  {<<Label, Op(a), Goto(13), Label, Branch(7, "none"), Op(b), Label, Op(c), Op(d), Branch(12, "none"), Op("none"),
     Label, Label, Op(e), Branch(4, "none"), Label, Op(g), Return>> :
     a \in {"none", "set", "result"}, b \in Some, c \in Some, d \in {"none", "pointed", "update"}, e \in {"none", "read", "test"}, g \in {"none", "read"}}
WhileThenUse ==
  {<<Label, Goto(11), Label, Branch(6, "none"), Op(a), Label, Op(b), Op(c), Label, Op(d), Label, Branch(3, "none"), Label, Op(e), Return>> :
     a \in Some, b \in {"none", "set"}, c \in Any, d \in {"none", "read"}, e \in {"none", "read"}}
LoopWithReturn ==
  {<<Label, Op(a), Label, Op(b), Branch(8, "none"), Op(c), Return, Label, Op(d), Branch(3, "none"), Op(e), Return>> :
     a \in {"none", "set"}, b \in Some, c \in Some, d \in Any, e \in {"none", "read"}}

\* A loop that is entered at two places: what comes in is not filled into both.
TwoEntries ==
  {<<Label, Op(a), Branch(8, "none"), Label, Op("none"), Label, Op("none"), Label, Op("none"), Branch(6, "none"), Label, Op("read"), Return>> :
     a \in {"none", "result"}}

\* The variable is the index of an address whose base is p.
Indexed ==
  {<<Label, Op("set"), [kind |-> "other", to |-> 0, operands |-> <<[id |-> "p", role |-> "read"], [id |-> "v", role |-> "index"]>>],
     Op(a), Return>> : a \in Any}

Codes == TwoEntries \cup IfElse \cup While \cup WhileThenUse \cup LoopWithReturn

MC_Functions ==
  [code : Codes, params : {<<>>, <<"v">>}, retains : {{}}]
    \cup [code : LoopWithReturn, params : {<<>>}, retains : {{"v"}}]
    \cup [code : Indexed, params : {<<"p">>, <<"v", "p">>}, retains : {{}, {"p"}}]
=============================================================================
