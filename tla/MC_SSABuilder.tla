-------------------------- MODULE MC_SSABuilder --------------------------
\* Functions of two or three locals, a pointer and a condition: one or two compound
\* statements with assignments in them, and what follows.
EXTENDS SSAOptimizer, SSALowering

x == Variable("x")
y == Variable("y")
z == Variable("z")
p == Variable("p")
c == Variable("c")
w == Variable("w")

Zero == Literal(0)
One == Literal(1)

Let(v, value) == [node |-> "declare", name |-> v, value |-> value, retain |-> FALSE]
Retain(v) == [node |-> "declare", name |-> v, value |-> Zero, retain |-> TRUE]
Array(v) == [node |-> "array", name |-> v]
Put(v, value) == [node |-> "set", name |-> v, value |-> value]
Sum(v, l, r) == [node |-> "sum", name |-> v, left |-> l, right |-> r]
Same(v, l, r) == [node |-> "test", name |-> v, left |-> l, right |-> r]
Negate(v, value) == [node |-> "not", name |-> v, value |-> value]
Either(v, l, r) == [node |-> "or", name |-> v, left |-> l, right |-> r]
Point(v, value) == [node |-> "address", name |-> v, value |-> value]
Read(v, l, r) == [node |-> "deref", name |-> v, left |-> l, right |-> r]
ReadElement(v, l, r) == [node |-> "element", name |-> v, left |-> l, right |-> r]
WriteElement(v, index, value) == [node |-> "storeat", name |-> v, index |-> index, value |-> value]
Write(v, value) == [node |-> "store", name |-> v, value |-> value]
Pre(v) == [node |-> "pre", name |-> v]
Post(v) == [node |-> "post", name |-> v]
CallIt(v, value) == [node |-> "call", name |-> v, value |-> value]
Loop(do, then) == [node |-> "while", condition |-> c, do |-> do, then |-> then]
Steps(v, increment, then) == [node |-> "for", initializer |-> Let(v, Zero), condition |-> c, increment |-> increment, then |-> then]
When(then, else) == [node |-> "if", condition |-> c, then |-> then, else |-> else]
Give(value) == [node |-> "return", value |-> value]
Continue == [node |-> "continue"]
Break == [node |-> "break"]

Simple == {Put(x, One), Put(y, x), Sum(x, x, y), Write(p, x)}
More == {Post(x), Pre(y), CallIt(x, y), Put(c, One)}
Leave == {Continue, Break, Give(x)}

Compound ==
  {When(<<s>>, e) : s \in Simple \cup More, e \in {<<>>} \cup {<<t>> : t \in Simple}}
    \cup {Loop(do, <<s>>) : do \in BOOLEAN, s \in Simple \cup More}
    \cup {Loop(FALSE, <<When(<<l>>, <<>>), s>>) : l \in Leave, s \in Simple}
    \cup {Loop(FALSE, <<When(<<s>>, <<Let(z, x), Put(z, One)>>)>>) : s \in Simple}
    \cup {Steps(z, s, <<t>>) : s \in {Sum(z, z, x), Post(z)}, t \in Simple \cup {When(<<Continue>>, <<>>)}}
    \cup {When(<<s, Give(y)>>, <<>>) : s \in Simple}
    \cup {When(<<Loop(FALSE, <<s>>)>>, e) : s \in Simple, e \in {<<>>, <<Put(y, x)>>}}
    \cup {Loop(do, <<s, Loop(FALSE, <<t>>)>>) : do \in BOOLEAN, s \in Simple, t \in {Put(x, y), Sum(y, x, y)}}
    \cup {When(<<When(<<s>>, <<t>>)>>, <<Put(x, y)>>) : s \in Simple, t \in {Put(y, x), Write(p, y)}}
\* Loops left where a block comes before its predecessors: dominators are lost in some.
Inside == {Loop(TRUE, <<>>), Loop(FALSE, <<>>), Loop(FALSE, <<Put(x, y)>>), When(<<Give(x)>>, <<>>)}
Left ==
  {Loop(FALSE, q) : q \in {<<When(<<Give(x)>>, <<>>)>>} \cup {<<Put(x, y), i, Put(y, x), Break>> : i \in Inside}}
    \cup {Loop(FALSE, <<i, l>>) : i \in Inside \cup {When(<<Loop(TRUE, <<>>)>>, <<>>)}, l \in {Break, Give(x)}}
Then == {Put(y, x), Loop(FALSE, <<Sum(x, x, y)>>), When(<<Put(x, y)>>, <<Write(p, y)>>)}

Bodies ==
  {<<Let(x, Zero), Let(y, Zero), s, Give(x)>> : s \in Compound}
    \cup {<<Let(x, Zero), Let(y, Zero), s, Put(y, x), Give(y)>> : s \in Left}
    \cup {<<Let(x, Zero), Loop(FALSE, <<Write(p, x)>>), Write(p, x), Give(x)>>}
    \cup {<<Let(x, Zero), Let(y, Zero), s, t, Give(x)>> : s \in {When(<<q>>, <<>>) : q \in Simple} \cup {Loop(TRUE, <<q>>) : q \in Simple}, t \in Then}
    \cup {<<Loop(TRUE, <<Let(x, p), s>>), Give(p)>> : s \in {Put(x, p), When(<<Write(p, One)>>, <<>>)}}
    \cup {<<Retain(x), Array(y), s, Give(x)>> : s \in {When(<<Put(x, One)>>, <<>>), Write(p, x)}}

\* For the passes: copies and sums in a row, with a variable in memory, in the arms of a
\* condition and in a loop.
Copying == {Put(y, x), Put(x, One), Sum(y, x, y), Sum(x, One, One), CallIt(x, z)}
Using == {Sum(z, x, y), Same(z, x, y), Negate(z, x), CallIt(z, y), Write(p, y), WriteElement(p, x, y), ReadElement(z, p, x)}
Pointing == {Read(z, y, One), Write(y, z), Put(x, One), Put(z, x), CallIt(z, x)}
Reading == {Read(z, y, One), Sum(z, z, x)}
Arm == {Put(y, x), Put(x, y), Sum(z, x, y), Negate(c, x)}

Locals == <<Let(x, p), Let(z, Zero), Let(y, c)>>
Rows ==
  {<<s, t, Sum(z, x, y)>> : s \in Copying, t \in Copying \cup Using}
    \cup {<<Point(y, x), s, t, u>> : s \in Pointing \cup {Sum(z, One, One)}, t \in Pointing, u \in Reading}
    \cup {<<When(<<s>>, <<t>>), u>> : s \in Arm, t \in Arm, u \in {Sum(z, x, y), Put(z, y)}}
    \cup {<<Sum(z, x, y), Loop(FALSE, <<s, t>>), Sum(z, z, y)>> : s \in Arm, t \in Arm \cup {Sum(x, x, One)}}
    \cup {<<Point(y, x), When(<<s>>, <<t>>), u>> : s \in {Read(z, y, One), Put(x, One)}, t \in {Write(y, c), Sum(z, z, x)}, u \in Reading}
    \cup {<<Loop(FALSE, <<Let(w, x), s, Sum(z, z, w)>>)>> : s \in {Put(x, One), Sum(x, x, One)}}
    \cup {<<Either(z, c, x)>>}

MC_Functions == {Function(<<c, p>>, b) : b \in Bodies \cup {Locals \o r \o <<Give(z)>> : r \in Rows}}
MC_Registers ==
  {Variable(v) : v \in {"x", "y", "z", "w", "p", "c", "mem", "return"}} \cup {Guard("x")} \cup {Temporary(n) : n \in 1..12}
MC_Mem == Memory
=============================================================================
