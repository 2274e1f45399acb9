----------------------- MODULE MC_RegisterAllocator -----------------------
(***************************************************************************)
(* Small functions for RegisterAllocator: four general ids and one xmm id, *)
(* two usable general registers, one of which carries the parameter, and   *)
(* one usable xmm register.  The first block takes every combination of    *)
(* the intervals of Shapes; the second is one of SecondBlocks.             *)
(***************************************************************************)
EXTENDS RegisterAllocator

CONSTANTS a, b, c, d, x

MC_Ids == {a, b, c, d, x}
MC_Precision == {x}
MC_Registers == <<"rdi", "rsi", "r15">>
MC_PrecisionRegisters == <<"xmm0", "xmm15">>

\* The whole block, its two halves (which meet), a nested range with a hole.
Shapes == { {<<0, 5>>}, {<<0, 2>>}, {<<2, 5>>}, {<<1, 1>>, <<4, 4>>} }

AsBlock(vector, ranges, memory) ==
  [vector |-> vector,
   ranges |-> [n \in MC_Ids |-> IF n \in DOMAIN ranges THEN ranges[n] ELSE {}],
   memory |-> memory]

FirstBlocks ==
  { AsBlock(<<a, b, c, d>>, [n \in {a, b, c, d} |-> r[n]], mem) :
      r \in [{a, b, c, d} -> Shapes], mem \in {{}, {c}} }
  \cup { AsBlock(<<a, b, x>>, [n \in {a, b, x} |-> r[n]], {}) : r \in [{a, b, x} -> Shapes] }

SecondBlocks ==
  { AsBlock(<<d, b>>, [n \in {b, d} |-> {<<6, 8>>}], {}),
    AsBlock(<<c, a, d>>, [n \in {a, c, d} |-> IF n = d THEN {<<6, 7>>} ELSE {<<6, 8>>}], {}) }

MC_Functions ==
  { [args |-> args, blocks |-> <<b1, b2>>] :
      args \in {<<a>>, <<b, a>>}, b1 \in FirstBlocks, b2 \in SecondBlocks }
=============================================================================
