------------------------------ MODULE Weights ------------------------------
(* What the compute program user/P5.c computes: how many bits of a number are *)
(* set, for the numbers its main loop runs through.                           *)
EXTENDS Integers, FiniteSets, Bitwise

CONSTANT Weighed     \* numbers for weight

ASSUME WeightsAssumption == Weighed \subseteq 2 ^ 8 .. 2 ^ 24 - 1

\* Wrong on purpose: masked once, after the addition, as only larger fields may be.
AddedThenMasked(x, n, mask) == (x + (x \div 2 ^ n)) & mask

\* neighbouring fields of n bits, selected by mask, are added
Added(x, n, mask) == (x & mask) + ((x \div 2 ^ n) & mask)

\* masks 0x55555555, 0x33333333, 0x0F0F0F0F, 0x00FF00FF and 0x0000FFFF
weight(x) ==
  Added(Added(Added(Added(Added(x, 1, 1431655765), 2, 858993459), 4, 252645135),
              8, 16711935), 16, 65535)

----------------------------------------------------------------------------
(* Properties *)

Ones(x) == Cardinality({k \in 0 .. 23 : (x \div 2 ^ k) % 2 = 1})

(* P5 counts the bits that are set (user/P5.c).                               *)
BitsCounted == \A x \in Weighed : weight(x) = Ones(x)

=============================================================================
