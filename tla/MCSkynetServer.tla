---------------------------- MODULE MCSkynetServer --------------------------
EXTENDS SkynetServer

\* A worker that takes one message at a time and one that takes all there are.
TheWeights == [w \in Worker |-> IF w = CHOOSE x \in Worker : TRUE THEN 0 ELSE -1]
ThreeFirst == {8, 9, 10}
=============================================================================
