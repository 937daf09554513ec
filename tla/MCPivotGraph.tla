---------------------------- MODULE MCPivotGraph ----------------------------
\* Small systems of identities for TLC.
EXTENDS PivotGraph

\* The pivots are numbers here, and their orders the same.
Identity == [i \in Pivot |-> i]

\* Identities over these integrals, every coefficient being one.
Of(heads) == [c \in heads |-> 1]

\* Systems in which edges cancel, alone and several at once, pivots depend on each other
\* in circles, and the edge of a pivot to itself may vanish.
DenseSystems ==
  {<<Of(a), Of(b), Of(c), Of(d)>> :
     a \in {{1, 2, 3, 5}, {1, 2}},
     b \in {{2, 3, 5}, {1, 2}, {1, 2, 4}},
     c \in {{3, 5}, {2, 3, 4, 5}},
     d \in {{1, 2, 3, 4}, {2, 3, 4}}}
=============================================================================
