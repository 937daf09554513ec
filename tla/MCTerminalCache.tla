--------------------------- MODULE MCTerminalCache ---------------------------
\* Small instances of the terminal cache for TLC.
EXTENDS TerminalCache, TLC

CONSTANT Large  \* the terminal whose coefficient alone exceeds the limit

Sizes == [t \in Terminal |-> IF t = Large THEN 3 ELSE 1]

\* The threads are interchangeable.
Symmetric == Permutations(Thread)
=============================================================================
