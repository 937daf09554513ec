--------------------------- MODULE MCCoefficientId ---------------------------
\* Numbers of a small word for TLC.
EXTENDS CoefficientId, TLC

\* The coefficients are interchangeable.
Symmetric == Permutations(Coefficient)
=============================================================================
