------------------------------- MODULE MCAEF -------------------------------
\* Small instances of the evaluation facility for TLC.
EXTENDS AEFInvariant, TLC

\* Terminals and workers are interchangeable; used where no liveness is checked.
Symmetric == Permutations(Terminal) \cup Permutations(Worker)
=============================================================================
