----------------------------- MODULE MCEvaluator -----------------------------
\* Small instances of the conversation with Fermat for TLC.
EXTENDS Evaluator, TLC
=============================================================================
