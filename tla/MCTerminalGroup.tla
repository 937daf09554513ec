-------------------------- MODULE MCTerminalGroup --------------------------
\* Small instances of the terminal groups for TLC.
EXTENDS TerminalGroup
=============================================================================
