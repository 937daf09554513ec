-------------------------------- MODULE MCADC --------------------------------
\* Small graphs of expressions for TLC.
EXTENDS ADC, TLC

\* A diamond whose top is too large to be counted, with an expression on top of it.
Diamond == <<<<>>, <<1>>, <<1, 2>>, <<2, 3>>, <<4>>>>
Wide    == <<<<>>, <<>>, <<1, 2>>, <<1, 3>>, <<2, 4>>>>
MCGraphs == {Diamond, Wide}

\* The later operand comes before one it depends on itself.
Backward == <<<<>>, <<>>, <<1, 2>>, <<3, 1>>>>
MCBackward == {Backward}
=============================================================================
