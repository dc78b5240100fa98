--------------------------- MODULE MCOutputBudget ---------------------------
EXTENDS OutputBudget

\* Around the lengths where the notice, the minimal and the bare result begin to
\* fit, where numbers gain a digit, and where results of fit_output lie.
MCEnvs == 0..3 \cup 45..72 \cup 88..94 \cup 147..157 \cup 325..375 \cup 1050..1062

Str(n, q, w) == [sort |-> "str", n |-> n, quotes |-> q, wide |-> w]
List(n)      == [sort |-> "list", n |-> n, quotes |-> 0, wide |-> 0]

MCValues == {Str(0, 0, 0), Str(12, 0, 0), Str(12, 3, 2), Str(60, 0, 4), Str(60, 60, 0),
             Str(100, 0, 0), Str(1000, 0, 0), Str(1000, 1000, 0), Str(60, 0, 60),
             List(1), List(9), List(25)}

MCAsked   == {0, 1, 91, 340, 350, Default}
MCPrinted == {0, 1, 950}
=============================================================================
