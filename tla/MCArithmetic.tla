---------------------------- MODULE MCArithmetic ----------------------------
EXTENDS Arithmetic

In(x, y) == [ten |-> x, five |-> y]

\* zero, one, alternating bits, the largest element, and numbers not below p
MCInputs == {In(0, 0), In(1, 1), In(357913941, 358613845), In(p - 1, Five!p - 1),
             In(p, Five!p), In(536870911, 536870911)}

MCInts == {2, 3}

MCScalarInputs == {0, 1, 3, Order \div 2, 1 + (Order \div 2), 43690, Order - 1, Order, 65535}
=============================================================================
