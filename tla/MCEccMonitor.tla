---------------------------- MODULE MCEccMonitor ----------------------------
\* Two-bit bytes; the frames leave no byte equal to its neighbours' only.
EXTENDS EccMonitor

SomeFrames ==
    {<<n, inf, x, y, a, p>> :
        n \in {1, 2}, inf \in {0, 1}, x \in {0, 2, 3}, y \in {1, 3},
        a \in {0, 1}, p \in {1, 2}}

\* Every part of the result depends on several operands.
Mix(op) == [inf |-> (op.n + op.P.inf) % 2,
            x   |-> (op.P.x + op.a + op.n) % 4,
            y   |-> (op.P.y + op.p) % 4]
=============================================================================
