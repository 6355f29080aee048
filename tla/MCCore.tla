------------------------------- MODULE MCCore -------------------------------
\* The field arithmetic unit at the width it is built with, GF(256).
EXTENDS Core

\* Zero, every single bit (of which each operand is a sum), and the operands
\* 202 and 170 of io_port.c.
SomeOperands == {{}, {1, 3, 6, 7}, {1, 3, 5, 7}} \cup {{k} : k \in 0 .. M - 1}

\* Its polynomial, 27.
OnePoly == {{0, 1, 3, 4}}
=============================================================================
