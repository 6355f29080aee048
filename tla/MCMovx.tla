------------------------------- MODULE MCMovx -------------------------------
\* One-bit bytes and addresses; the delays of top.h.
EXTENDS Movx

BothDelays == [xreg |-> 0, xrambig |-> 2]

Uses(allowed) == {i \in Instructions : i.op \in {"NOP", "INC_A"} \/ <<i.op, i.r>> \in allowed}

\* Programs that move and use DPTR, that store through R0 and load through both
\* R0 and R1, and that use both memories with pointers at rest.
SomePrograms ==
    { Uses({"load", "store", "MOV"} \X {"DPTR"}),
      Uses(({"load", "store", "MOV"} \X {"R0"}) \cup {<<"load", "R1">>}),
      Uses({"load", "store"} \X {"DPTR", "R0"}) }

\* A program that stores through both registers of the memory without delay.
TwoPointerPrograms == {Uses({<<"store", "R0">>, <<"store", "R1">>, <<"load", "R1">>,
                             <<"MOV", "R1">>})}
=============================================================================
