---------------------------- MODULE MCInterrupts ----------------------------
\* An external line and a timer; the timer, second in the order,
\* has the higher priority or the same.
EXTENDS Interrupts

Enables == {{}, {1, 2}}
Priorities == {{}, {2}}
=============================================================================
