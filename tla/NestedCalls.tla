---------------------------- MODULE NestedCalls ----------------------------
(***************************************************************************)
(* What an interrupt system of two priorities promises a program: service  *)
(* routines nest like subroutine calls, a routine is interrupted only by   *)
(* one of higher priority, and each returns to where it was called.        *)
(***************************************************************************)
EXTENDS Sequences, Naturals

CONSTANTS Address, Start     \* Start: where a reset sends the program

VARIABLES pc, frames        \* frames: the routines in progress, outermost first

nvars == <<pc, frames>>

Levels == {"low", "high"}
Frame == [level : Levels, ret : Address]

Init == pc = Start /\ frames = <<>>

\* The program or a routine runs, jumps or waits.
Step == pc' \in Address /\ UNCHANGED frames

MayCall(level) ==
    \A i \in 1 .. Len(frames) : frames[i].level = "low" /\ level = "high"

Call(level) == /\ MayCall(level)
               /\ frames' = Append(frames, [level |-> level, ret |-> pc])
               /\ pc' \in Address

Return == \E top \in Frame :
             frames = Append(frames', top) /\ pc' = top.ret

Reset == pc' = Start /\ frames' = <<>>

Next == Step \/ (\E level \in Levels : Call(level)) \/ Return \/ Reset

Spec == Init /\ [][Next]_nvars
=============================================================================
