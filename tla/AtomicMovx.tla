----------------------------- MODULE AtomicMovx -----------------------------
(***************************************************************************)
(* What MOVX promises a program: a load puts the byte last stored at the   *)
(* address into the accumulator, a store changes that byte and no other,   *)
(* each in one step, however long the memory takes.                        *)
(***************************************************************************)
EXTENDS Integers

CONSTANTS Range,        \* bytes and addresses are 0 .. Range - 1
          PointsInto    \* the memory each address register points into

VARIABLES acc,          \* the accumulator
          pointer,      \* the address registers
          data          \* the bytes of every memory

Pointers == DOMAIN PointsInto
Values == 0 .. Range - 1

\* A program computes in the accumulator,
Compute == acc' = (acc + 1) % Range /\ UNCHANGED <<pointer, data>>

\* moves an address register,
Point(r) == /\ \E v \in Values : pointer' = [pointer EXCEPT ![r] = v]
            /\ UNCHANGED <<acc, data>>

\* loads
Load(r) == acc' = data[PointsInto[r]][pointer[r]] /\ UNCHANGED <<pointer, data>>

\* and stores.
Store(r) == /\ data' = [data EXCEPT ![PointsInto[r]][pointer[r]] = acc]
            /\ UNCHANGED <<acc, pointer>>

Init == /\ acc = 0 /\ pointer \in [Pointers -> Values]
        /\ data \in [{PointsInto[r] : r \in Pointers} -> [Values -> Values]]

Next == Compute \/ \E r \in Pointers : Point(r) \/ Load(r) \/ Store(r)

avars == <<acc, pointer, data>>

Spec == Init /\ [][Next]_avars
=============================================================================
