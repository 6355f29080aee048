-------------------------------- MODULE IoPort --------------------------------
(***************************************************************************)
(* The demonstration firmware io_port.c, as the sequence of bytes it puts  *)
(* on its two output ports.  A MOV direct,#data takes one clock, nothing   *)
(* interrupts it, and when main returns it jumps to itself.                *)
(***************************************************************************)
EXTENDS Integers, Sequences

VARIABLES frame,    \* the bytes main sends
          sent,     \* 0: P0 is not written yet; k: k - 1 bytes are sent
          P0, P1

cpuVars == <<frame, sent, P0, P1>>

\* The start-up code and init, for as long as they take.
Boot == sent = 0 /\ UNCHANGED cpuVars

Announce == sent = 0 /\ P0' = 1 /\ sent' = 1 /\ UNCHANGED <<frame, P1>>

\* Seeded fault: an instruction more between two writes to P1.
Fault_SendByte == /\ sent \in 1 .. 6
                  /\ \/ P1' = frame[sent] /\ sent' = sent + 1
                     \/ UNCHANGED <<P1, sent>>
                  /\ UNCHANGED <<frame, P0>>

SendByte == /\ sent \in 1 .. 6
            /\ P1' = frame[sent] /\ sent' = sent + 1 /\ UNCHANGED <<frame, P0>>

\* P0 is never written again.
Exit == sent = 7 /\ UNCHANGED cpuVars

Firmware == Boot \/ Announce \/ SendByte \/ Exit
===============================================================================
