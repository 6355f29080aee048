----------------------------- MODULE EccMonitor -----------------------------
(***************************************************************************)
(* The whole demonstration: the firmware, ECC and the monitor that watches *)
(* the four ports, prints what it sees and ends the simulation; or the     *)
(* firmware and ECC alone, which go on for ever.                           *)
(***************************************************************************)
EXTENDS EccPort

VARIABLES watched,    \* sc_main made an ECC_mon
          cnt,        \* ECC_mon.cnt
          inputs,     \* P1 in the lines printed as input
          outputs,    \* P2 in the lines printed as output
          stopped     \* sc_stop was called

monVars == <<watched, cnt, inputs, outputs, stopped>>

\* Seeded fault: one input line too few.
Fault_monitor ==
    \/ /\ P0 = 1 /\ cnt <= 5
       /\ inputs' = Append(inputs, P1) /\ cnt' = cnt + 1
       /\ UNCHANGED <<watched, outputs, stopped>>
    \/ /\ ~(P0 = 1 /\ cnt <= 5) /\ P3 = 1
       /\ outputs' = Append(outputs, P2) /\ cnt' = cnt + 1
       /\ stopped' = (cnt = 9)
       /\ UNCHANGED <<watched, inputs>>
    \/ ~(P0 = 1 /\ cnt <= 5) /\ P3 # 1 /\ UNCHANGED monVars

\* monitor, on the values the ports have before the clock edge.
monitor ==
    \/ /\ P0 = 1 /\ cnt <= 6
       /\ inputs' = Append(inputs, P1) /\ cnt' = cnt + 1
       /\ UNCHANGED <<watched, outputs, stopped>>
    \/ /\ ~(P0 = 1 /\ cnt <= 6) /\ P3 = 1
       /\ outputs' = Append(outputs, P2) /\ cnt' = cnt + 1
       /\ stopped' = (cnt = 9)
       /\ UNCHANGED <<watched, inputs>>
    \/ ~(P0 = 1 /\ cnt <= 6) /\ P3 # 1 /\ UNCHANGED monVars

MonInit == /\ Init /\ watched \in BOOLEAN
           /\ cnt = 0 /\ inputs = <<>> /\ outputs = <<>> /\ stopped = FALSE

MonNext == /\ ~stopped /\ Next
           /\ IF watched THEN monitor ELSE UNCHANGED monVars

MonFairness == /\ WF_<<vars, monVars>>(MonNext)
               /\ WF_<<vars, monVars>>(MonNext /\ Announce)
               /\ WF_<<vars, monVars>>(MonNext /\ Posedge /\ sm0!Complete)

MonSpec == MonInit /\ [][MonNext]_<<vars, monVars>> /\ MonFairness

-----------------------------------------------------------------------------
(***************************************************************************)
(* Properties.                                                             *)
(***************************************************************************)
\* What the demonstration prints: the byte on P1 when P0 rose, the six bytes
\* of the frame, and then the three bytes of the result for that frame and not
\* for the computation ECC begins on its own afterwards.
Report ==
    stopped => /\ inputs = <<0>> \o frame
               /\ outputs = [k \in 1 .. 3 |-> Part(Compute(Decode(frame)), k)]

\* The demonstration ends.
Ends == watched ~> stopped
=============================================================================
