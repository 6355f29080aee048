------------------------------ MODULE UnitSpec ------------------------------
(***************************************************************************)
(* What every arithmetic unit of the accelerator promises its client: the  *)
(* start/finish handshake that CORE, PN, PD and PA share.  The client      *)
(* raises start and keeps the operand stable; a fixed number of clock      *)
(* edges later the unit shows, for exactly one cycle, finish together with *)
(* the result, and on the edge that ends that cycle it is ready again.     *)
(* Start is ignored while the unit works.                                  *)
(***************************************************************************)
EXTENDS Naturals

CONSTANTS Result(_),      \* the function of the operand the unit computes
          Latency(_),     \* edges from the accepting one to the result
          NoResult        \* the value on the output when finish is low

VARIABLES phase,          \* "idle", "busy" or "done" (finish is high)
          left,           \* edges left until the result shows
          res,            \* the output
          start,          \* input: the request level
          arg,            \* input: the operand
          rst_n           \* input: reset, active low

uvars == <<phase, left, res, start, arg, rst_n>>

Rest == phase = "idle" /\ ~start /\ UNCHANGED <<phase, left, res>>

Accept == /\ phase = "idle" /\ start
          /\ phase' = "busy" /\ left' = Latency(arg) /\ UNCHANGED res

Work == phase = "busy" /\ left > 1 /\ left' = left - 1 /\ UNCHANGED <<phase, res>>

Complete == /\ phase = "busy" /\ left = 1
            /\ phase' = "done" /\ left' = 0 /\ res' = Result(arg)

Release == phase = "done" /\ phase' = "idle" /\ res' = NoResult /\ UNCHANGED left

\* One clock edge of the unit as its client sees it.
Edge == Rest \/ Accept \/ Work \/ Complete \/ Release

\* The unit's registers after reset.
Quiet == phase = "idle" /\ left = 0 /\ res = NoResult

Abort == phase' = "idle" /\ left' = 0 /\ res' = NoResult

-----------------------------------------------------------------------------
(***************************************************************************)
(* The unit as a closed specification, with the client it relies on: an    *)
(* operand changes only while the unit is idle and unasked, or on the edge *)
(* that ends the finish cycle.                                             *)
(***************************************************************************)
Init == Quiet /\ ~start /\ ~rst_n

InFlight == phase = "busy" \/ (phase = "idle" /\ start)

Clock == rst_n /\ rst_n' /\ Edge /\ (InFlight => arg' = arg)

Reset == ~rst_n' /\ Abort /\ ~start'

Rise == ~rst_n /\ rst_n' /\ ~start' /\ UNCHANGED <<phase, left, res>>

Next == Clock \/ Reset \/ Rise

Safety == Init /\ [][Next]_uvars

\* Unless it is reset, a unit that accepted an operand shows its result.
Answers == phase = "busy" ~> (phase = "done" \/ ~rst_n)

Spec == Safety /\ Answers
=============================================================================
