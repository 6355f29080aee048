------------------------------ MODULE Handshake ------------------------------
(***************************************************************************)
(* The start/finish handshake of UnitSpec without a promise about time:    *)
(* what SCALAR_MULT, whose run time depends on the scalar, keeps to ECC.   *)
(***************************************************************************)
CONSTANTS Result(_),      \* the function of the operand the unit computes
          NoResult        \* the value on the output when finish is low

VARIABLES phase,          \* "idle", "busy" or "done" (finish is high)
          res,            \* the output
          start,          \* input: the request level
          arg,            \* input: the operand
          rst_n           \* input: reset, active low

hvars == <<phase, res, start, arg, rst_n>>

Accept == phase = "idle" /\ start /\ phase' = "busy" /\ UNCHANGED res
Rest == phase = "idle" /\ ~start /\ UNCHANGED <<phase, res>>
Work == phase = "busy" /\ UNCHANGED <<phase, res>>
Complete == phase = "busy" /\ phase' = "done" /\ res' = Result(arg)
Release == phase = "done" /\ phase' = "idle" /\ res' = NoResult

\* One clock edge of the unit as its client sees it.
Edge == Accept \/ Rest \/ Work \/ Complete \/ Release

Quiet == phase = "idle" /\ res = NoResult

Init == Quiet /\ ~start /\ ~rst_n

InFlight == phase = "busy" \/ (phase = "idle" /\ start)

\* The operand of a request stays until its finish cycle has ended.
Clock == rst_n /\ rst_n' /\ Edge /\ (InFlight => arg' = arg)

Reset == ~rst_n' /\ phase' = "idle" /\ res' = NoResult /\ ~start'

Rise == ~rst_n /\ rst_n' /\ ~start' /\ UNCHANGED <<phase, res>>

Next == Clock \/ Reset \/ Rise

Safety == Init /\ [][Next]_hvars

\* Unless it is reset, a unit that accepted an operand shows its result.
Answers == phase = "busy" ~> (phase = "done" \/ ~rst_n)

Spec == Safety /\ Answers
==============================================================================
