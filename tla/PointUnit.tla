------------------------------ MODULE PointUnit ------------------------------
(***************************************************************************)
(* What the two point units PD and PA have in common: a state machine that *)
(* runs a list of operations on its field unit core0, one per state, keeps *)
(* every output in a register, and owns a negation unit pn0.               *)
(***************************************************************************)
EXTENDS FieldUnit, PointArith, Sequences

\* One state of the list: the operation, its two operand lines, the register.
Op(mode, u, v, dst) == [mode |-> mode, u |-> u, v |-> v, dst |-> dst]

\* Outside the list the lines into core0 keep their last value.  core_start is
\* low then and CORE in state 0, so nobody looks at them: one value stands for all.
Idle == [mode |-> "add", a |-> Zero, b |-> Zero, p |-> Zero]

\* Edges from entering state k of a list of operations to leaving the list: an
\* operation costs its latency, the accepting edge and the edge that moves on.
EdgesFrom(program, k) ==
    LET cost(j) == CoreLatency([Idle EXCEPT !.mode = program[j].mode]) + 2
        sum[j \in 1 .. Len(program) + 1] ==
          IF j > Len(program) THEN 0 ELSE cost(j) + sum[j + 1]
    IN  sum[k]

\* PN: one addition in its own CORE; the infinity bit passes through.
PnResult(P) == [P EXCEPT !.y = Add(P.x, P.y)]
PnLatency(P) == CoreLatency(Idle)

\* No method of PD or PA writes the signal pn_P: it keeps its initial value.
pn_P == Origin

-----------------------------------------------------------------------------
(***************************************************************************)
(* PD: states 1 .. 10 run this list.                                       *)
(***************************************************************************)
PdProgram == << Op("inv", "Px", "0", "inv_x"),
                Op("mul", "Py", "inv_x", "temp_lamb"),
                Op("add", "Px", "temp_lamb", "lamb"),
                Op("mul", "lamb", "lamb", "lamb_2"),
                Op("mul", "Px", "Px", "x_2"),
                Op("add", "lamb_2", "lamb", "tempx0"),
                Op("add", "tempx0", "a", "P_ox"),
                Op("mul", "lamb", "P_ox", "lamb_X"),
                Op("add", "x_2", "lamb_X", "tempy0"),
                Op("add", "tempy0", "P_ox", "P_oy") >>

\* What PD computes, the missing negation included.
PdResult(r) == IF equal(r.P, Origin) \/ r.P.inf THEN AtInfinity(r.P)
               ELSE Tangent(r.P, r.a, r.p)

PdLatency(r) ==
    PnLatency(r.P) + (IF equal(r.P, Origin) \/ r.P.inf THEN 0
                      ELSE 1 + EdgesFrom(PdProgram, 1))

-----------------------------------------------------------------------------
(***************************************************************************)
(* PA: states 2 .. 14 run this list.                                       *)
(***************************************************************************)
PaProgram == << Op("add", "Px", "Qx", "Px_Qx"),
                Op("add", "Py", "Qy", "Py_Qy"),
                Op("inv", "Px_Qx", "0", "inv_Px_Qx"),
                Op("mul", "Py_Qy", "inv_Px_Qx", "lamb"),
                Op("mul", "lamb", "lamb", "lamb_2"),
                Op("add", "lamb_2", "lamb", "tempx0"),
                Op("add", "Px", "Qx", "tempx1"),
                Op("add", "tempx0", "tempx1", "tempx2"),
                Op("add", "tempx2", "a", "P_ox"),
                Op("add", "Px", "P_ox", "Px_X"),
                Op("mul", "lamb", "Px_X", "lamb_Px_X"),
                Op("add", "lamb_Px_X", "P_ox", "tempy0"),
                Op("add", "tempy0", "Py", "P_oy") >>

\* What PA computes, the missing negation included.
PaResult(r) ==
    CASE equal(r.P, r.Q) -> PdResult([P |-> r.P, a |-> r.a, p |-> r.p])
      [] ~equal(r.P, r.Q) /\ equal(r.P, Origin) -> AtInfinity(r.P)
      [] OTHER -> IF r.P.inf THEN r.Q ELSE IF r.Q.inf THEN r.P
                  ELSE Chord(r.P, r.Q, r.a, r.p)

PaShortcut(r) == equal(r.P, Origin) \/ r.P.inf \/ r.Q.inf

PaLatency(r) ==
    IF equal(r.P, r.Q)
    THEN 1 + PdLatency([P |-> r.P, a |-> r.a, p |-> r.p])
    ELSE PnLatency(r.P) + (IF PaShortcut(r) THEN 0 ELSE 1 + EdgesFrom(PaProgram, 1))
=============================================================================
