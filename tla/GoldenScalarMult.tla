-------------------------- MODULE GoldenScalarMult --------------------------
(***************************************************************************)
(* SCALAR_MULT beside scalar_multiplication of the golden model: the       *)
(* requests whose point is one of the golden model's, and its curve.       *)
(***************************************************************************)
EXTENDS ScalarMult, PointArith

CONSTANTS curve_a, curve_p          \* a and p of those requests

\* What the agreement supposes of the golden model's operations, as GroupLaws
\* does of pa0 and pd0: on the multiples its loop forms they add and double.
GoldenLaws ==
    \A r \in Requests : r.P \in Point /\ InRange(r.n) =>
        /\ Times(0, r.P) = AtInfinity(r.P) /\ Times(1, r.P) = r.P
        /\ \A k \in 0 .. W - 2, i \in 0 .. r.n :
              i < Power[k] /\ i + Power[k] <= r.n =>
                 point_addition(Times(i, r.P), Times(Power[k], r.P), curve_a, curve_p)
                    = Times(i + Power[k], r.P)
        /\ \A k \in 0 .. W - 2 : Power[k + 1] <= r.n =>
              point_doubling(Times(Power[k], r.P), curve_a, curve_p)
                 = Times(Power[k + 1], r.P)

\* The unit returns what scalar_multiplication of the golden model does, except
\* for the scalars that start with 1 0.
AgreesWithGolden ==
    finish /\ req.P \in Point /\ ~StartsWith10(req.n) =>
        equal(P_o, scalar_multiplication(req.n, req.P, curve_a, curve_p))
=============================================================================
