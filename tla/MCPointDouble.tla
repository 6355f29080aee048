--------------------------- MODULE MCPointDouble ---------------------------
\* GF(8) instances of the point doubling unit.
EXTENDS PointDouble

X == {1}                                  \* the element x
P3 == {0, 1}                              \* x^3 + x + 1

\* Every point of the curve a = 0, b = x, the point at infinity with two different
\* left-over coordinates, and the all-zero vector.
CurvePoints == {P \in Point : ~P.inf /\ OnCurve(P, Zero, X, P3)}

Infinities == {AtInfinity(Origin), AtInfinity(Affine(X, One))}

CurveRequests ==
    [P : CurvePoints \cup Infinities \cup {Origin}, a : {Zero}, p : {P3}]
=============================================================================
