----------------------------- MODULE MCPointAdd -----------------------------
\* GF(8) instances of the point addition unit.
EXTENDS PointAdd

X == {1}                                  \* the element x
P3 == {0, 1}                              \* x^3 + x + 1

\* The curve a = 1, b = x + 1: five affine points, one of them (0, y).
CurvePoints == {P \in Point : ~P.inf /\ OnCurve(P, One, {0, 1}, P3)}

Infinities == {AtInfinity(Origin), AtInfinity(Affine(X, One))}

Pairs(S) == [P : S, Q : S, a : {One}, p : {P3}]

\* Every pair of points of the curve, infinity included in two encodings.
AllPairs == Pairs(CurvePoints \cup Infinities)

\* Chord, doubling, opposite points, infinity on either side, and operands
\* SCALAR_MULT does not form but that drive other paths: the all-zero vector
\* and infinities that differ.
SomePoint == CHOOSE P \in CurvePoints : P.x # Zero
OtherPoint == CHOOSE P \in CurvePoints : P.x \notin {Zero, SomePoint.x}
FewPairs ==
    {[P |-> u[1], Q |-> u[2], a |-> One, p |-> P3] : u \in
        {<<SomePoint, OtherPoint>>, <<OtherPoint, OtherPoint>>,
         <<SomePoint, point_negation(SomePoint)>>,
         <<AtInfinity(SomePoint), SomePoint>>,
         <<SomePoint, AtInfinity(Origin)>>,
         <<Origin, SomePoint>>,
         <<AtInfinity(Origin), AtInfinity(SomePoint)>>}}

\* Those, every doubling, and every addition to one of the points.
SomePairs == {r \in AllPairs : r.P = r.Q \/ r.P = SomePoint} \cup FewPairs
=============================================================================

