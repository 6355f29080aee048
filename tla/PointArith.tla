----------------------------- MODULE PointArith -----------------------------
(***************************************************************************)
(* Points of y^2 + xy = x^3 + a x^2 + b over GF(2^M) and the golden model's *)
(* operations on them.  A point at infinity keeps the coordinates it was   *)
(* made from, as the 17-bit vectors and the C struct do.                   *)
(***************************************************************************)
EXTENDS GF2m

Point == [inf : BOOLEAN, x : Elem, y : Elem]

Affine(x, y) == [inf |-> FALSE, x |-> x, y |-> y]

\* The all-zero vector: the affine point (0, 0).
Origin == Affine(Zero, Zero)

AtInfinity(P) == [P EXCEPT !.inf = TRUE]

equal(P, Q) == P.inf = Q.inf /\ (P.inf \/ (P.x = Q.x /\ P.y = Q.y))

\* point_negation builds a new struct, whose is_inf is false.
point_negation(P) == Affine(P.x, Add(P.x, P.y))

\* The tangent branch of point_doubling.
Tangent(P, a, p) ==
    LET lamb == Add(P.x, Mul(P.y, Inv(P.x, p), p))
        X == Add(Add(Mul(lamb, lamb, p), lamb), a)
    IN  Affine(X, Add(Add(Mul(P.x, P.x, p), Mul(lamb, X, p)), X))

point_doubling(P, a, p) ==
    IF equal(P, point_negation(P)) \/ P.inf
    THEN AtInfinity(P)
    ELSE Tangent(P, a, p)

\* The chord branch of point_addition.
Chord(P, Q, a, p) ==
    LET dx == Add(P.x, Q.x)
        lamb == Mul(Add(P.y, Q.y), Inv(dx, p), p)
        X == Add(Add(Add(Mul(lamb, lamb, p), lamb), dx), a)
    IN  Affine(X, Add(Add(Mul(lamb, Add(P.x, X), p), X), P.y))

point_addition(P, Q, a, p) ==
    CASE equal(P, Q) -> point_doubling(P, a, p)
      [] ~equal(P, Q) /\ equal(P, point_negation(Q)) -> AtInfinity(P)
      [] OTHER -> IF P.inf THEN Q ELSE IF Q.inf THEN P ELSE Chord(P, Q, a, p)

\* Seeded fault: A is doubled before it is added.
Fault_scalar_multiplication(n, P, a, p) ==
    LET loop[k \in 0 .. n] ==
          IF k = 0 THEN [n |-> n, A |-> P, R |-> AtInfinity(P)]
          ELSE LET s == loop[k - 1]
                   A == point_doubling(s.A, a, p)
               IN  IF s.n = 0 THEN s
                   ELSE [n |-> s.n \div 2, A |-> A,
                         R |-> IF s.n % 2 = 1 THEN point_addition(s.R, A, a, p)
                                              ELSE s.R]
    IN  loop[n].R

\* The loop of scalar_multiplication, unrolled to n iterations.
scalar_multiplication(n, P, a, p) ==
    LET loop[k \in 0 .. n] ==
          IF k = 0 THEN [n |-> n, A |-> P, R |-> AtInfinity(P)]
          ELSE LET s == loop[k - 1] IN
               IF s.n = 0 THEN s
               ELSE [n |-> s.n \div 2,
                     A |-> point_doubling(s.A, a, p),
                     R |-> IF s.n % 2 = 1 THEN point_addition(s.R, s.A, a, p)
                                          ELSE s.R]
    IN  loop[n].R

-----------------------------------------------------------------------------
(***************************************************************************)
(* The group itself, for the properties.                                   *)
(***************************************************************************)
OnCurve(P, a, b, p) ==
    LET x2 == Mul(P.x, P.x, p) IN
    P.inf \/ Add(Mul(P.y, P.y, p), Mul(P.x, P.y, p))
             = Add(Add(Mul(x2, P.x, p), Mul(a, x2, p)), b)

Opposite(P, Q) == ~P.inf /\ ~Q.inf /\ P.x = Q.x /\ Q.y = Add(P.x, P.y)

GroupAdd(P, Q, a, p) ==
    CASE P.inf -> Q
      [] ~P.inf /\ Q.inf -> P
      [] Opposite(P, Q) -> AtInfinity(P)
      [] OTHER -> IF P = Q THEN Tangent(P, a, p) ELSE Chord(P, Q, a, p)

\* n times P by repeated addition.
Multiple(n, P, a, p) ==
    LET sum[k \in 0 .. n] ==
          IF k = 0 THEN AtInfinity(P) ELSE GroupAdd(sum[k - 1], P, a, p)
    IN  sum[n]
=============================================================================
