---------------------------- MODULE MCScalarMult ----------------------------
\* The scalar multiplier over two groups, of which each request uses one: the
\* cyclic group of order 257, in which P is 1, and what PA and PD really
\* compute over the curve a = b = 1 in GF(8), which has 14 points.
EXTENDS GoldenScalarMult, PointUnit, Study

Order == 257
Cyclic(k) == [cyclic |-> k % Order]
InCyclic(P) == "cyclic" \in DOMAIN P

P3 == {0, 1}                              \* x^3 + x + 1

CurvePoints == {P \in Point : ~P.inf /\ OnCurve(P, One, One, P3)}

CurveMultiple == [n \in 0 .. 13, P \in CurvePoints |-> Multiple(n, P, One, P3)]

\* The operations of both groups; the blank vector is the point (0, 0), which
\* is not on the curve.
BothPoints == Point \cup {Cyclic(k) : k \in 0 .. Order - 1}
BothInfinity(P) == IF InCyclic(P) THEN Cyclic(0) ELSE AtInfinity(P)
BothPlus(P, Q) ==
    CASE InCyclic(P) /\ InCyclic(Q) -> Cyclic(P.cyclic + Q.cyclic)
      [] ~InCyclic(P) /\ ~InCyclic(Q) ->
            PaResult([P |-> P, Q |-> Q, a |-> One, p |-> P3])
      [] OTHER -> Origin                  \* never asked for
BothTwice(P) == IF InCyclic(P) THEN Cyclic(2 * P.cyclic)
                ELSE PdResult([P |-> P, a |-> One, p |-> P3])
BothTimes(n, P) == IF InCyclic(P) THEN Cyclic(n * P.cyclic)
                   ELSE CurveMultiple[n, P]
BothSame(P, Q) == IF InCyclic(P) \/ InCyclic(Q) THEN P = Q ELSE equal(P, Q)

\* The order of a point of the curve is 2 (x = 0), 7 or 14.
BelowOrder(n, P) ==
    \/ n = 1
    \/ n < 7 /\ P.x # Zero
    \/ n < 14 /\ P.x # Zero /\ ~CurveMultiple[7, P].inf

\* Every scalar whose sign bit is clear, and every scalar below the order of
\* every point of the curve.
BothRequests ==
    {r \in [n : 1 .. 2^(W - 1) - 1, P : {Cyclic(1)} \cup CurvePoints] :
        InCyclic(r.P) \/ BelowOrder(r.n, r.P)}

\* A scalar with its sign bit set, and the key of the golden model.
WithSignBit == [n : {2^(W - 1) + 1}, P : {Cyclic(1)}]
KeyOfAlice == [n : {22}, P : {Cyclic(1)}]

\* Ticking is this fairness of the clock; TLC can evaluate it as it stands where
\* the requests are few.
FairSpec == Init /\ [][Next]_vars /\ WF_vars(Posedge)

\* x^2 (x x^2) in GF(8), as the study would chain it.
Chain3 == [u |-> <<1, 2>>, v |-> <<<<0, 0>>>>]

\* Below the order less one the projective algorithm of the study agrees with
\* the golden model, and with the unit where the unit agrees with that: every
\* intermediate pair of multiples, the one inversion and the y that is
\* recovered in the end are right.
AgreesWithStudy ==
    finish /\ ~InCyclic(req.P) /\ BelowOrder(req.n + 1, req.P) =>
        LET studied == scalar_multiple_projective(req.n, req.P, One, Chain3, P3) IN
        /\ equal(studied, scalar_multiplication(req.n, req.P, One, P3))
        /\ ~StartsWith10(req.n) => equal(studied, P_o)

\* Both groups have what the theorems about the unit suppose, and the golden
\* model's operations on the curve what the agreement supposes of them.
ASSUME GroupsFit == Closed /\ GroupLaws /\ GoldenLaws

(***************************************************************************)
(* The tables of the study for the widths it is about.  A reduction is     *)
(* linear, so the powers of x decide it: those below m stay, and each      *)
(* other is x times the one before it.                                     *)
(***************************************************************************)
GF163 == INSTANCE GF2m WITH M <- 163
GF167 == INSTANCE GF2m WITH M <- 167

Power163(d) == poly_mod_hardware({d}, [i \in 0 .. 162 |-> TapsPentanomial(i)])
Power167(d) == poly_mod_hardware({d}, [i \in 0 .. 166 |-> TapsTrinomial(i, 167, 6)])

ASSUME ReductionsCorrect ==
    /\ \A d \in 0 .. 162 : Power163(d) = {d}
    /\ \A d \in 163 .. 324 :
          Power163(d) = GF163!MulRound(Power163(d - 1), FALSE, Zero, {0, 3, 6, 7})
    /\ \A d \in 0 .. 166 : Power167(d) = {d}
    /\ \A d \in 167 .. 332 :
          Power167(d) = GF167!MulRound(Power167(d - 1), FALSE, Zero, {0, 6})

\* Each entry of a chain doubles or adds exponents as u says, up to 2^(m-1) - 1,
\* so that the last squaring gives x^(2^m - 2), the inverse.
ASSUME ChainsCorrect ==
    \A c \in {<<Chain163, 163>>, <<Chain167, 167>>, <<Chain3, 3>>} :
        LET e == Exponents2(c[1]) IN
        /\ \A i \in 0 .. Len(c[1].v) - 1 : e[i] = c[1].u[i + 1]
        /\ e[Len(c[1].v)] = c[2] - 1
=============================================================================
