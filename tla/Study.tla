-------------------------------- MODULE Study --------------------------------
(***************************************************************************)
(* The algorithm study simulation.py: reduction by taps, inversion by an   *)
(* addition chain, and the scalar multiplication in projective             *)
(* coordinates that uses one inversion instead of one per bit.  Its field  *)
(* multiplication (shift and add, or Karatsuba) is Mul, of which           *)
(* the reductions below are the part that depends on the field.            *)
(***************************************************************************)
EXTENDS PointArith, Sequences

(***************************************************************************)
(* poly_mod_hardware: which bits of a product are added for bit i of its   *)
(* remainder, for x^163 + x^7 + x^6 + x^3 + 1 and for x^m + x^k + 1.       *)
(***************************************************************************)
TapsPentanomial(i) ==
    CASE i <= 1 -> {i, i + 163, i + 319, i + 320, i + 323}
      [] i = 2 -> {2, 165, 321, 322}
      [] i \in 3 .. 5 -> {i, i + 163, i + 160, i + 319, i + 316, i + 317}
      [] i = 6 -> {6, 169, 163, 166, 322, 319, 320}
      [] i \in 7 .. 10 -> {i, i + 163, i + 156, i + 157, i + 160, i + 312, i + 314}
      [] i \in 11 .. 12 -> {i, i + 163, i + 156, i + 157, i + 160, i + 312}
      [] i \in 13 .. 161 -> {i, i + 163, i + 156, i + 157, i + 160}
      [] i = 162 -> {162, 318, 319, 322}

TapsTrinomial(i, m, k) ==
    CASE i <= k - 2 -> {i, i + m, 2 * m + i - k}
      [] i = k - 1 -> {k - 1, m + k - 1}
      [] i \in k .. 2 * k - 2 -> {i, i + m, i + m - k, i + 2 * m - 2 * k}
      [] i \in 2 * k - 1 .. m - 2 -> {i, i + m, i + m - k}
      [] i = m - 1 -> {m - 1, 2 * m - k - 1}

poly_mod_hardware(f, taps) ==
    {i \in DOMAIN taps : Cardinality(f \cap taps[i]) % 2 = 1}

(***************************************************************************)
(* inverse_Itoh: betas[i] is x^(2^e - 1) for e = u[i + 1]; the chain v     *)
(* says which two of them make the next.                                   *)
(***************************************************************************)
Chain163 == [u |-> <<1, 2, 4, 8, 16, 32, 64, 80, 81>>,
             v |-> <<<<0, 0>>, <<1, 1>>, <<2, 2>>, <<3, 3>>, <<4, 4>>, <<5, 5>>,
                     <<6, 4>>, <<7, 0>>, <<8, 8>>>>]
Chain167 == [u |-> <<1, 2, 3, 5, 10, 20, 40, 80, 83, 166>>,
             v |-> <<<<0, 0>>, <<1, 0>>, <<2, 1>>, <<3, 3>>, <<4, 4>>, <<5, 5>>,
                     <<6, 6>>, <<7, 2>>, <<8, 8>>>>]

square(x, p) == Mul(x, x, p)

\* The exponent each chain entry stands for, and x raised to 2^e.
Exponents2(chain) ==
    LET e[i \in 0 .. Len(chain.v)] ==
          IF i = 0 THEN 1 ELSE e[chain.v[i][1]] + e[chain.v[i][2]]
    IN  e

Squared(x, e, p) ==
    LET s[j \in 0 .. e] == IF j = 0 THEN x ELSE square(s[j - 1], p) IN s[e]

inverse_Itoh(x, chain, p) ==
    LET betas[i \in 0 .. Len(chain.v)] ==
          IF i = 0 THEN x
          ELSE LET i1 == chain.v[i][1] i2 == chain.v[i][2]
               IN  Mul(Squared(betas[i1], chain.u[i2 + 1], p), betas[i2], p)
    IN  square(betas[Len(chain.v)], p)

-----------------------------------------------------------------------------
(***************************************************************************)
(* scalar_multiple_projective.  For the leading bits m of the scalar, 1    *)
(* stands for m P and 2 for (m + 1) P, each by X / Z, its x coordinate.    *)
(***************************************************************************)
\* The sum of two points whose difference is the base point.
SumOfProducts(one, two, xp, p) ==
    LET Z == square(Add(one, two), p)
    IN  [X |-> Add(Mul(one, two, p), Mul(xp, Z, p)), Z |-> Z]

Sum12(s, xp, p) == SumOfProducts(Mul(s.X1, s.Z2, p), Mul(s.X2, s.Z1, p), xp, p)

\* Seeded fault: b is multiplied by Z^2.
Fault_Doubled(X, Z, b, p) ==
    [X |-> Add(square(square(X, p), p), Mul(b, square(Z, p), p)),
     Z |-> Mul(square(X, p), square(Z, p), p)]

Doubled(X, Z, b, p) ==
    [X |-> Add(square(square(X, p), p), Mul(b, square(square(Z, p), p), p)),
     Z |-> Mul(square(X, p), square(Z, p), p)]

\* The bits of k below its first, highest first.
BitsBelowFirst(k) == CHOOSE n \in 0 .. k : 2^n <= k /\ k < 2^(n + 1)

\* The next bit: 1 makes (2m + 1) P and (2m + 2) P of m P and (m + 1) P, 0
\* makes 2m P and (2m + 1) P.
Pair(bit, sum, twice) ==
    IF bit = 1 THEN [X1 |-> sum.X, Z1 |-> sum.Z, X2 |-> twice.X, Z2 |-> twice.Z]
    ELSE [X1 |-> twice.X, Z1 |-> twice.Z, X2 |-> sum.X, Z2 |-> sum.Z]

NextPair(bit, s, xp, b, p) ==
    Pair(bit, Sum12(s, xp, p), IF bit = 1 THEN Doubled(s.X2, s.Z2, b, p)
                               ELSE Doubled(s.X1, s.Z1, b, p))

Ladder(k, xp, b, p) ==
    LET n == BitsBelowFirst(k)
        loop[i \in 0 .. n] ==
          IF i = 0 THEN [X1 |-> xp, Z1 |-> One,
                         X2 |-> Add(square(square(xp, p), p), b), Z2 |-> square(xp, p)]
          ELSE NextPair((k \div 2^(n - i)) % 2, loop[i - 1], xp, b, p)
    IN  loop[n]

\* Back to affine coordinates: y of k P from the x of P, k P and (k + 1) P.
Slope(P, s, ZZ, chain, p) ==
    LET shifted == Mul(Add(s.X1, Mul(P.x, s.Z1, p)), Add(s.X2, Mul(P.x, s.Z2, p)), p)
    IN  Mul(Add(shifted, Mul(Add(P.y, square(P.x, p)), ZZ, p)),
            inverse_Itoh(Mul(P.x, ZZ, p), chain, p), p)

OnLine(P, slope, x, p) == Affine(x, Add(P.y, Mul(slope, Add(P.x, x), p)))

Recovered(P, s, chain, p) ==
    OnLine(P, Slope(P, s, Mul(s.Z1, s.Z2, p), chain, p),
           Mul(s.X1, inverse_Itoh(s.Z1, chain, p), p), p)

scalar_multiple_projective(k, P, b, chain, p) ==
    Recovered(P, Ladder(k, P.x, b, p), chain, p)
==============================================================================
