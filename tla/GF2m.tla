-------------------------------- MODULE GF2m --------------------------------
(***************************************************************************)
(* Arithmetic in GF(2^M), polynomial basis, as the software golden model   *)
(* computes it.  A field element is the set of the exponents whose         *)
(* coefficient is 1 (bit i of a C array is 1 iff i is in the set), so xor  *)
(* is symmetric difference and reading a bit is membership.  The reduction *)
(* polynomial is x^M + p: like the code, p omits the leading term.         *)
(***************************************************************************)
EXTENDS Integers, FiniteSets

CONSTANT M          \* bit width of the field; 8 in ecc.h, any in genmult.py

ASSUME MAssumption == M \in Nat /\ M >= 2

Exponents == 0 .. M - 1
Elem == SUBSET Exponents

Zero == {}
One == {0}

\* addition: bitwise xor of two M-bit vectors.
Add(u, v) == (u \ v) \cup (v \ u)

\* The vector guarded by one bit: AND of every bit of v with the bit t.
When(t, v) == IF t THEN v ELSE Zero

\* Shift left by one inside M bits; the bit leaving the top is dropped.
Shl(u) == {i \in Exponents : i - 1 \in u}

(***************************************************************************)
(* One round of the interleaved multiplication: shift the accumulator,     *)
(* subtract the reduction polynomial if a 1 left the top, add v if this    *)
(* bit of the multiplier is 1.                                             *)
(***************************************************************************)
MulRound(acc, bit, v, p) ==
    Add(Add(Shl(acc), When(M - 1 \in acc, p)), When(bit, v))

\* multiplication: Horner's rule over the bits of u, most significant first.
Mul(u, v, p) ==
    LET acc[k \in 0 .. M] ==
          IF k = 0 THEN Zero
                   ELSE MulRound(acc[k - 1], (M - k) \in u, v, p)
    IN  acc[M]

\* inverse: u^(2^M - 2) = u^2 * u^4 * ... * u^(2^(M-1)).
Inv(u, p) ==
    LET sqr[i \in 1 .. M - 1] ==
          IF i = 1 THEN Mul(u, u, p) ELSE Mul(sqr[i - 1], sqr[i - 1], p)
        c[i \in 1 .. M - 1] ==
          IF i = 1 THEN sqr[1] ELSE Mul(c[i - 1], sqr[i], p)
    IN  c[M - 1]

-----------------------------------------------------------------------------
(***************************************************************************)
(* A definition of the same field that shares nothing with the rounds      *)
(* above: the carry-less product, then long division by x^M + p.           *)
(***************************************************************************)
CarrylessProduct(u, v) ==
    {k \in 0 .. 2 * M - 2 :
        Cardinality({i \in u : k - i \in v}) % 2 = 1}

Remainder(f, p) ==
    LET rem[d \in M - 1 .. 2 * M - 2] ==      \* f with degrees > d cancelled
          IF d = 2 * M - 2 THEN f
          ELSE LET g == rem[d + 1]
                   e == d + 1
               IN  IF e \in g
                   THEN Add(g, {e} \cup {e - M + i : i \in p})
                   ELSE g
    IN  rem[M - 1]

FieldProduct(u, v, p) == Remainder(CarrylessProduct(u, v), p)

\* v is the multiplicative inverse of u; 0 stands for its own inverse.
IsInverse(u, v, p) ==
    IF u = Zero THEN v = Zero ELSE FieldProduct(u, v, p) = One
=============================================================================
