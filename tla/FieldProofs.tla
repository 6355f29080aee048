---------------------------- MODULE FieldProofs ----------------------------
(***************************************************************************)
(* Lemmas about the field and the lists of operations, for every width M:  *)
(* what the recursive definitions of GF2m, FieldUnit and PointUnit return, *)
(* and that the interleaved multiplication of the golden model and of CORE *)
(* is the remainder of the product of polynomials.                         *)
(*                                                                         *)
(* An induction is one over the naturals, as a fact about the set of       *)
(* numbers for which something holds; a recursive function is unfolded by  *)
(* showing that the sequence of its values exists.                         *)
(***************************************************************************)
EXTENDS PointUnit, FiniteSetTheorems, WellFoundedInduction, TLAPS

\* The order of the naturals has no infinite descent.
LEMMA LessWellFounded == IsWellFoundedOn({ss \in Nat \X Nat : ss[1] < ss[2]}, Nat)
  BY NatLessThanWellFounded DEF OpToRel

\* Induction over the naturals, as a fact about a set.
LEMMA SetInduction ==
   ASSUME NEW T, 0 \in T, \A n \in Nat : n \in T => n + 1 \in T
   PROVE Nat \subseteq T
<1> DEFINE R == {ss \in Nat \X Nat : ss[1] < ss[2]}
           F == {n \in Nat : n \notin T}
<1> SUFFICES ASSUME F # {} PROVE FALSE
  OBVIOUS
<1>1. PICK x \in F : \A y \in F : ~ (<<y, x>> \in R)
  <2>1. IsWellFoundedOn(R, Nat)
    BY LessWellFounded
  <2>2. F \subseteq Nat
    OBVIOUS
  <2> HIDE DEF R, F
  <2> QED
   BY <2>1, <2>2, WFMin
<1>2. x \in Nat /\ x # 0
  OBVIOUS
<1>3. x - 1 \in F /\ <<x - 1, x>> \in R
   BY <1>2
<1> QED
  BY <1>1, <1>3

\* Induction from m up to n.
LEMMA IntervalInduction ==
   ASSUME NEW m \in Int, NEW n \in Int, NEW T, m \in T,
          \A i \in m .. n - 1 : i \in T => i + 1 \in T
   PROVE  m .. n \subseteq T
<1> DEFINE U == {i \in Nat : m + i <= n => m + i \in T}
<1>1. Nat \subseteq U
  <2>1. 0 \in U
    OBVIOUS
  <2>2. ASSUME NEW i \in Nat, i \in U PROVE i + 1 \in U
    <3> SUFFICES ASSUME m + (i + 1) <= n PROVE m + (i + 1) \in T
      OBVIOUS
    <3>1. m + i \in m .. n - 1 /\ m + i \in T
      BY <2>2
    <3>2. (m + i) + 1 \in T
      BY <3>1
    <3> QED
      BY <3>2
  <2> HIDE DEF U
  <2> QED
    BY <2>1, <2>2, SetInduction
<1>2. ASSUME NEW j \in m .. n PROVE j \in T
  <2>1. j - m \in U /\ m + (j - m) = j
    BY <1>1
  <2> QED
    BY <2>1
<1> QED
  BY <1>2

\* Induction from n down to m.
LEMMA DownInduction ==
   ASSUME NEW m \in Int, NEW n \in Int, NEW T, n \in T,
          \A i \in m .. n - 1 : i + 1 \in T => i \in T
   PROVE  m .. n \subseteq T
<1> DEFINE U == {i \in Int : m + n - i \in T}
<1>1. m \in U
  OBVIOUS
<1>2. ASSUME NEW i \in m .. n - 1, i \in U PROVE i + 1 \in U
  <2>1. /\ m + n - (i + 1) \in m .. n - 1
        /\ (m + n - (i + 1)) + 1 = m + n - i
    OBVIOUS
  <2> QED
    BY <1>2, <2>1
<1> HIDE DEF U
<1>3. m .. n \subseteq U
  BY <1>1, <1>2, IntervalInduction
<1>4. ASSUME NEW j \in m .. n PROVE j \in T
  <2>1. m + n - j \in U /\ m + n - (m + n - j) = j
    BY <1>3
  <2> QED
    BY <2>1 DEF U
<1> QED
  BY <1>4

\* A step for each index, and the sequence of values it leads to from f0.
IsStep(step, S, m, n) == \A i \in m + 1 .. n : \A x \in S : step[i][x] \in S

IsIteration(f, S, f0, step, m, n) ==
    /\ f \in [m .. n -> S]
    /\ f[m] = f0
    /\ \A i \in m + 1 .. n : f[i] = step[i][f[i - 1]]

\* A sequence of steps that stay in S has its sequence of values: this is what
\* lets a recursive function on an interval be unfolded.
LEMMA Iteration ==
    ASSUME NEW S, NEW m \in Int, NEW n \in Int, m <= n, NEW f0 \in S,
           NEW step, IsStep(step, S, m, n)
    PROVE  \E f : IsIteration(f, S, f0, step, m, n)
<1> DEFINE T == {k \in m .. n : \E f : IsIteration(f, S, f0, step, m, k)}
<1>1. m \in T
  <2> DEFINE g == [i \in m .. m |-> f0]
  <2>1. g \in [m .. m -> S] /\ g[m] = f0 /\ m + 1 .. m = {}
    OBVIOUS
  <2>2. IsIteration(g, S, f0, step, m, m)
    BY <2>1 DEF IsIteration
  <2> QED
    BY <2>2
<1>2. ASSUME NEW k \in m .. n - 1, k \in T PROVE k + 1 \in T
  <2>1. PICK f : IsIteration(f, S, f0, step, m, k)
    BY <1>2
  <2> DEFINE last == step[k + 1][f[k]]
             g == [i \in m .. k + 1 |-> IF i = k + 1 THEN last ELSE f[i]]
  <2>2. last \in S
    <3>1. k \in m .. k /\ k + 1 \in m + 1 .. n /\ f[k] \in S
      BY <2>1 DEF IsIteration
    <3> QED
      BY <3>1 DEF IsStep
  <2> HIDE DEF last
  <2>3. \A i \in m .. k + 1 : i # k + 1 => i \in m .. k
    OBVIOUS
  <2>4. g \in [m .. k + 1 -> S]
    BY <2>1, <2>2, <2>3 DEF IsIteration
  <2>5. g[m] = f0
    BY <2>1 DEF IsIteration
  <2>6. ASSUME NEW i \in m + 1 .. k + 1 PROVE g[i] = step[i][g[i - 1]]
    <3>1. CASE i = k + 1
      <4>1. g[i] = last /\ g[i - 1] = f[k]
        BY <3>1
      <4> QED
        BY <3>1, <4>1 DEF last
    <3>2. CASE i # k + 1
      <4>1. i \in m + 1 .. k /\ g[i] = f[i] /\ g[i - 1] = f[i - 1]
        BY <3>2
      <4> QED
        BY <2>1, <4>1 DEF IsIteration
    <3> QED
      BY <3>1, <3>2
  <2> HIDE DEF g
  <2>7. IsIteration(g, S, f0, step, m, k + 1)
    BY <2>4, <2>5, <2>6 DEF IsIteration
  <2>8. k + 1 \in m .. n
    OBVIOUS
  <2> QED
    BY <2>7, <2>8
<1> HIDE DEF T
<1>3. m .. n \subseteq T
  BY <1>1, <1>2, IntervalInduction
<1>4. n \in T
  BY <1>3
<1> QED
  BY <1>4 DEF T

\* A property that the first value has and every step preserves.
LEMMA IterationRange ==
    ASSUME NEW S, NEW m \in Int, NEW n \in Int, NEW f, f[m] \in S,
           \A i \in m + 1 .. n : f[i - 1] \in S => f[i] \in S
    PROVE  \A i \in m .. n : f[i] \in S
<1> DEFINE T == {i \in Int : f[i] \in S}
<1>1. m \in T
  OBVIOUS
<1>2. ASSUME NEW i \in m .. n - 1, i \in T PROVE i + 1 \in T
  <2>1. i + 1 \in m + 1 .. n /\ (i + 1) - 1 = i
    OBVIOUS
  <2> QED
    BY <1>2, <2>1
<1> HIDE DEF T
<1>3. m .. n \subseteq T
  BY <1>1, <1>2, IntervalInduction
<1> QED
  BY <1>3 DEF T

-----------------------------------------------------------------------------
(***************************************************************************)
(* Mul is multiplication in the field.                                     *)
(***************************************************************************)
\* The vectors of M bits are closed under the operations of the array.
LEMMA ElemClosed ==
    /\ Zero \in Elem
    /\ \A u, v \in Elem : Add(u, v) \in Elem
    /\ \A u \in Elem : Shl(u) \in Elem
    /\ \A t \in BOOLEAN, u \in Elem : When(t, u) \in Elem
  BY DEF Zero, Elem, Add, Shl, When

\* One round of the multiplication keeps M bits.
LEMMA RoundClosed ==
    ASSUME NEW acc \in Elem, NEW bit, NEW v \in Elem, NEW p \in Elem
    PROVE  MulRound(acc, bit, v, p) \in Elem
<1>1. When(M - 1 \in acc, p) \in Elem /\ When(bit, v) \in Elem
  BY ElemClosed, Zenon DEF When
<1> QED
  BY <1>1, ElemClosed, Zenon DEF MulRound

\* The vectors of M bits form a group in which every element is its own inverse.
LEMMA AddLaws ==
    ASSUME NEW u \in Elem, NEW v \in Elem, NEW w \in Elem
    PROVE  /\ Add(u, v) = Add(v, u)
           /\ Add(Add(u, v), w) = Add(u, Add(v, w))
           /\ Add(u, Zero) = u /\ Add(Zero, u) = u
           /\ Add(u, u) = Zero
<1>1. Add(u, v) = Add(v, u)
  BY DEF Add
<1>2. Add(Add(u, v), w) = Add(u, Add(v, w))
  BY DEF Add
<1>3. Add(u, Zero) = u /\ Add(Zero, u) = u /\ Add(u, u) = Zero
  BY DEF Add, Zero
<1> QED
  BY <1>1, <1>2, <1>3

MulRounds(u, v, p) ==
    CHOOSE acc : acc = [k \in 0 .. M |->
          IF k = 0 THEN Zero
                   ELSE MulRound(acc[k - 1], (M - k) \in u, v, p)]

\* Mul, round by round.
LEMMA MulUnfolds ==
    ASSUME NEW u \in Elem, NEW v \in Elem, NEW p \in Elem
    PROVE  /\ Mul(u, v, p) = MulRounds(u, v, p)[M]
           /\ MulRounds(u, v, p) \in [0 .. M -> Elem]
           /\ MulRounds(u, v, p)[0] = Zero
           /\ \A k \in 1 .. M : MulRounds(u, v, p)[k] =
                 MulRound(MulRounds(u, v, p)[k - 1], (M - k) \in u, v, p)
<1> DEFINE IsAcc(acc) == acc = [k \in 0 .. M |->
                IF k = 0 THEN Zero
                         ELSE MulRound(acc[k - 1], (M - k) \in u, v, p)]
           acc0 == MulRounds(u, v, p)
<1>1. \E acc : IsAcc(acc)
  <2> DEFINE step == [k \in 1 .. M |->
                        [e \in Elem |-> MulRound(e, (M - k) \in u, v, p)]]
  <2>1. ASSUME NEW k \in 0 + 1 .. M, NEW e \in Elem
        PROVE  /\ step[k][e] = MulRound(e, (M - k) \in u, v, p)
               /\ step[k][e] \in Elem
    <3>1. k \in 1 .. M
      OBVIOUS
    <3>2. step[k][e] = MulRound(e, (M - k) \in u, v, p)
      BY <3>1
    <3>3. MulRound(e, (M - k) \in u, v, p) \in Elem
      BY RoundClosed, Zenon
    <3> HIDE DEF step
    <3> QED
      BY <3>2, <3>3
  <2> HIDE DEF step
  <2>2. 0 \in Int /\ M \in Int /\ 0 <= M /\ Zero \in Elem
    BY MAssumption, ElemClosed
  <2>3. IsStep(step, Elem, 0, M)
    BY <2>1 DEF IsStep
  <2>6. PICK f : IsIteration(f, Elem, Zero, step, 0, M)
    BY <2>2, <2>3, Iteration
  <2>4. ASSUME NEW i \in 0 .. M, i # 0
        PROVE  f[i] = MulRound(f[i - 1], (M - i) \in u, v, p)
    <3>1. i \in 0 + 1 .. M /\ i - 1 \in 0 .. M
      BY <2>4, MAssumption
    <3> QED
      BY <2>1, <2>6, <3>1 DEF IsIteration
  <2>5. IsAcc(f)
    BY <2>6, <2>4 DEF IsIteration
  <2> QED
    BY <2>5
<1>2. IsAcc(acc0)
  BY <1>1 DEF MulRounds
<1>3. acc0[0] = Zero /\ \A k \in 1 .. M : acc0[k] =
                 MulRound(acc0[k - 1], (M - k) \in u, v, p)
  BY <1>2, MAssumption
<1>4. \A k \in 0 .. M : acc0[k] \in Elem
  <2>1. acc0[0] \in Elem
    BY <1>3, ElemClosed
  <2>2. ASSUME NEW k \in 0 + 1 .. M, acc0[k - 1] \in Elem PROVE acc0[k] \in Elem
    <3>1. acc0[k] = MulRound(acc0[k - 1], (M - k) \in u, v, p)
      BY <1>3
    <3>2. MulRound(acc0[k - 1], (M - k) \in u, v, p) \in Elem
      BY <2>2, RoundClosed, Zenon
    <3> QED
      BY <3>1, <3>2, Zenon
  <2> HIDE DEF acc0
  <2> QED
    BY <2>1, <2>2, MAssumption, IterationRange
<1>5. Mul(u, v, p) = acc0[M]
  BY DEF Mul, MulRounds
<1>6. acc0 \in [0 .. M -> Elem]
  <2> HIDE DEF acc0
  <2> QED
    BY <1>2, <1>4
<1> QED
  BY <1>3, <1>5, <1>6

\* A product has M bits.
LEMMA MulClosed ==
    ASSUME NEW u \in Elem, NEW v \in Elem, NEW p \in Elem
    PROVE  Mul(u, v, p) \in Elem
<1>1. M \in 0 .. M
  BY MAssumption
<1>2. /\ Mul(u, v, p) = MulRounds(u, v, p)[M]
      /\ MulRounds(u, v, p) \in [0 .. M -> Elem]
  BY MulUnfolds, Zenon
<1> QED
  BY <1>1, <1>2

-----------------------------------------------------------------------------
\* One step of the long division: the term of degree e is cancelled.
Cancel(g, e, p) ==
    IF e \in g THEN Add(g, {e} \cup {e - M + i : i \in p}) ELSE g

Divisions(f, p) ==
    CHOOSE rem : rem = [d \in M - 1 .. 2 * M - 2 |->
          IF d = 2 * M - 2 THEN f
                              ELSE Cancel(rem[d + 1], d + 1, p)]

Polynomial == SUBSET Int

\* A step of the division keeps the number of coefficients.
LEMMA CancelClosed ==
    ASSUME NEW g \in Polynomial, NEW e \in Int, NEW p \in Elem
    PROVE  Cancel(g, e, p) \in Polynomial
<1>1. M \in Int /\ p \subseteq Int
  BY MAssumption DEF Elem, Exponents
<1>2. {e} \cup {e - M + i : i \in p} \in Polynomial
  BY <1>1 DEF Polynomial
<1>3. \A h \in Polynomial : Add(g, h) \in Polynomial
  BY DEF Polynomial, Add
<1> QED
  BY <1>2, <1>3 DEF Cancel

\* Remainder, one cancelled term after the other.
LEMMA DivisionUnfolds ==
    ASSUME NEW f \in Polynomial, NEW p \in Elem
    PROVE  /\ Remainder(f, p) = Divisions(f, p)[M - 1]
           /\ \A d \in M - 1 .. 2 * M - 2 : Divisions(f, p)[d] \in Polynomial
           /\ Divisions(f, p)[2 * M - 2] = f
           /\ \A d \in M - 1 .. 2 * M - 3 :
                 Divisions(f, p)[d] = Cancel(Divisions(f, p)[d + 1], d + 1, p)
<1> DEFINE lo == M - 1
           hi == 2 * M - 2
           rem0 == Divisions(f, p)
           IsRem(rem) == rem = [d \in lo .. hi |->
              IF d = hi THEN f ELSE Cancel(rem[d + 1], d + 1, p)]
<1>1. lo \in Nat /\ hi \in Nat /\ hi - lo = lo /\ lo > 0
  BY MAssumption
<1>2. \E rem : IsRem(rem)
  <2> DEFINE step == [i \in 1 .. lo |->
                        [g \in Polynomial |-> Cancel(g, hi + 1 - i, p)]]
  <2>1. ASSUME NEW i \in 0 + 1 .. lo, NEW g \in Polynomial
        PROVE  step[i][g] = Cancel(g, hi + 1 - i, p) /\ step[i][g] \in Polynomial
    <3>1. i \in 1 .. lo /\ hi + 1 - i \in Int
      BY <1>1
    <3>2. Cancel(g, hi + 1 - i, p) \in Polynomial
      BY <3>1, CancelClosed
    <3> HIDE DEF hi, lo
    <3> QED
      BY <3>1, <3>2
  <2> HIDE DEF step
  <2>2. IsStep(step, Polynomial, 0, lo)
    BY <2>1 DEF IsStep
  <2>3. 0 \in Int /\ lo \in Int /\ 0 <= lo
    BY <1>1
  <2>4. PICK s : IsIteration(s, Polynomial, f, step, 0, lo)
    BY <2>2, <2>3, Iteration
  <2> DEFINE rem == [d \in lo .. hi |-> s[hi - d]]
  <2>5. ASSUME NEW d \in lo .. hi
        PROVE  rem[d] = IF d = hi THEN f ELSE Cancel(rem[d + 1], d + 1, p)
    <3> HIDE DEF lo, hi
    <3>1. CASE d = hi
      <4>1. rem[d] = s[0]
        BY <1>1, <3>1
      <4> QED
        BY <2>4, <3>1, <4>1 DEF IsIteration
    <3>2. CASE d # hi
      <4>1. /\ hi - d \in 0 + 1 .. lo /\ hi + 1 - (hi - d) = d + 1
            /\ (hi - d) - 1 = hi - (d + 1) /\ (hi - d) - 1 \in 0 .. lo
            /\ d + 1 \in lo .. hi
        BY <1>1, <3>2
      <4>2. /\ s[hi - d] = step[hi - d][s[(hi - d) - 1]]
            /\ s[(hi - d) - 1] \in Polynomial
        BY <2>4, <4>1 DEF IsIteration
      <4>3. rem[d + 1] = s[(hi - d) - 1]
        BY <4>1
      <4>4. rem[d] = Cancel(s[(hi - d) - 1], d + 1, p)
        BY <2>1, <4>1, <4>2
      <4> QED
        BY <3>2, <4>3, <4>4
    <3> QED
      BY <3>1, <3>2
  <2>6. IsRem(rem)
    BY <2>5
  <2> QED
    BY <2>6
<1>3. IsRem(rem0)
  BY <1>2 DEF Divisions
<1>4. /\ rem0[hi] = f
      /\ \A d \in M - 1 .. 2 * M - 3 : rem0[d] = Cancel(rem0[d + 1], d + 1, p)
  <2> HIDE DEF rem0
  <2>1. \A d \in lo .. hi :
           rem0[d] = IF d = hi THEN f ELSE Cancel(rem0[d + 1], d + 1, p)
    BY <1>3
  <2>2. hi \in lo .. hi /\ \A d \in M - 1 .. 2 * M - 3 : d \in lo .. hi /\ d # hi
    BY <1>1, MAssumption
  <2> HIDE DEF lo, hi
  <2> QED
    BY <2>1, <2>2
<1>5. Remainder(f, p) = rem0[M - 1]
  BY DEF Remainder, Divisions, Cancel
<1>6. \A d \in lo .. hi : rem0[d] \in Polynomial
  <2> HIDE DEF rem0
  <2> DEFINE T == {d \in Int : rem0[d] \in Polynomial}
  <2>1. hi \in T
    BY <1>1, <1>4
  <2>2. ASSUME NEW d \in lo .. hi - 1, d + 1 \in T PROVE d \in T
    <3>1. d \in M - 1 .. 2 * M - 3 /\ d + 1 \in Int /\ d \in Int
      BY <1>1, MAssumption
    <3>2. rem0[d + 1] \in Polynomial
      BY <2>2
    <3>3. Cancel(rem0[d + 1], d + 1, p) \in Polynomial
      BY <3>1, <3>2, CancelClosed
    <3>4. rem0[d] = Cancel(rem0[d + 1], d + 1, p)
      BY <1>4, <3>1
    <3> QED
      BY <3>1, <3>3, <3>4
  <2> HIDE DEF T
  <2>3. lo .. hi \subseteq T
    <3> HIDE DEF lo, hi
    <3> QED
      BY <1>1, <2>1, <2>2, DownInduction
  <2> QED
    BY <2>3 DEF T
<1> QED
  BY <1>4, <1>5, <1>6

\* Division is linear.
LEMMA CancelLinear ==
    ASSUME NEW g \in Polynomial, NEW h \in Polynomial, NEW e \in Int, NEW p \in Elem
    PROVE  Cancel(Add(g, h), e, p) = Add(Cancel(g, e, p), Cancel(h, e, p))
<1> DEFINE D == {e} \cup {e - M + i : i \in p}
<1> HIDE DEF D
<1>1. \A k : Cancel(k, e, p) = IF e \in k THEN Add(k, D) ELSE k
  BY DEF Cancel, D
<1>2. CASE e \in g /\ e \in h
  <2>1. e \notin Add(g, h)
    BY <1>2 DEF Add
  <2>2. Add(g, h) = Add(Add(g, D), Add(h, D))
    BY DEF Add
  <2> QED
    BY <1>1, <1>2, <2>1, <2>2
<1>3. CASE e \in g /\ e \notin h
  <2>1. e \in Add(g, h)
    BY <1>3 DEF Add
  <2>2. Add(Add(g, h), D) = Add(Add(g, D), h)
    BY DEF Add
  <2> QED
    BY <1>1, <1>3, <2>1, <2>2
<1>4. CASE e \notin g /\ e \in h
  <2>1. e \in Add(g, h)
    BY <1>4 DEF Add
  <2>2. Add(Add(g, h), D) = Add(g, Add(h, D))
    BY DEF Add
  <2> QED
    BY <1>1, <1>4, <2>1, <2>2
<1>5. CASE e \notin g /\ e \notin h
  <2>1. e \notin Add(g, h)
    BY <1>5 DEF Add
  <2> QED
    BY <1>1, <1>5, <2>1
<1> QED
  BY <1>2, <1>3, <1>4, <1>5

\* The remainder of a sum is the sum of the remainders.
LEMMA RemainderLinear ==
    ASSUME NEW f \in Polynomial, NEW h \in Polynomial, NEW p \in Elem
    PROVE  Remainder(Add(f, h), p) = Add(Remainder(f, p), Remainder(h, p))
<1> DEFINE lo == M - 1
           hi == 2 * M - 2
           sum == Divisions(Add(f, h), p)
           T == {d \in Int : sum[d] = Add(Divisions(f, p)[d], Divisions(h, p)[d])}
<1>1. lo \in Int /\ hi \in Int /\ lo <= hi /\ hi - 1 = 2 * M - 3
  BY MAssumption
<1>2. Add(f, h) \in Polynomial
  BY DEF Add, Polynomial
<1>3. hi \in T
  BY <1>1, <1>2, DivisionUnfolds
<1>4. ASSUME NEW d \in lo .. hi - 1, d + 1 \in T PROVE d \in T
  <2>1. d \in M - 1 .. 2 * M - 3 /\ d + 1 \in M - 1 .. 2 * M - 2 /\ d + 1 \in Int
    BY <1>1
  <2>2. /\ sum[d] = Cancel(sum[d + 1], d + 1, p)
        /\ Divisions(f, p)[d] = Cancel(Divisions(f, p)[d + 1], d + 1, p)
        /\ Divisions(h, p)[d] = Cancel(Divisions(h, p)[d + 1], d + 1, p)
        /\ Divisions(f, p)[d + 1] \in Polynomial
        /\ Divisions(h, p)[d + 1] \in Polynomial
    BY <1>2, <2>1, DivisionUnfolds
  <2>3. sum[d + 1] = Add(Divisions(f, p)[d + 1], Divisions(h, p)[d + 1])
    BY <1>4
  <2> HIDE DEF sum
  <2>4. sum[d] = Add(Divisions(f, p)[d], Divisions(h, p)[d])
    BY <2>1, <2>2, <2>3, CancelLinear
  <2> QED
    BY <2>1, <2>4
<1> HIDE DEF T
<1>5. lo .. hi \subseteq T
  <2> HIDE DEF lo, hi
  <2> QED
    BY <1>1, <1>3, <1>4, DownInduction
<1>6. M - 1 \in T
  BY <1>1, <1>5
<1> QED
  BY <1>2, <1>6, DivisionUnfolds DEF T

\* A polynomial below the modulus is its own remainder.
LEMMA RemainderOfElement ==
    ASSUME NEW f \in Elem, NEW p \in Elem
    PROVE  Remainder(f, p) = f
<1> DEFINE lo == M - 1
           hi == 2 * M - 2
           T == {d \in Int : Divisions(f, p)[d] = f}
<1>1. lo \in Int /\ hi \in Int /\ lo <= hi /\ hi - 1 = 2 * M - 3
  BY MAssumption
<1>2. f \in Polynomial /\ \A e \in Int : e >= M => e \notin f
  BY MAssumption DEF Elem, Exponents, Polynomial
<1>3. hi \in T
  BY <1>1, <1>2, DivisionUnfolds
<1>4. ASSUME NEW d \in lo .. hi - 1, d + 1 \in T PROVE d \in T
  <2>1. d \in M - 1 .. 2 * M - 3 /\ d + 1 \in Int /\ d \in Int /\ d + 1 >= M
    BY <1>1, MAssumption
  <2>2. Divisions(f, p)[d] = Cancel(f, d + 1, p)
    BY <1>2, <1>4, <2>1, DivisionUnfolds
  <2>3. Cancel(f, d + 1, p) = f
    BY <1>2, <2>1 DEF Cancel
  <2> QED
    BY <2>1, <2>2, <2>3
<1> HIDE DEF T
<1>5. lo .. hi \subseteq T
  <2> HIDE DEF lo, hi
  <2> QED
    BY <1>1, <1>3, <1>4, DownInduction
<1>6. M - 1 \in T
  BY <1>1, <1>5
<1> QED
  BY <1>2, <1>6, DivisionUnfolds DEF T

\* Multiplication by x.
Up(f) == {j \in Int : j - 1 \in f}

\* Multiplying by x moves the division by one place.
LEMMA CancelUp ==
    ASSUME NEW g \in Polynomial, NEW e \in Int, NEW p \in Elem
    PROVE  Cancel(Up(g), e + 1, p) = Up(Cancel(g, e, p))
<1> DEFINE D(k) == {k} \cup {k - M + i : i \in p}
<1>1. M \in Int /\ p \subseteq Int
  BY MAssumption DEF Elem, Exponents
<1>2. D(e + 1) = Up(D(e))
  <2>1. ASSUME NEW j \in D(e + 1) PROVE j \in Up(D(e))
    <3>1. CASE j = e + 1
      BY <3>1 DEF Up
    <3>2. CASE j # e + 1
      <4>1. PICK i \in p : j = e + 1 - M + i
        BY <1>1, <2>1, <3>2
      <4>2. j \in Int /\ j - 1 = e - M + i
        BY <1>1, <4>1
      <4> QED
        BY <4>2 DEF Up
    <3> QED
      BY <3>1, <3>2
  <2>2. ASSUME NEW j \in Up(D(e)) PROVE j \in D(e + 1)
    <3>1. j \in Int /\ j - 1 \in D(e)
      BY DEF Up
    <3>2. CASE j - 1 = e
      BY <3>1, <3>2
    <3>3. CASE j - 1 # e
      <4>1. PICK i \in p : j - 1 = e - M + i
        BY <3>1, <3>3
      <4>2. j = (e + 1) - M + i
        BY <1>1, <3>1, <4>1
      <4>3. j \in {(e + 1) - M + n : n \in p}
        BY <4>2
      <4> QED
        BY <4>3
    <3> QED
      BY <3>2, <3>3
  <2> QED
    BY <2>1, <2>2
<1>3. \A h : Up(Add(g, h)) = Add(Up(g), Up(h))
  BY DEF Up, Add
<1>4. e + 1 \in Up(g) <=> e \in g
  BY DEF Up
<1>5. /\ Cancel(g, e, p) = IF e \in g THEN Add(g, D(e)) ELSE g
      /\ Cancel(Up(g), e + 1, p) = IF e + 1 \in Up(g) THEN Add(Up(g), D(e + 1)) ELSE Up(g)
  BY DEF Cancel
<1> HIDE DEF D
<1> QED
  BY <1>2, <1>3, <1>4, <1>5

\* Cancelling the top term leaves terms below it.
LEMMA CancelLowers ==
    ASSUME NEW e \in Int, e >= M, NEW g \in SUBSET (0 .. e), NEW p \in Elem
    PROVE  Cancel(g, e, p) \in SUBSET (0 .. e - 1)
<1> DEFINE D == {e - M + i : i \in p}
<1>1. D \subseteq 0 .. e - 1
  BY MAssumption DEF Elem, Exponents
<1>2. Cancel(g, e, p) = IF e \in g THEN Add(g, {e} \cup D) ELSE g
  BY DEF Cancel
<1> HIDE DEF D
<1>3. ASSUME NEW j \in Cancel(g, e, p) PROVE j \in 0 .. e - 1
  <2>1. D \subseteq 0 .. e /\ e \in 0 .. e /\ e \notin D
    BY <1>1, MAssumption
  <2>2. CASE e \in g
    <3>1. j \in Add(g, {e} \cup D)
      BY <1>2, <2>2
    <3>2. j \in 0 .. e /\ j # e
      BY <2>1, <2>2, <3>1 DEF Add
    <3> QED
      BY <3>2
  <2>3. CASE e \notin g
    <3>1. j \in g
      BY <1>2, <2>3
    <3>2. j \in 0 .. e /\ j # e
      BY <2>3, <3>1
    <3> QED
      BY <3>2
  <2> QED
    BY <2>2, <2>3
<1> QED
  BY <1>3

\* The remainder of x f, from that of f: shift, and subtract p on overflow.
LEMMA RemainderUp ==
    ASSUME NEW f \in SUBSET (0 .. 2 * M - 3), NEW p \in Elem
    PROVE  /\ Remainder(f, p) \in Elem
           /\ Remainder(Up(f), p)
                = Add(Shl(Remainder(f, p)), When(M - 1 \in Remainder(f, p), p))
<1> DEFINE lo == M - 1
           hi == 2 * M - 3
           low == Divisions(f, p)
           high == Divisions(Up(f), p)
           T == {d \in Int : low[d] \in SUBSET (0 .. d) /\ high[d + 1] = Up(low[d])}
<1>1. /\ lo \in Int /\ hi \in Int /\ lo <= hi /\ hi + 1 = 2 * M - 2
      /\ hi + 1 \notin 0 .. hi /\ lo = M - 1 /\ lo + 1 = M
  BY MAssumption
<1>2. f \in Polynomial /\ Up(f) \in Polynomial /\ hi + 1 \notin f
  <2>1. f \subseteq Int /\ Up(f) \subseteq Int
    BY DEF Up
  <2> QED
    BY <1>1, <2>1 DEF Polynomial
<1>3. hi \in T
  <2>1. hi \in M - 1 .. 2 * M - 3 /\ high[hi + 1] = Up(f) /\ low[hi + 1] = f
    BY <1>1, <1>2, DivisionUnfolds
  <2>2. low[hi] = Cancel(f, hi + 1, p)
    BY <1>2, <2>1, DivisionUnfolds
  <2>3. low[hi] = f
    BY <1>2, <2>2 DEF Cancel
  <2> QED
    BY <1>1, <2>1, <2>3
<1>4. ASSUME NEW d \in lo .. hi - 1, d + 1 \in T PROVE d \in T
  <2>1. /\ d \in M - 1 .. 2 * M - 3 /\ d + 1 \in M - 1 .. 2 * M - 3
        /\ d \in Int /\ d + 1 \in Int /\ d + 1 >= M /\ (d + 1) - 1 = d
    BY <1>1, MAssumption
  <2>2. low[d] = Cancel(low[d + 1], d + 1, p)
    BY <1>2, <2>1, DivisionUnfolds
  <2>3. high[d + 1] = Cancel(high[(d + 1) + 1], (d + 1) + 1, p)
    BY <1>2, <2>1, DivisionUnfolds
  <2>4. low[d + 1] \in SUBSET (0 .. d + 1) /\ high[(d + 1) + 1] = Up(low[d + 1])
    BY <1>4
  <2> HIDE DEF low, high
  <2>5. low[d] \in SUBSET (0 .. d)
    <3>1. Cancel(low[d + 1], d + 1, p) \in SUBSET (0 .. (d + 1) - 1)
      BY <2>1, <2>4, CancelLowers
    <3> QED
      BY <2>1, <2>2, <3>1
  <2>6. low[d + 1] \in Polynomial
    BY <2>4 DEF Polynomial
  <2>7. high[d + 1] = Up(low[d])
    BY <2>1, <2>2, <2>3, <2>4, <2>6, CancelUp
  <2> QED
    BY <2>1, <2>5, <2>7
<1> HIDE DEF T
<1>5. lo .. hi \subseteq T
  <2> HIDE DEF lo, hi
  <2> QED
    BY <1>1, <1>3, <1>4, DownInduction
<1>6. low[M - 1] \in SUBSET (0 .. M - 1) /\ high[M] = Up(low[M - 1])
  <2>1. lo \in T
    BY <1>1, <1>5
  <2> QED
    BY <1>1, <2>1 DEF T
<1>7. Remainder(f, p) = low[M - 1] /\ Remainder(Up(f), p) = high[M - 1]
  BY <1>2, DivisionUnfolds
<1>8. high[M - 1] = Cancel(high[M], M, p)
  <2>1. M - 1 \in M - 1 .. 2 * M - 3 /\ (M - 1) + 1 = M
    BY MAssumption
  <2> QED
    BY <1>2, <2>1, DivisionUnfolds
<1> DEFINE r == low[M - 1]
<1>9. r \in Elem
  BY <1>6 DEF Elem, Exponents
<1>10. Cancel(Up(r), M, p) = Add(Shl(r), When(M - 1 \in r, p))
  <2> HIDE DEF r
  <2>1. {M - M + i : i \in p} = p
    <3>1. \A i \in p : M - M + i = i
      BY MAssumption DEF Elem, Exponents
    <3> QED
      BY <3>1
  <2>2. M \in Up(r) <=> M - 1 \in r
    BY MAssumption DEF Up
  <2>3. Up(r) = IF M - 1 \in r THEN Shl(r) \cup {M} ELSE Shl(r)
    BY <1>9, MAssumption DEF Up, Shl, Elem, Exponents
  <2>4. M \notin Shl(r) /\ M \notin p
    BY MAssumption DEF Shl, Elem, Exponents
  <2>5. CASE M - 1 \in r
    <3>1. Cancel(Up(r), M, p) = Add(Shl(r) \cup {M}, {M} \cup p)
      BY <2>1, <2>2, <2>3, <2>5 DEF Cancel
    <3>2. Add(Shl(r) \cup {M}, {M} \cup p) = Add(Shl(r), p)
      BY <2>4 DEF Add
    <3> QED
      BY <2>5, <3>1, <3>2 DEF When
  <2>6. CASE M - 1 \notin r
    <3>1. Cancel(Up(r), M, p) = Shl(r)
      BY <2>2, <2>3, <2>6 DEF Cancel
    <3>2. Add(Shl(r), Zero) = Shl(r)
      BY DEF Add, Zero
    <3> QED
      BY <2>6, <3>1, <3>2 DEF When
  <2> QED
    BY <2>5, <2>6
<1> QED
  BY <1>6, <1>7, <1>8, <1>9, <1>10

\* The product of v and the k highest terms of u, as a polynomial.
Terms(u, v, k, j) == {i \in u : i >= M - k /\ j - (i - (M - k)) \in v}
Prefix(u, v, k) == {j \in 0 .. 2 * M - 2 : Cardinality(Terms(u, v, k, j)) % 2 = 1}

\* The coefficient of x^j in the product by the top k bits of u, from that by
\* the top k - 1 of them.
LEMMA OneTermMore ==
    ASSUME NEW u \in Elem, NEW v \in Elem, NEW k \in 1 .. M, NEW j \in Int
    PROVE  Cardinality(Terms(u, v, k, j)) % 2 = 1 <=>
             (IF M - k \in u /\ j \in v
              THEN ~(Cardinality(Terms(u, v, k - 1, j - 1)) % 2 = 1)
              ELSE Cardinality(Terms(u, v, k - 1, j - 1)) % 2 = 1)
<1> DEFINE old == Terms(u, v, k - 1, j - 1)
           new == Terms(u, v, k, j)
<1>1. M \in Int /\ u \subseteq Int /\ u \subseteq 0 .. M - 1 /\ v \subseteq Int
  BY MAssumption DEF Elem, Exponents
<1>2. IsFiniteSet(old) /\ Cardinality(old) \in Nat
  <2>1. IsFiniteSet(0 .. M - 1)
    BY <1>1, FS_Interval
  <2>2. old \subseteq 0 .. M - 1
    BY <1>1 DEF Terms
  <2> HIDE DEF old
  <2> QED
    BY <2>1, <2>2, FS_Subset, FS_CardinalityType
<1>3. \A i \in u : i # M - k => (i \in new <=> i \in old)
  <2> SUFFICES ASSUME NEW i \in u, i # M - k
               PROVE  i \in new <=> i \in old
    OBVIOUS
  <2>1. i \in Int /\ (i >= M - k <=> i >= M - (k - 1))
    BY <1>1
  <2>2. j - (i - (M - k)) = (j - 1) - (i - (M - (k - 1)))
    BY <1>1, <2>1
  <2> QED
    BY <2>1, <2>2 DEF Terms
<1>4. M - k \notin old
  BY <1>1 DEF Terms
<1>5. M - k \in new <=> M - k \in u /\ j \in v
  <2>1. j - ((M - k) - (M - k)) = j /\ M - k >= M - k
    BY <1>1
  <2> QED
    BY <2>1 DEF Terms
<1>6. old \subseteq u /\ new \subseteq u
  BY DEF Terms
<1> HIDE DEF old, new
<1>7. CASE M - k \in u /\ j \in v
  <2>1. new = old \cup {M - k}
    BY <1>3, <1>5, <1>6, <1>7
  <2>2. Cardinality(new) = Cardinality(old) + 1
    BY <1>2, <1>4, <2>1, FS_AddElement
  <2>3. Cardinality(new) % 2 = 1 <=> ~(Cardinality(old) % 2 = 1)
    BY <1>2, <2>2
  <2> QED
    BY <1>7, <2>3, Zenon DEF old, new
<1>8. CASE ~(M - k \in u /\ j \in v)
  <2>1. new = old
    BY <1>3, <1>4, <1>5, <1>6, <1>8
  <2> QED
    BY <1>8, <2>1, Zenon DEF old, new
<1> QED
  BY <1>7, <1>8

\* No terms of a product lie outside its degree.
LEMMA TermsWithin ==
    ASSUME NEW u \in Elem, NEW v \in Elem, NEW k \in 0 .. M, NEW j \in Int,
           j < 0 \/ j > M + k - 2
    PROVE  ~(Cardinality(Terms(u, v, k, j)) % 2 = 1)
<1>1. ASSUME NEW i \in Terms(u, v, k, j) PROVE FALSE
  <2>1. i \in u /\ i >= M - k /\ j - (i - (M - k)) \in v
    BY DEF Terms
  <2>2. i \in 0 .. M - 1 /\ j - (i - (M - k)) \in 0 .. M - 1
    BY <2>1 DEF Elem, Exponents
  <2> QED
    BY <2>1, <2>2, MAssumption
<1>2. Terms(u, v, k, j) = {}
  BY <1>1
<1> QED
  BY <1>2, FS_EmptySet

\* The product by the top k bits of u, from that by the top k - 1 of them.
LEMMA PrefixGrows ==
    ASSUME NEW u \in Elem, NEW v \in Elem, NEW k \in 1 .. M
    PROVE  /\ Prefix(u, v, k - 1) \in SUBSET (0 .. 2 * M - 3)
           /\ Prefix(u, v, k) = Add(Up(Prefix(u, v, k - 1)), When(M - k \in u, v))
<1> DEFINE Odd(n, j) == Cardinality(Terms(u, v, n, j)) % 2 = 1
<1>1. k - 1 \in 0 .. M /\ k \in 0 .. M
  BY MAssumption
<1>2. v \subseteq 0 .. M - 1
  BY DEF Elem, Exponents
<1>3. \A j : j \in Prefix(u, v, k) <=> j \in Int /\ Odd(k, j)
  <2>1. \A j \in Int : Odd(k, j) => j \in 0 .. 2 * M - 2
    BY <1>1, TermsWithin, MAssumption
  <2> QED
    BY <2>1 DEF Prefix
<1>4. \A j : j \in Prefix(u, v, k - 1) <=> j \in Int /\ Odd(k - 1, j)
  <2>1. \A j \in Int : Odd(k - 1, j) => j \in 0 .. 2 * M - 2
    BY <1>1, TermsWithin, MAssumption
  <2> QED
    BY <2>1 DEF Prefix
<1>5. \A j \in Int : Odd(k - 1, j) => j \in 0 .. 2 * M - 3
  BY <1>1, TermsWithin, MAssumption
<1>6. \A j \in Int : Odd(k, j) <=> IF M - k \in u /\ j \in v
                                    THEN ~Odd(k - 1, j - 1) ELSE Odd(k - 1, j - 1)
  BY OneTermMore
<1> HIDE DEF Odd
<1>7. ASSUME NEW j
      PROVE  j \in Prefix(u, v, k) <=>
               j \in Add(Up(Prefix(u, v, k - 1)), When(M - k \in u, v))
  <2>1. j \in Up(Prefix(u, v, k - 1)) <=> j \in Int /\ Odd(k - 1, j - 1)
    BY <1>4 DEF Up
  <2>2. j \in When(M - k \in u, v) <=> M - k \in u /\ j \in v
    BY DEF When, Zero
  <2>3. j \in v => j \in Int
    BY <1>2
  <2> QED
    BY <1>3, <1>6, <2>1, <2>2, <2>3 DEF Add
<1>8. Prefix(u, v, k - 1) \in SUBSET (0 .. 2 * M - 3)
  BY <1>4, <1>5
<1> QED
  BY <1>7, <1>8

\* Interleaved multiplication is multiplication in the field.
THEOREM MulIsFieldProduct ==
    ASSUME NEW u \in Elem, NEW v \in Elem, NEW p \in Elem
    PROVE  Mul(u, v, p) = FieldProduct(u, v, p)
<1> DEFINE acc == MulRounds(u, v, p)
           T == {k \in Int : acc[k] = Remainder(Prefix(u, v, k), p)}
<1>1. 0 \in T
  <2>1. Prefix(u, v, 0) = Zero
    <3>1. \A i \in u : ~(i >= M - 0)
      BY MAssumption DEF Elem, Exponents
    <3>2. \A j : Terms(u, v, 0, j) = {}
      BY <3>1 DEF Terms
    <3>3. ~(Cardinality({}) % 2 = 1)
      BY FS_EmptySet
    <3> QED
      BY <3>2, <3>3 DEF Prefix, Zero
  <2>2. acc[0] = Zero /\ Zero \in Elem
    BY MulUnfolds, ElemClosed
  <2> QED
    BY <2>1, <2>2, RemainderOfElement
<1>2. ASSUME NEW n \in 0 .. M - 1, n \in T PROVE n + 1 \in T
  <2> DEFINE k == n + 1
             f == Prefix(u, v, n)
             r == Remainder(f, p)
  <2>1. k \in 1 .. M /\ k - 1 = n /\ k \in Int
    BY MAssumption
  <2>2. acc[k] = MulRound(acc[k - 1], (M - k) \in u, v, p)
    BY <2>1, MulUnfolds, Zenon
  <2>3. acc[k - 1] = r
    BY <1>2, <2>1
  <2> HIDE DEF acc, k
  <2>4. /\ f \in SUBSET (0 .. 2 * M - 3)
        /\ Prefix(u, v, k) = Add(Up(f), When(M - k \in u, v))
    BY <2>1, PrefixGrows
  <2> HIDE DEF f
  <2>5. Up(f) \in Polynomial /\ f \in Polynomial
    BY <2>4 DEF Polynomial, Up
  <2>6. When(M - k \in u, v) \in Elem /\ When(M - k \in u, v) \in Polynomial
    BY ElemClosed, MAssumption DEF When, Elem, Exponents, Polynomial, Zero
  <2>7. Remainder(Prefix(u, v, k), p)
          = Add(Remainder(Up(f), p), Remainder(When(M - k \in u, v), p))
    BY <2>4, <2>5, <2>6, RemainderLinear
  <2>8. Remainder(When(M - k \in u, v), p) = When(M - k \in u, v)
    BY <2>6, RemainderOfElement
  <2>9. Remainder(Up(f), p) = Add(Shl(r), When(M - 1 \in r, p))
    BY <2>4, RemainderUp
  <2>10. acc[k] = Remainder(Prefix(u, v, k), p)
    BY <2>2, <2>3, <2>7, <2>8, <2>9, Zenon DEF MulRound
  <2> QED
    BY <2>1, <2>10 DEF k
<1> HIDE DEF T
<1>3. 0 .. M \subseteq T
  BY <1>1, <1>2, MAssumption, IntervalInduction
<1>4. acc[M] = Remainder(Prefix(u, v, M), p)
  <2>1. M \in 0 .. M
    BY MAssumption
  <2> QED
    BY <1>3, <2>1 DEF T
<1>5. Prefix(u, v, M) = CarrylessProduct(u, v)
  <2>1. ASSUME NEW j \in 0 .. 2 * M - 2
        PROVE  Terms(u, v, M, j) = {i \in u : j - i \in v}
    <3>1. \A i \in u : i >= M - M /\ j - (i - (M - M)) = j - i
      BY MAssumption DEF Elem, Exponents
    <3> QED
      BY <3>1 DEF Terms
  <2> QED
    BY <2>1 DEF Prefix, CarrylessProduct
<1> QED
  BY <1>4, <1>5, MulUnfolds DEF FieldProduct

-----------------------------------------------------------------------------
\* The repeated squares, and the products of the first of them.
Squares(u, p) ==
    CHOOSE sqr : sqr = [i \in 1 .. M - 1 |->
        IF i = 1 THEN Mul(u, u, p) ELSE Mul(sqr[i - 1], sqr[i - 1], p)]
Products(u, p) ==
    CHOOSE c : c = [i \in 1 .. M - 1 |->
        IF i = 1 THEN Squares(u, p)[1] ELSE Mul(c[i - 1], Squares(u, p)[i], p)]

\* Inv, one square and one product after the other.
LEMMA InvUnfolds ==
    ASSUME NEW u \in Elem, NEW p \in Elem
    PROVE  /\ Inv(u, p) = Products(u, p)[M - 1]
           /\ \A i \in 1 .. M - 1 : /\ Squares(u, p)[i] \in Elem
                                   /\ Products(u, p)[i] \in Elem
           /\ Squares(u, p)[1] = Mul(u, u, p)
           /\ Products(u, p)[1] = Squares(u, p)[1]
           /\ \A i \in 2 .. M - 1 :
                 /\ Squares(u, p)[i] =
                       Mul(Squares(u, p)[i - 1], Squares(u, p)[i - 1], p)
                 /\ Products(u, p)[i] =
                       Mul(Products(u, p)[i - 1], Squares(u, p)[i], p)
<1> DEFINE sq == Squares(u, p)
           pr == Products(u, p)
           IsSq(s) == s = [i \in 1 .. M - 1 |->
              IF i = 1 THEN Mul(u, u, p) ELSE Mul(s[i - 1], s[i - 1], p)]
           IsPr(c) == c = [i \in 1 .. M - 1 |->
              IF i = 1 THEN sq[1] ELSE Mul(c[i - 1], sq[i], p)]
<1>1. 1 \in Int /\ M - 1 \in Int /\ 1 <= M - 1 /\ 1 \in 1 .. M - 1
  BY MAssumption
<1>2. \E s : IsSq(s)
  <2> DEFINE step == [i \in 2 .. M - 1 |-> [e \in Elem |-> Mul(e, e, p)]]
  <2>1. ASSUME NEW i \in 1 + 1 .. M - 1, NEW e \in Elem
        PROVE  step[i][e] = Mul(e, e, p) /\ step[i][e] \in Elem
    <3>1. i \in 2 .. M - 1
      OBVIOUS
    <3> QED
      BY <3>1, MulClosed
  <2> HIDE DEF step
  <2>2. IsStep(step, Elem, 1, M - 1)
    BY <2>1 DEF IsStep
  <2>3. Mul(u, u, p) \in Elem
    BY MulClosed
  <2>4. PICK f : IsIteration(f, Elem, Mul(u, u, p), step, 1, M - 1)
    BY <1>1, <2>2, <2>3, Iteration
  <2>5. ASSUME NEW i \in 1 .. M - 1, i # 1
        PROVE  f[i] = Mul(f[i - 1], f[i - 1], p)
    <3>1. i \in 1 + 1 .. M - 1 /\ i - 1 \in 1 .. M - 1
      BY <2>5, <1>1
    <3> QED
      BY <2>1, <2>4, <3>1 DEF IsIteration
  <2>6. IsSq(f)
    BY <2>4, <2>5 DEF IsIteration
  <2> QED
    BY <2>6
<1>3. IsSq(sq)
  BY <1>2 DEF Squares
<1>4. /\ sq[1] = Mul(u, u, p)
      /\ \A i \in 2 .. M - 1 : sq[i] = Mul(sq[i - 1], sq[i - 1], p)
  BY <1>1, <1>3
<1>5. \A i \in 1 .. M - 1 : sq[i] \in Elem
  <2> HIDE DEF sq
  <2>1. sq[1] \in Elem
    BY <1>4, MulClosed
  <2>2. ASSUME NEW i \in 1 + 1 .. M - 1, sq[i - 1] \in Elem PROVE sq[i] \in Elem
    BY <1>4, <2>2, MulClosed
  <2> QED
    BY <1>1, <2>1, <2>2, IterationRange
<1> HIDE DEF sq
<1>6. \E c : IsPr(c)
  <2> DEFINE step == [i \in 2 .. M - 1 |-> [e \in Elem |-> Mul(e, sq[i], p)]]
  <2>1. ASSUME NEW i \in 1 + 1 .. M - 1, NEW e \in Elem
        PROVE  step[i][e] = Mul(e, sq[i], p) /\ step[i][e] \in Elem
    <3>1. i \in 2 .. M - 1 /\ sq[i] \in Elem
      BY <1>5
    <3> QED
      BY <3>1, MulClosed
  <2> HIDE DEF step
  <2>2. IsStep(step, Elem, 1, M - 1)
    BY <2>1 DEF IsStep
  <2>3. sq[1] \in Elem
    BY <1>1, <1>5
  <2>4. PICK f : IsIteration(f, Elem, sq[1], step, 1, M - 1)
    BY <1>1, <2>2, <2>3, Iteration
  <2>5. ASSUME NEW i \in 1 .. M - 1, i # 1
        PROVE  f[i] = Mul(f[i - 1], sq[i], p)
    <3>1. i \in 1 + 1 .. M - 1 /\ i - 1 \in 1 .. M - 1
      BY <2>5, <1>1
    <3> QED
      BY <2>1, <2>4, <3>1 DEF IsIteration
  <2>6. IsPr(f)
    BY <2>4, <2>5 DEF IsIteration
  <2> QED
    BY <2>6
<1>7. IsPr(pr)
  BY <1>6 DEF Products, sq
<1>8. /\ pr[1] = sq[1]
      /\ \A i \in 2 .. M - 1 : pr[i] = Mul(pr[i - 1], sq[i], p)
  BY <1>1, <1>7
<1>9. \A i \in 1 .. M - 1 : pr[i] \in Elem
  <2> HIDE DEF pr
  <2>1. pr[1] \in Elem
    BY <1>1, <1>5, <1>8
  <2>2. ASSUME NEW i \in 1 + 1 .. M - 1, pr[i - 1] \in Elem PROVE pr[i] \in Elem
    <3>1. i \in 2 .. M - 1 /\ sq[i] \in Elem
      BY <1>5
    <3> QED
      BY <1>8, <2>2, <3>1, MulClosed
  <2> QED
    BY <1>1, <2>1, <2>2, IterationRange
<1>10. Inv(u, p) = pr[M - 1]
  BY DEF Inv, Products, Squares
<1> QED
  BY <1>4, <1>5, <1>8, <1>9, <1>10 DEF sq

\* What the inversion returns has M bits.
LEMMA InvClosed ==
    ASSUME NEW u \in Elem, NEW p \in Elem
    PROVE  Inv(u, p) \in Elem
<1>1. M - 1 \in 1 .. M - 1
  BY MAssumption
<1> QED
  BY <1>1, InvUnfolds

-----------------------------------------------------------------------------
Operation == [mode : Modes, a : Elem, b : Elem, p : Elem]

\* Every result of CORE has M bits.
LEMMA ResultClosed ==
    ASSUME NEW op \in Operation
    PROVE  CoreResult(op) \in Elem
  BY MulClosed, InvClosed, ElemClosed DEF Operation, CoreResult, Modes

\* Every operation of CORE takes at least three edges.
LEMMA LatencyPositive ==
    ASSUME NEW op, op.mode \in Modes
    PROVE  CoreLatency(op) \in Nat /\ CoreLatency(op) >= 3
<1>1. LastMult \in Nat /\ MultPeriod \in Nat
  BY MAssumption DEF LastMult, MultPeriod
<1>2. LastMult * MultPeriod \in Nat
  BY <1>1
<1> QED
  BY <1>2, MAssumption DEF CoreLatency, Modes

\* The steps a list of operations is made of, and the edges each costs.
CostOf(step) == CoreLatency([Idle EXCEPT !.mode = step.mode]) + 2

\* Every entry of a list of operations takes a number of edges.
LEMMA CostPositive ==
    ASSUME NEW step, step.mode \in Modes PROVE CostOf(step) \in Nat
<1> DEFINE op == [Idle EXCEPT !.mode = step.mode]
<1>1. op.mode \in Modes
  BY DEF Idle
<1> HIDE DEF op
<1>2. CoreLatency(op) \in Nat
  BY <1>1, LatencyPositive
<1> QED
  BY <1>2 DEF CostOf, op

EdgeSums(program) ==
    CHOOSE sum : sum = [j \in 1 .. Len(program) + 1 |->
          IF j > Len(program) THEN 0 ELSE CostOf(program[j]) + sum[j + 1]]

\* The edges left from entry k of a list: those of the entry and of the rest.
LEMMA EdgesUnfold ==
    ASSUME NEW program, Len(program) \in Nat,
           \A k \in 1 .. Len(program) : program[k].mode \in Modes
    PROVE  /\ \A k \in 1 .. Len(program) + 1 : EdgesFrom(program, k) \in Nat
           /\ EdgesFrom(program, Len(program) + 1) = 0
           /\ \A k \in 1 .. Len(program) :
                 EdgesFrom(program, k)
                   = CostOf(program[k]) + EdgesFrom(program, k + 1)
<1> DEFINE n == Len(program)
           sums == EdgeSums(program)
           IsSum(s) == s = [j \in 1 .. n + 1 |->
              IF j > n THEN 0 ELSE CostOf(program[j]) + s[j + 1]]
<1>1. n \in Nat
  OBVIOUS
<1>2. \A j \in 1 .. n : CostOf(program[j]) \in Nat
  BY CostPositive
<1>3. \E s : IsSum(s)
  <2> DEFINE step == [i \in 1 .. n |-> [x \in Nat |-> CostOf(program[n + 1 - i]) + x]]
  <2>1. ASSUME NEW i \in 0 + 1 .. n, NEW x \in Nat
        PROVE  step[i][x] = CostOf(program[n + 1 - i]) + x /\ step[i][x] \in Nat
    <3>1. i \in 1 .. n /\ n + 1 - i \in 1 .. n
      BY <1>1
    <3>2. CostOf(program[n + 1 - i]) \in Nat
      BY <1>2, <3>1
    <3> QED
      BY <3>1, <3>2
  <2> HIDE DEF step
  <2>2. IsStep(step, Nat, 0, n)
    BY <2>1 DEF IsStep
  <2>3. 0 \in Int /\ n \in Int /\ 0 <= n /\ 0 \in Nat
    BY <1>1
  <2>4. PICK f : IsIteration(f, Nat, 0, step, 0, n)
    BY <2>2, <2>3, Iteration
  <2> DEFINE s == [j \in 1 .. n + 1 |-> f[n + 1 - j]]
  <2>5. ASSUME NEW j \in 1 .. n + 1
        PROVE  s[j] = IF j > n THEN 0 ELSE CostOf(program[j]) + s[j + 1]
    <3>1. CASE j > n
      <4>1. j = n + 1 /\ s[j] = f[0]
        BY <1>1, <3>1
      <4> QED
        BY <2>4, <3>1, <4>1 DEF IsIteration
    <3>2. CASE ~(j > n)
      <4>1. n + 1 - j \in 0 + 1 .. n /\ n + 1 - (n + 1 - j) = j
            /\ (n + 1 - j) - 1 = n + 1 - (j + 1) /\ (n + 1 - j) - 1 \in 0 .. n
            /\ j + 1 \in 1 .. n + 1
        BY <1>1, <3>2
      <4>2. f[n + 1 - j] = step[n + 1 - j][f[(n + 1 - j) - 1]]
            /\ f[(n + 1 - j) - 1] \in Nat
        BY <2>4, <4>1 DEF IsIteration
      <4> QED
        BY <2>1, <3>2, <4>1, <4>2
    <3> QED
      BY <3>1, <3>2
  <2>6. IsSum(s)
    BY <2>5
  <2> QED
    BY <2>6
<1>4. IsSum(sums)
  BY <1>3 DEF EdgeSums
<1>5. /\ sums[n + 1] = 0
      /\ \A j \in 1 .. n : sums[j] = CostOf(program[j]) + sums[j + 1]
  BY <1>1, <1>4
<1>6. \A k : EdgesFrom(program, k) = sums[k]
  BY DEF EdgesFrom, EdgeSums, CostOf
<1> HIDE DEF sums
<1>7. \A k \in 1 .. n + 1 : sums[k] \in Nat
  <2> DEFINE T == {i \in Int : sums[n + 1 - i] \in Nat}
  <2>1. 0 \in T
    BY <1>1, <1>5
  <2>2. ASSUME NEW i \in 0 .. n - 1, i \in T PROVE i + 1 \in T
    <3>1. n - i \in 1 .. n /\ n + 1 - (i + 1) = n - i /\ n + 1 - i = (n - i) + 1
      BY <1>1
    <3>2. CostOf(program[n - i]) \in Nat /\ sums[n + 1 - i] \in Nat
      BY <1>2, <2>2, <3>1
    <3> QED
      BY <1>5, <3>1, <3>2
  <2> HIDE DEF T
  <2>3. 0 .. n \subseteq T
    <3> HIDE DEF n
    <3>1. 0 \in Int /\ n \in Int
      BY <1>1
    <3> QED
      BY <2>1, <2>2, <3>1, IntervalInduction
  <2>4. ASSUME NEW k \in 1 .. n + 1 PROVE sums[k] \in Nat
    <3>1. n + 1 - k \in 0 .. n /\ n + 1 - (n + 1 - k) = k
      BY <1>1
    <3> QED
      BY <2>3, <3>1 DEF T
  <2> QED
    BY <2>4
<1> QED
  BY <1>5, <1>6, <1>7
====
