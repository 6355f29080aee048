-------------------------- MODULE ScalarMultProofs --------------------------
(***************************************************************************)
(* Proofs about ScalarMult for every width W of the scalar, every number   *)
(* of edges the two units take and every set of requests: types, the use   *)
(* of the units, the invariant of double-and-add, and the handshake.  What *)
(* is supposed of the operations of pa0 and pd0 is said where it is        *)
(* needed: Closed and GroupLaws, which TLC evaluates for the two groups of *)
(* MCScalarMult.                                                           *)
(***************************************************************************)
EXTENDS GoldenScalarMult, WellFoundedInduction, TLAPS

(***************************************************************************)
(* The inductive invariant: Control, which needs nothing of the group, and *)
(* Multiplying, which is LoopInvariant with the operands of the additions  *)
(* and the way the loop ends.                                              *)
(***************************************************************************)
\* The inputs, the state machine and the output.
Driven == /\ rst_n \in BOOLEAN /\ start \in BOOLEAN /\ seen \in BOOLEAN
          /\ req \in Requests /\ state \in 0 .. 3
          /\ ~rst_n => state = 0 /\ ~start
          /\ finish \in BOOLEAN /\ (finish <=> state = 3)
          /\ P_o = IF state = 3 THEN R ELSE Blank

\* pa0 works in state 1 only, on the R and A of that state.
Adding == /\ pa_phase \in {"idle", "busy", "done"}
          /\ pa_phase # "idle" => state = 1
          /\ pa_left \in 0 .. PaEdges
          /\ pa_P_o = IF pa_phase = "done" THEN Plus(R, A) ELSE Blank

\* pd0 works in state 2 only, on the A of that state.
Doubling == /\ pd_phase \in {"idle", "busy", "done"}
            /\ pd_phase # "idle" => state = 2
            /\ pd_left \in 0 .. PdEdges
            /\ pd_P_o = IF pd_phase = "done" THEN Twice(A) ELSE Blank

Control == Driven /\ Adding /\ Doubling

Registers == /\ cnt \in -Power[W - 1] .. Power[W - 1] - 1
             /\ A \in Points /\ R \in Points

\* Where the loop is after k rounds: low is what the bits of n seen so far
\* amount to, the bit of this round excepted.
Round(k, low) ==
    /\ req.n = Power[k] * cnt + low
    /\ A = Times(Power[k], req.P)
    /\ R = Times(IF state = 2 /\ Bit0(cnt) THEN low + Power[k] ELSE low, req.P)
    /\ state = 1 => Bit0(cnt)
    \* The loop leaves 2 at once, so it comes to 1 from 3, if not from n = 1.
    /\ cnt = 1 => req.n = 1 \/ 2 * req.n >= 3 * Power[k]

Looping == /\ cnt \in Nat \ {0}
           /\ \E k \in 0 .. W - 2 : \E low \in 0 .. Power[k] - 1 : Round(k, low)

Multiplying == InRange(req.n) =>
                  /\ state \in {1, 2} => Looping
                  /\ state = 3 => R = SmResult(req)

-----------------------------------------------------------------------------
(***************************************************************************)
(* Arithmetic: the powers of 2, and division by them.                      *)
(***************************************************************************)
\* The order of the naturals has no infinite descent.
LEMMA LessWellFounded == IsWellFoundedOn({ss \in Nat \X Nat : ss[1] < ss[2]}, Nat)
  BY NatLessThanWellFounded DEF OpToRel

\* Induction up to a bound, as a fact about a set.
LEMMA UpTo ==
   ASSUME NEW b \in Nat, NEW T, 0 \in T, \A i \in 0 .. b - 1 : i \in T => i + 1 \in T
   PROVE  0 .. b \subseteq T
<1> DEFINE L == {ss \in Nat \X Nat : ss[1] < ss[2]}
           F == {i \in 0 .. b : i \notin T}
<1> SUFFICES ASSUME F # {} PROVE FALSE
  OBVIOUS
<1>1. PICK x \in F : \A y \in F : ~ (<<y, x>> \in L)
  <2>1. IsWellFoundedOn(L, Nat) /\ F \subseteq Nat
    BY LessWellFounded
  <2> HIDE DEF L, F
  <2> QED
    BY <2>1, WFMin
<1>2. x \in 1 .. b
  OBVIOUS
<1>3. x - 1 \in F /\ <<x - 1, x>> \in L
  BY <1>2
<1> QED
  BY <1>1, <1>3

\* Up to every bound there is a function that doubles from 1.
LEMMA DoublingExists ==
    \E f \in [0 .. W -> Nat] : f[0] = 1 /\ \A i \in 1 .. W : f[i] = 2 * f[i - 1]
<1> DEFINE Upto(k, f) == /\ f \in [0 .. k -> Nat] /\ f[0] = 1
                         /\ \A i \in 1 .. k : f[i] = 2 * f[i - 1]
           T == {k \in Nat : \E f : Upto(k, f)}
<1>1. 0 \in T
  <2>1. Upto(0, [i \in 0 .. 0 |-> 1])
    OBVIOUS
  <2> QED
    BY <2>1
<1>2. ASSUME NEW k \in 0 .. W - 1, k \in T PROVE k + 1 \in T
  <2>1. PICK f : Upto(k, f)
    BY <1>2
  <2> DEFINE g == [i \in 0 .. k + 1 |-> IF i = k + 1 THEN 2 * f[k] ELSE f[i]]
  <2>2. f[k] \in Nat /\ \A i \in 0 .. k : f[i] \in Nat
    BY <2>1
  <2>3. g \in [0 .. k + 1 -> Nat] /\ g[0] = 1
    BY <2>1, <2>2
  <2>4. ASSUME NEW i \in 1 .. k + 1 PROVE g[i] = 2 * g[i - 1]
    <3>1. CASE i = k + 1
      BY <3>1
    <3>2. CASE i # k + 1
      <4>1. i \in 1 .. k /\ i - 1 \in 0 .. k + 1 /\ i - 1 # k + 1
        BY <3>2
      <4> QED
        BY <3>2, <4>1, <2>1
    <3> QED
      BY <3>1, <3>2
  <2>5. Upto(k + 1, g)
    BY <2>3, <2>4
  <2> HIDE DEF Upto, g
  <2>6. k + 1 \in Nat
    BY ScalarAssumption
  <2> QED
    BY <2>5, <2>6
<1> HIDE DEF T
<1>3. 0 .. W \subseteq T /\ W \in 0 .. W
  BY <1>1, <1>2, UpTo, ScalarAssumption
<1> QED
  BY <1>3 DEF T

\* What the recursive definition of Power says.
LEMMA PowerUnfolds ==
    /\ Power \in [0 .. W -> Nat]
    /\ Power[0] = 1
    /\ \A k \in 0 .. W - 1 : Power[k + 1] = 2 * Power[k]
<1> DEFINE IsPower(f) == f = [k \in 0 .. W |-> IF k = 0 THEN 1 ELSE 2 * f[k - 1]]
<1>1. PICK f \in [0 .. W -> Nat] :
         f[0] = 1 /\ \A i \in 1 .. W : f[i] = 2 * f[i - 1]
  BY DoublingExists
<1>2. IsPower(f)
  <2>1. \A k \in 0 .. W : f[k] = IF k = 0 THEN 1 ELSE 2 * f[k - 1]
    BY <1>1
  <2>2. f = [k \in 0 .. W |-> f[k]]
    OBVIOUS
  <2> QED
    BY <2>1, <2>2
<1>3. Power = CHOOSE g : IsPower(g)
  BY DEF Power
<1> HIDE DEF IsPower
<1>4. IsPower(Power)
  BY <1>2, <1>3
<1>5. \A k \in 0 .. W : Power[k] = IF k = 0 THEN 1 ELSE 2 * Power[k - 1]
  BY <1>4 DEF IsPower
<1>6. Power = [k \in 0 .. W |-> Power[k]]
  BY <1>4 DEF IsPower
<1>7. Power[0] = 1 /\ \A k \in 0 .. W - 1 : Power[k + 1] = 2 * Power[k]
  <2>1. ASSUME NEW k \in 0 .. W - 1 PROVE Power[k + 1] = 2 * Power[k]
    <3>1. k + 1 \in 0 .. W /\ k + 1 # 0 /\ (k + 1) - 1 = k
      BY ScalarAssumption
    <3> QED
      BY <1>5, <3>1
  <2> QED
    BY <2>1, <1>5, ScalarAssumption
<1>8. \A k \in 0 .. W : Power[k] \in Nat
  <2> DEFINE T == {k \in 0 .. W : Power[k] \in Nat}
  <2>1. 0 \in T /\ W \in Nat
    BY <1>7, ScalarAssumption
  <2>2. \A k \in 0 .. W - 1 : k \in T => k + 1 \in T
    BY <1>7, <2>1
  <2> HIDE DEF T
  <2>3. 0 .. W \subseteq T
    BY <2>1, <2>2, UpTo
  <2> QED
    BY <2>3 DEF T
<1> QED
  BY <1>6, <1>7, <1>8

\* A larger power is at least twice a smaller one.
LEMMA PowersGrow ==
    /\ \A k \in 0 .. W : Power[k] \in Nat \ {0}
    /\ \A i, j \in 0 .. W : i < j => 2 * Power[i] <= Power[j]
<1>1. \A k \in 0 .. W : Power[k] \in Nat \ {0}
  <2> DEFINE T == {k \in 0 .. W : Power[k] \in Nat \ {0}}
  <2>1. 0 \in T /\ W \in Nat
    BY PowerUnfolds, ScalarAssumption
  <2>2. \A k \in 0 .. W - 1 : k \in T => k + 1 \in T
    BY PowerUnfolds, <2>1
  <2> HIDE DEF T
  <2>3. 0 .. W \subseteq T
    BY <2>1, <2>2, UpTo
  <2> QED
    BY <2>3 DEF T
<1>2. ASSUME NEW i \in 0 .. W PROVE \A j \in 0 .. W : i < j => 2 * Power[i] <= Power[j]
  <2> DEFINE T == {j \in 0 .. W : i < j => 2 * Power[i] <= Power[j]}
  <2>1. 0 \in T /\ W \in Nat
    BY ScalarAssumption
  <2>2. ASSUME NEW j \in 0 .. W - 1, j \in T PROVE j + 1 \in T
    <3>1. /\ j \in 0 .. W /\ j + 1 \in 0 .. W /\ Power[j + 1] = 2 * Power[j]
          /\ Power[i] \in Nat /\ Power[j] \in Nat
      BY <2>1, <1>1, PowerUnfolds
    <3>2. CASE i < j
      BY <3>1, <3>2, <2>2
    <3>3. CASE i = j
      BY <3>1, <3>3
    <3>4. CASE i > j
      BY <3>1, <3>4
    <3> QED
      BY <3>1, <3>2, <3>3, <3>4
  <2> HIDE DEF T
  <2>3. 0 .. W \subseteq T
    BY <2>1, <2>2, UpTo
  <2> QED
    BY <2>3 DEF T
<1> QED
  BY <1>1, <1>2

\* Quotient and remainder are what a sum d q + r shows.
LEMMA Division ==
    ASSUME NEW d \in Nat \ {0}, NEW q \in Nat, NEW r \in 0 .. d - 1,
           NEW n, n = d * q + r
    PROVE  n \div d = q /\ n % d = r
<1>1. (d * q + r) \div d = q
  OBVIOUS
<1>2. (d * q + r) % d = r
  OBVIOUS
<1> QED
  BY <1>1, <1>2

\* The halves of a counter: its lowest bit and what remains.
LEMMA Halving ==
    ASSUME NEW c \in Int
    PROVE  /\ ShiftRight(c) \in Int
           /\ c = 2 * ShiftRight(c) + (IF Bit0(c) THEN 1 ELSE 0)
  BY DEF ShiftRight, Bit0

\* The power found in a number is its top bit.
LEMMA TopBitIs ==
    ASSUME NEW k \in 0 .. W - 1, NEW n \in Nat, Power[k] <= n, n < 2 * Power[k]
    PROVE  TopBit(n) = Power[k]
<1> DEFINE Is(t) == t \in {Power[i] : i \in 0 .. W - 1} /\ t <= n /\ n < 2 * t
<1>1. Is(Power[k])
  OBVIOUS
<1>2. ASSUME NEW t, Is(t) PROVE t = Power[k]
  <2>1. PICK j \in 0 .. W - 1 : t = Power[j]
    BY <1>2
  <2>2. /\ j \in 0 .. W /\ k \in 0 .. W
        /\ Power[j] \in Nat /\ Power[k] \in Nat
    BY PowersGrow, ScalarAssumption
  <2>3. ~(j < k) /\ ~(k < j)
    BY <2>1, <2>2, <1>2, PowersGrow
  <2> QED
    BY <2>1, <2>3
<1>3. TopBit(n) = CHOOSE t : Is(t)
  BY DEF TopBit
<1> HIDE DEF Is
<1> QED
  BY <1>1, <1>2, <1>3

-----------------------------------------------------------------------------
(***************************************************************************)
(* The clock edge, one register at a time.                                 *)
(***************************************************************************)
\* fsm, in each of its states.
LEMMA FsmIs ==
    ASSUME state \in 0 .. 3, rst_n', fsm
    PROVE  /\ state = 0 => state' = IF ~start THEN 0 ELSE IF Bit0(req.n) THEN 1 ELSE 2
           /\ state = 1 => state' = IF pa_finish THEN 2 ELSE 1
           /\ state = 2 => state' = IF LastDoubling THEN 3
                                    ELSE IF pd_finish /\ Bit1(cnt) THEN 1 ELSE 2
           /\ state = 3 => state' = 0
  BY DEF fsm

\* count, in each of its states.
LEMMA CountIs ==
    ASSUME state \in 0 .. 3, rst_n', count
    PROVE  /\ state = 0 => cnt' = IF start THEN Signed(req.n) ELSE 0
           /\ state = 1 => cnt' = cnt
           /\ state = 2 => cnt' = IF LastDoubling THEN 0
                                  ELSE IF pd_finish THEN ShiftRight(cnt) ELSE cnt
           /\ state = 3 => cnt' = 0
  BY DEF count

\* sequ, in each of its states.
LEMMA SequIs ==
    ASSUME state \in 0 .. 3, rst_n', sequ
    PROVE  /\ state = 0 => A' = req.P /\ R' = Infinity(req.P)
           /\ state = 1 => A' = A /\ R' = IF pa_finish THEN pa_P_o ELSE R
           /\ state = 2 => A' = (IF pd_finish THEN pd_P_o ELSE A) /\ R' = R
           /\ state = 3 => A' = Blank /\ R' = Blank
  BY DEF sequ

\* Under reset every register is cleared, whatever its state.
LEMMA Cleared ==
    ASSUME ~rst_n', Clocked
    PROVE  /\ state' = 0 /\ cnt' = 0 /\ A' = Blank /\ R' = Blank
           /\ P_o' = Blank /\ finish' = FALSE
<1>1. state' = 0
  BY DEF Clocked, fsm
<1>2. cnt' = 0
  BY DEF Clocked, count
<1>3. A' = Blank /\ R' = Blank
  BY DEF Clocked, sequ
<1>4. P_o' = Blank /\ finish' = FALSE
  BY DEF Clocked, done
<1> QED
  BY <1>1, <1>2, <1>3, <1>4

\* pa0 on an edge: while it is idle it takes what comb asks, and while it works
\* its operands are the R and A of state 1.
LEMMA AddingEdge ==
    ASSUME Control, pa0!Edge
    PROVE  /\ pa_phase' \in {"idle", "busy", "done"}
           /\ pa_left' \in 0 .. PaEdges
           /\ pa_phase = "idle" => /\ pa_phase' = (IF pa_start THEN "busy" ELSE "idle")
                                   /\ pa_P_o' = Blank
           /\ pa_phase = "busy" =>
                 \/ pa_phase' = "busy" /\ pa_P_o' = Blank
                 \/ pa_phase' = "done" /\ pa_P_o' = Plus(R, A)
           /\ pa_phase = "done" => pa_phase' = "idle" /\ pa_P_o' = Blank
<1>1. pa_left \in 0 .. PaEdges /\ PaEdges \in Nat \ {0}
  BY ScalarAssumption DEF Control, Adding
<1>2. pa_phase # "idle" => state = 1
  BY DEF Control, Adding
<1>3. pa_phase # "done" => pa_P_o = Blank
  BY DEF Control, Adding
<1>4. state = 1 => pa_op = <<R, A>>
  BY DEF pa_op, Starting
<1>5. CASE pa0!Rest
  BY <1>1, <1>3, <1>5 DEF pa0!Rest
<1>6. CASE pa0!Accept
  BY <1>1, <1>3, <1>6 DEF pa0!Accept, PaEdgesOf
<1>7. CASE pa0!Work
  BY <1>1, <1>3, <1>7 DEF pa0!Work
<1>8. CASE pa0!Complete
  <2>1. pa_P_o' = Plus(R, A)
    BY <1>2, <1>4, <1>8 DEF pa0!Complete, PaOf
  <2> QED
    BY <1>1, <1>8, <2>1 DEF pa0!Complete
<1>9. CASE pa0!Release
  BY <1>1, <1>9 DEF pa0!Release
<1> QED
  BY <1>5, <1>6, <1>7, <1>8, <1>9 DEF pa0!Edge

\* pd0 on an edge, the same with the A of state 2.
LEMMA DoublingEdge ==
    ASSUME Control, pd0!Edge
    PROVE  /\ pd_phase' \in {"idle", "busy", "done"}
           /\ pd_left' \in 0 .. PdEdges
           /\ pd_phase = "idle" => /\ pd_phase' = (IF pd_start THEN "busy" ELSE "idle")
                                   /\ pd_P_o' = Blank
           /\ pd_phase = "busy" =>
                 \/ pd_phase' = "busy" /\ pd_P_o' = Blank
                 \/ pd_phase' = "done" /\ pd_P_o' = Twice(A)
           /\ pd_phase = "done" => pd_phase' = "idle" /\ pd_P_o' = Blank
<1>1. pd_left \in 0 .. PdEdges /\ PdEdges \in Nat \ {0}
  BY ScalarAssumption DEF Control, Doubling
<1>2. pd_phase # "idle" => state = 2
  BY DEF Control, Doubling
<1>3. pd_phase # "done" => pd_P_o = Blank
  BY DEF Control, Doubling
<1>4. state = 2 => pd_op = A
  BY DEF pd_op, Starting
<1>5. CASE pd0!Rest
  BY <1>1, <1>3, <1>5 DEF pd0!Rest
<1>6. CASE pd0!Accept
  BY <1>1, <1>3, <1>6 DEF pd0!Accept, PdEdgesOf
<1>7. CASE pd0!Work
  BY <1>1, <1>3, <1>7 DEF pd0!Work
<1>8. CASE pd0!Complete
  <2>1. pd_P_o' = Twice(A)
    BY <1>2, <1>4, <1>8 DEF pd0!Complete
  <2> QED
    BY <1>1, <1>8, <2>1 DEF pd0!Complete
<1>9. CASE pd0!Release
  BY <1>1, <1>9 DEF pd0!Release
<1> QED
  BY <1>5, <1>6, <1>7, <1>8, <1>9 DEF pd0!Edge

\* In state 0 comb asks one unit at most, and fsm goes to the state of it.
LEMMA AskedFor ==
    /\ pa_start <=> state = 1 \/ (state = 0 /\ start /\ seen /\ Bit0(req.n))
    /\ pd_start <=> state = 2 \/ (state = 0 /\ start /\ seen /\ ~Bit0(req.n))
  BY DEF pa_start, pd_start, Starting

-----------------------------------------------------------------------------
(***************************************************************************)
(* Control: who works in which state, and what the outputs show.           *)
(***************************************************************************)
\* Control holds at power-on.
LEMMA InitControl == Init => Control
<1> SUFFICES ASSUME Init PROVE Control
  OBVIOUS
<1>1. Driven
  <2>1. rst_n \in BOOLEAN /\ start \in BOOLEAN /\ seen \in BOOLEAN
    BY DEF Init
  <2>2. req \in Requests /\ state \in 0 .. 3 /\ (~rst_n => state = 0 /\ ~start)
    BY DEF Init
  <2>3. finish \in BOOLEAN /\ (finish <=> state = 3)
    <3>1. state # 3
      BY DEF Init
    <3>2. finish = FALSE
      BY DEF Init
    <3> QED
      BY <3>1, <3>2, Zenon
  <2>4. P_o = IF state = 3 THEN R ELSE Blank
    BY DEF Init
  <2> QED
    BY <2>1, <2>2, <2>3, <2>4 DEF Driven
<1>2. Adding
  BY ScalarAssumption DEF Init, pa0!Quiet, Adding
<1>3. Doubling
  BY ScalarAssumption DEF Init, pd0!Quiet, Doubling
<1> QED
  BY <1>1, <1>2, <1>3 DEF Control

\* What a client may do on an edge keeps the inputs in their range.
LEMMA ClientTyped ==
    ASSUME Driven, ClientHolds \/ ClientMoves
    PROVE  start' \in BOOLEAN /\ seen' \in BOOLEAN /\ req' \in Requests
<1>1. CASE ClientHolds
  BY <1>1 DEF ClientHolds, Driven
<1>2. CASE ClientMoves
  <2>1. start' \in BOOLEAN /\ seen' \in BOOLEAN
    BY <1>2, Zenon DEF ClientMoves
  <2>2. req' \in Requests
    BY <1>2, Zenon DEF ClientMoves, Driven
  <2> QED
    BY <2>1, <2>2
<1> QED
  BY <1>1, <1>2

\* done: the output shows R while the state machine is in 3, and only then.
LEMMA OutputIs ==
    ASSUME Control, rst_n', Clocked
    PROVE  /\ state' \in 0 .. 3
           /\ finish' \in BOOLEAN /\ (finish' <=> state' = 3)
           /\ P_o' = IF state' = 3 THEN R' ELSE Blank
<1>1. state \in 0 .. 3
  BY DEF Control, Driven
<1>2. state' \in 0 .. 3 /\ (state' = 3 <=> LastDoubling)
  <2>1. LastDoubling => state = 2
    BY DEF LastDoubling
  <2> QED
    BY <1>1, <2>1, FsmIs DEF Clocked
<1>3. finish' \in BOOLEAN /\ (finish' <=> LastDoubling)
  BY Zenon DEF Clocked, done
<1>6. state' = 3 => R' = R
  BY <1>1, <1>2, SequIs DEF Clocked, LastDoubling
<1>7. P_o' = IF LastDoubling THEN R ELSE Blank
  BY DEF Clocked, done
<1> QED
  <2>1. P_o' = IF state' = 3 THEN R' ELSE Blank
    BY <1>2, <1>6, <1>7
  <2>2. finish' \in BOOLEAN /\ (finish' <=> state' = 3)
    BY <1>2, <1>3, Zenon
  <2> QED
    BY <1>2, <2>1, <2>2

\* Both units: the one that works goes on in its state with its operands kept,
\* and when it has finished the state machine leaves that state.
LEMMA UnitsStep ==
    ASSUME Control, rst_n', Clocked, pa0!Edge, pd0!Edge
    PROVE  Adding' /\ Doubling'
<1>1. /\ state \in 0 .. 3
      /\ pa_phase \in {"idle", "busy", "done"} /\ (pa_phase # "idle" => state = 1)
      /\ pd_phase \in {"idle", "busy", "done"} /\ (pd_phase # "idle" => state = 2)
  BY DEF Control, Driven, Adding, Doubling
<1>2. pa_phase' = "done" => pa_phase = "busy"
  BY <1>1, AddingEdge
<1>3. pd_phase' = "done" => pd_phase = "busy"
  BY <1>1, DoublingEdge
<1>4. pa_phase' # "idle" => state' = 1
  <2>1. CASE pa_phase = "idle"
    <3>1. pa_phase' # "idle" => pa_start
      BY <2>1, AddingEdge
    <3>2. pa_start => state = 1 \/ (state = 0 /\ start /\ Bit0(req.n))
      BY AskedFor
    <3>3. state = 1 => state' = 1
      BY <1>1, <2>1, FsmIs DEF Clocked, pa_finish
    <3>4. state = 0 /\ start /\ Bit0(req.n) => state' = 1
      BY <1>1, FsmIs DEF Clocked
    <3> QED
      BY <3>1, <3>2, <3>3, <3>4
  <2>2. CASE pa_phase = "busy"
    BY <1>1, <2>2, FsmIs DEF Clocked, pa_finish
  <2>3. CASE pa_phase = "done"
    BY <2>3, AddingEdge
  <2> QED
    BY <1>1, <2>1, <2>2, <2>3
<1>5. pd_phase' # "idle" => state' = 2
  <2>1. CASE pd_phase = "idle"
    <3>1. pd_phase' # "idle" => pd_start
      BY <2>1, DoublingEdge
    <3>2. pd_start => state = 2 \/ (state = 0 /\ start /\ ~Bit0(req.n))
      BY AskedFor
    <3>3. state = 2 => state' = 2
      BY <1>1, <2>1, FsmIs DEF Clocked, pd_finish, LastDoubling
    <3>4. state = 0 /\ start /\ ~Bit0(req.n) => state' = 2
      BY <1>1, FsmIs DEF Clocked
    <3> QED
      BY <3>1, <3>2, <3>3, <3>4
  <2>2. CASE pd_phase = "busy"
    BY <1>1, <2>2, FsmIs DEF Clocked, pd_finish, LastDoubling
  <2>3. CASE pd_phase = "done"
    BY <2>3, DoublingEdge
  <2> QED
    BY <1>1, <2>1, <2>2, <2>3
<1>6. pa_P_o' = IF pa_phase' = "done" THEN Plus(R', A') ELSE Blank
  <2>1. pa_phase = "busy" => R' = R /\ A' = A
    BY <1>1, SequIs DEF Clocked, pa_finish
  <2> QED
    BY <1>1, <1>2, <2>1, AddingEdge
<1>7. pd_P_o' = IF pd_phase' = "done" THEN Twice(A') ELSE Blank
  <2>1. pd_phase = "busy" => A' = A
    BY <1>1, SequIs DEF Clocked, pd_finish
  <2> QED
    BY <1>1, <1>3, <2>1, DoublingEdge
<1>8. Adding'
  BY <1>4, <1>6, AddingEdge DEF Adding
<1>9. Doubling'
  BY <1>5, <1>7, DoublingEdge DEF Doubling
<1> QED
  BY <1>8, <1>9

\* Every step keeps Control.
LEMMA StepControl == Control /\ [Next]_vars => Control'
<1> SUFFICES ASSUME Control, [Next]_vars PROVE Control'
  OBVIOUS
<1>1. CASE Posedge
  <2>1. rst_n' /\ rst_n' \in BOOLEAN
    BY <1>1 DEF Posedge, Control, Driven
  <2>2. Adding' /\ Doubling'
    BY <1>1, <2>1, UnitsStep DEF Posedge
  <2>3. start' \in BOOLEAN /\ seen' \in BOOLEAN /\ req' \in Requests
    BY <1>1, ClientTyped DEF Posedge, Control
  <2>4. /\ state' \in 0 .. 3
        /\ finish' \in BOOLEAN /\ (finish' <=> state' = 3)
        /\ P_o' = IF state' = 3 THEN R' ELSE Blank
    BY <1>1, <2>1, OutputIs DEF Posedge
  <2>5. Driven'
    BY <2>1, <2>3, <2>4 DEF Driven
  <2> QED
    BY <2>2, <2>5 DEF Control
<1>2. CASE Reset
  <2>1. ~rst_n' /\ rst_n' \in BOOLEAN /\ ~start' /\ start' \in BOOLEAN
    BY <1>2 DEF Reset, NoRequest
  <2>2. seen' \in BOOLEAN /\ req' \in Requests
    BY <1>2 DEF Reset, NoRequest, Control, Driven
  <2>3. /\ state' = 0 /\ P_o' = Blank /\ finish' = FALSE
    BY <1>2, <2>1, Cleared DEF Reset
  <2>4. Driven'
    <3>1. state' \in 0 .. 3 /\ (~rst_n' => state' = 0 /\ ~start')
      BY <2>1, <2>3
    <3>2. finish' \in BOOLEAN /\ (finish' <=> state' = 3)
      <4>1. state' # 3
        BY <2>3
      <4> QED
        BY <2>3, <4>1, Zenon
    <3>3. P_o' = IF state' = 3 THEN R' ELSE Blank
      BY <2>3
    <3> QED
      BY <2>1, <2>2, <3>1, <3>2, <3>3 DEF Driven
  <2>5. Adding'
    BY <1>2, ScalarAssumption DEF Reset, pa0!Abort, Adding
  <2>6. Doubling'
    BY <1>2, ScalarAssumption DEF Reset, pd0!Abort, Doubling
  <2> QED
    BY <2>4, <2>5, <2>6 DEF Control
<1>3. CASE Release
  <2>1. rst_n' /\ rst_n' \in BOOLEAN /\ start' \in BOOLEAN
    BY <1>3 DEF Release, NoRequest
  <2>2. Adding' /\ Doubling'
    BY <1>3, <2>1, UnitsStep DEF Release
  <2>3. seen' \in BOOLEAN /\ req' \in Requests
    BY <1>3 DEF Release, NoRequest, Control, Driven
  <2>4. /\ state' \in 0 .. 3
        /\ finish' \in BOOLEAN /\ (finish' <=> state' = 3)
        /\ P_o' = IF state' = 3 THEN R' ELSE Blank
    BY <1>3, <2>1, OutputIs DEF Release
  <2>5. Driven'
    BY <2>1, <2>3, <2>4 DEF Driven
  <2> QED
    BY <2>2, <2>5 DEF Control
<1>4. CASE UNCHANGED vars
  <2> USE <1>4 DEF vars, inputs, smRegs, paVars, pdVars
  <2>1. Driven'
    BY DEF Control, Driven
  <2>2. Adding'
    BY DEF Control, Adding
  <2>3. Doubling'
    BY DEF Control, Doubling
  <2> QED
    BY <2>1, <2>2, <2>3 DEF Control
<1> QED
  BY <1>1, <1>2, <1>3, <1>4 DEF Next

\* Control holds all along: the state machine and the two units keep in step.
THEOREM Invariance == Spec => []Control
  BY InitControl, StepControl, PTL DEF Spec

-----------------------------------------------------------------------------
(***************************************************************************)
(* Types.                                                                  *)
(***************************************************************************)
\* The widths of the counter and of the scalar.
LEMMA Widths ==
    /\ Power[W - 1] \in Nat \ {0} /\ Power[W] = 2 * Power[W - 1]
    /\ \A r \in Requests : r.n \in 0 .. Power[W] - 1 /\ r.P \in Points
<1>1. W - 1 \in 0 .. W - 1 /\ (W - 1) + 1 = W /\ W - 1 \in 0 .. W
  BY ScalarAssumption
<1>2. Power[W - 1] \in Nat \ {0} /\ Power[W] = 2 * Power[W - 1]
  BY <1>1, PowersGrow, PowerUnfolds
<1>3. \A r \in Requests : r.n \in 0 .. Power[W] - 1 /\ r.P \in Points
  BY ScalarAssumption
<1> QED
  BY <1>2, <1>3

\* Reading n into the counter and shifting it right keep it W bits wide.
LEMMA CounterFits ==
    /\ \A r \in Requests : Signed(r.n) \in -Power[W - 1] .. Power[W - 1] - 1
    /\ \A c \in -Power[W - 1] .. Power[W - 1] - 1 :
          ShiftRight(c) \in -Power[W - 1] .. Power[W - 1] - 1
<1>1. ASSUME NEW r \in Requests
      PROVE  Signed(r.n) \in -Power[W - 1] .. Power[W - 1] - 1
  BY Widths DEF Signed
<1>2. ASSUME NEW c \in -Power[W - 1] .. Power[W - 1] - 1
      PROVE  ShiftRight(c) \in -Power[W - 1] .. Power[W - 1] - 1
  BY Widths DEF ShiftRight
<1> QED
  BY <1>1, <1>2

\* The outputs of the two units are points.
LEMMA AnswersTyped ==
    ASSUME Closed, Control, Registers
    PROVE  pa_P_o \in Points /\ pd_P_o \in Points /\ P_o \in Points
  BY DEF Closed, Control, Driven, Adding, Doubling, Registers

\* An edge with the reset high keeps the registers in their range.
LEMMA EdgeRegisters ==
    ASSUME Closed, Control, Registers, rst_n', Clocked
    PROVE  Registers'
<1>1. /\ state \in 0 .. 3 /\ req \in Requests /\ req.P \in Points
      /\ Power[W - 1] \in Nat \ {0}
  BY Widths DEF Control, Driven
<1>2. Infinity(req.P) \in Points /\ Blank \in Points
  BY <1>1 DEF Closed
<1>3. cnt' \in -Power[W - 1] .. Power[W - 1] - 1
  <2>1. 0 \in -Power[W - 1] .. Power[W - 1] - 1
    BY <1>1
  <2>2. /\ cnt \in -Power[W - 1] .. Power[W - 1] - 1
        /\ ShiftRight(cnt) \in -Power[W - 1] .. Power[W - 1] - 1
        /\ Signed(req.n) \in -Power[W - 1] .. Power[W - 1] - 1
    BY <1>1, CounterFits DEF Registers
  <2> QED
    BY <1>1, <2>1, <2>2, CountIs DEF Clocked
<1>4. A' \in Points /\ R' \in Points
  BY <1>1, <1>2, AnswersTyped, SequIs DEF Clocked, Registers
<1> QED
  BY <1>3, <1>4 DEF Registers

\* Every step keeps the registers in their range.
LEMMA StepRegisters ==
    ASSUME Closed
    PROVE  Control /\ Registers /\ [Next]_vars => Registers'
<1> SUFFICES ASSUME Control, Registers, [Next]_vars PROVE Registers'
  OBVIOUS
<1>1. CASE Posedge
  BY <1>1, EdgeRegisters DEF Posedge
<1>2. CASE Reset
  <2>1. cnt' = 0 /\ A' = Blank /\ R' = Blank
    BY <1>2, Cleared DEF Reset
  <2> QED
    BY <2>1, Widths DEF Registers, Closed
<1>3. CASE Release
  BY <1>3, EdgeRegisters DEF Release
<1>4. CASE UNCHANGED vars
  BY <1>4 DEF vars, smRegs, Registers
<1> QED
  BY <1>1, <1>2, <1>3, <1>4 DEF Next

\* The registers start in their range.
LEMMA InitRegisters ==
    ASSUME Closed
    PROVE  Init => Registers
  BY Widths DEF Init, Registers, Closed

\* Every register keeps its width: in particular the signed counter, which is
\* loaded with an unsigned scalar and shifted arithmetically, and the points,
\* whatever operations pa0 and pd0 are as long as they return points.
THEOREM Typed ==
    ASSUME Closed
    PROVE  Spec => []TypeOK
<1>1. Init => Registers
  BY InitRegisters
<1>2. Control /\ Registers /\ [Next]_vars => Registers'
  BY StepRegisters
<1>3. Control /\ Registers => TypeOK
  <2> SUFFICES ASSUME Control, Registers PROVE TypeOK
    OBVIOUS
  <2>1. pa_P_o \in Points /\ pd_P_o \in Points /\ P_o \in Points
    BY AnswersTyped
  <2> QED
    BY <2>1, Zenon DEF TypeOK, Control, Driven, Adding, Doubling, Registers
<1> QED
  BY <1>1, <1>2, <1>3, Invariance, PTL DEF Spec

-----------------------------------------------------------------------------
(***************************************************************************)
(* The operands of pa0 and pd0.                                            *)
(***************************************************************************)
\* What comb puts on the operand inputs of the two units.
LEMMA OperandsAre ==
    /\ state = 1 => pa_op = <<R, A>>
    /\ state = 2 => pd_op = A
    /\ Starting /\ Bit0(req.n) => pa_op = <<Infinity(req.P), req.P>>
    /\ Starting /\ ~Bit0(req.n) => pd_op = req.P
<1>1. state = 1 => pa_op = <<R, A>>
  BY DEF pa_op, Starting
<1>2. state = 2 => pd_op = A
  BY DEF pd_op, Starting
<1>3. Starting /\ Bit0(req.n) => pa_op = <<Infinity(req.P), req.P>>
  BY DEF pa_op, Starting, pa_start
<1>4. Starting /\ ~Bit0(req.n) => pd_op = req.P
  BY DEF pd_op, Starting, pd_start
<1> QED
  BY <1>1, <1>2, <1>3, <1>4

\* The same in the next state.
LEMMA OperandsWillBe ==
    /\ state' = 1 => pa_op' = <<R', A'>>
    /\ state' = 2 => pd_op' = A'
<1> DEFINE Ops == /\ state = 1 => pa_op = <<R, A>>
                  /\ state = 2 => pd_op = A
<1>1. Ops
  BY OperandsAre
<1> HIDE DEF Ops
<1>2. Ops'
  BY <1>1, PTL
<1> QED
  BY <1>2 DEF Ops

\* While pa0 works or is asked, its operands stay and pd0 rests.
LEMMA AddingStable ==
    ASSUME Control, rst_n', Clocked, pa0!InFlight
    PROVE  pa_op' = pa_op /\ ~pd0!InFlight
<1>1. state \in 0 .. 3 /\ (pd_phase # "idle" => state = 2)
  BY DEF Control, Driven, Doubling
<1>2. pa_start => state = 1 \/ (Starting /\ Bit0(req.n))
  BY DEF pa_start
<1>3. pa_phase = "busy" => state = 1
  BY DEF Control, Adding
<1>4. CASE state = 1 /\ pa_phase # "done"
  <2>1. state' = 1 /\ A' = A /\ R' = R
    BY <1>1, <1>4, FsmIs, SequIs DEF Clocked, pa_finish
  <2>2. pa_op' = pa_op
    BY <1>4, <2>1, OperandsAre, OperandsWillBe
  <2>3. ~pd_start /\ pd_phase = "idle"
    BY <1>1, <1>4, AskedFor
  <2> QED
    BY <2>2, <2>3 DEF pd0!InFlight
<1>5. CASE Starting /\ Bit0(req.n)
  <2>1. state = 0 /\ state' = 1 /\ A' = req.P /\ R' = Infinity(req.P)
    BY <1>1, <1>5, FsmIs, SequIs DEF Clocked, Starting
  <2>2. pa_op' = pa_op
    BY <1>5, <2>1, OperandsAre, OperandsWillBe
  <2>3. ~pd_start /\ pd_phase = "idle"
    BY <1>1, <1>5, <2>1, AskedFor
  <2> QED
    BY <2>2, <2>3 DEF pd0!InFlight
<1>6. pa_phase # "done"
  BY DEF pa0!InFlight
<1> QED
  BY <1>2, <1>3, <1>4, <1>5, <1>6 DEF pa0!InFlight

\* While pd0 works or is asked, its operand stays.
LEMMA DoublingStable ==
    ASSUME Control, rst_n', Clocked, pd0!InFlight
    PROVE  pd_op' = pd_op
<1>1. state \in 0 .. 3
  BY DEF Control, Driven
<1>2. pd_start => state = 2 \/ (Starting /\ ~Bit0(req.n))
  BY DEF pd_start
<1>3. pd_phase = "busy" => state = 2
  BY DEF Control, Doubling
<1>4. CASE state = 2 /\ pd_phase # "done"
  <2>1. state' = 2 /\ A' = A
    BY <1>1, <1>4, FsmIs, SequIs DEF Clocked, pd_finish, LastDoubling
  <2> QED
    BY <1>4, <2>1, OperandsAre, OperandsWillBe
<1>5. CASE Starting /\ ~Bit0(req.n)
  <2>1. state = 0 /\ state' = 2 /\ A' = req.P
    BY <1>1, <1>5, FsmIs, SequIs DEF Clocked, Starting
  <2> QED
    BY <1>5, <2>1, OperandsAre, OperandsWillBe
<1>6. pd_phase # "done"
  BY DEF pd0!InFlight
<1> QED
  BY <1>2, <1>3, <1>4, <1>5, <1>6 DEF pd0!InFlight

\* SCALAR_MULT uses its two units as their handshakes ask: never both at once,
\* and with the operands of a request kept until it is answered, although they
\* move from comb's first guess to the registers on the way, and although comb
\* may see start or miss it.
THEOREM UsesUnitsProperly == Spec => UnitsUsedProperly
<1>1. Control /\ [Next]_vars =>
         [rst_n' => /\ pa0!InFlight => pa_op' = pa_op /\ ~pd0!InFlight
                    /\ pd0!InFlight => pd_op' = pd_op]_vars
  <2> SUFFICES ASSUME Control, Next, rst_n'
               PROVE  /\ pa0!InFlight => pa_op' = pa_op /\ ~pd0!InFlight
                      /\ pd0!InFlight => pd_op' = pd_op
    OBVIOUS
  <2>1. Clocked
    BY DEF Next, Posedge, Reset, Release
  <2> QED
    BY <2>1, AddingStable, DoublingStable
<1> QED
  BY <1>1, Invariance, PTL DEF Spec, UnitsUsedProperly

-----------------------------------------------------------------------------
(***************************************************************************)
(* The loop.                                                               *)
(***************************************************************************)
\* What the group laws give for one request.
LEMMA LawsOf ==
    ASSUME GroupLaws, NEW r \in Requests, InRange(r.n)
    PROVE  /\ Times(0, r.P) = Infinity(r.P) /\ Times(1, r.P) = r.P
           /\ \A k \in 0 .. W - 1, i \in 0 .. r.n :
                i < Power[k] /\ i + Power[k] <= r.n =>
                   Plus(Times(i, r.P), Times(Power[k], r.P))
                      = Times(i + Power[k], r.P)
           /\ \A k \in 0 .. W - 2 : Power[k + 1] <= r.n =>
                Twice(Times(Power[k], r.P)) = Times(Power[k + 1], r.P)
  BY DEF GroupLaws

\* The powers a round is about.
LEMMA RoundPowers ==
    ASSUME NEW k \in 0 .. W - 2
    PROVE  /\ Power[k] \in Nat \ {0} /\ Power[k + 1] = 2 * Power[k]
           /\ k + 1 \in 0 .. W - 1 /\ k \in 0 .. W - 1
<1>1. k \in 0 .. W - 1 /\ k \in 0 .. W /\ k + 1 \in 0 .. W - 1
  BY ScalarAssumption
<1> QED
  BY <1>1, PowersGrow, PowerUnfolds

\* What is left of n times the weight of the round is at least that weight.
LEMMA AtLeastOneWeight ==
    ASSUME NEW d \in Nat \ {0}, NEW c \in Nat \ {0}
    PROVE  d * c >= d /\ d * c \in Nat
<1>1. d * c = d + d * (c - 1)
  OBVIOUS
<1>2. d * (c - 1) \in Nat
  OBVIOUS
<1> QED
  BY <1>1, <1>2

\* The loop that ends at 2 has missed the top bit of a scalar that starts with
\* 1 0; the loop that ends at 1 has seen every bit of one that does not.
LEMMA LastRound ==
    ASSUME NEW k \in 0 .. W - 2, NEW low \in 0 .. Power[k] - 1, NEW n \in Nat
    PROVE  /\ n = 2 * Power[k] + low => StartsWith10(n) /\ n - TopBit(n) = low
           /\ n = Power[k] + low /\ (n = 1 \/ 2 * n >= 3 * Power[k]) =>
                 ~StartsWith10(n)
<1>1. /\ Power[k] \in Nat \ {0} /\ Power[k + 1] = 2 * Power[k]
      /\ k + 1 \in 0 .. W - 1 /\ k \in 0 .. W - 1
  BY RoundPowers
<1>2. ASSUME n = 2 * Power[k] + low
      PROVE  StartsWith10(n) /\ n - TopBit(n) = low
  <2>1. TopBit(n) = Power[k + 1]
    BY <1>1, <1>2, TopBitIs
  <2> QED
    BY <1>1, <1>2, <2>1 DEF StartsWith10
<1>3. ASSUME n = Power[k] + low, n = 1 \/ 2 * n >= 3 * Power[k]
      PROVE  ~StartsWith10(n)
  <2>1. TopBit(n) = Power[k]
    BY <1>1, <1>3, TopBitIs
  <2> QED
    BY <1>1, <1>3, <2>1 DEF StartsWith10
<1> QED
  BY <1>2, <1>3

\* The edge that accepts a request enters the loop with nothing done.
LEMMA LoopEntered ==
    ASSUME GroupLaws, Control, rst_n', Clocked,
           state = 0, start, req' = req, InRange(req.n)
    PROVE  state' \in {1, 2} /\ Looping'
<1>1. /\ req \in Requests /\ req.n \in Nat /\ W - 2 \in Nat
      /\ Power[0] = 1 /\ Power[W - 1] \in Nat
  BY Widths, PowerUnfolds, ScalarAssumption DEF Control, Driven
<1>2. cnt' = req.n
  <2>1. cnt' = Signed(req.n)
    BY CountIs DEF Clocked
  <2> QED
    BY <1>1, <2>1 DEF Signed, InRange
<1>3. state' = IF Bit0(req.n) THEN 1 ELSE 2
  BY FsmIs DEF Clocked
<1>4. A' = Times(1, req.P) /\ R' = Times(0, req.P)
  BY <1>1, LawsOf, SequIs DEF Clocked
<1>5. cnt' \in Nat \ {0}
  BY <1>1, <1>2 DEF InRange
<1>6. Round(0, 0)'
  <2>1. req.n' = Power[0] * cnt' + 0
    BY <1>1, <1>2
  <2>2. Bit0(cnt') <=> state' = 1
    BY <1>2, <1>3
  <2>3. R' = Times(IF state' = 2 /\ Bit0(cnt') THEN 0 + Power[0] ELSE 0, req.P)
    BY <1>3, <1>4, <2>2
  <2>4. cnt' = 1 => req.n' = 1
    BY <1>2
  <2> QED
    BY <1>1, <1>4, <2>1, <2>2, <2>3, <2>4 DEF Round, Bit0
<1>7. 0 \in 0 .. W - 2 /\ 0 \in 0 .. Power[0] - 1
  BY <1>1
<1>8. Looping'
  BY <1>5, <1>6, <1>7 DEF Looping
<1> QED
  BY <1>3, <1>8

\* State 1: pa0 adds the weight of the round to what has been done.
LEMMA LoopAdds ==
    ASSUME GroupLaws, Control, rst_n', Clocked,
           state = 1, Looping, req' = req, InRange(req.n)
    PROVE  state' \in {1, 2} /\ Looping'
<1>1. PICK k \in 0 .. W - 2 : \E low \in 0 .. Power[k] - 1 : Round(k, low)
  BY DEF Looping
<1>2. PICK low \in 0 .. Power[k] - 1 : Round(k, low)
  BY <1>1
<1>3. cnt \in Nat \ {0} /\ cnt' = cnt /\ A' = A
  BY CountIs, SequIs DEF Looping, Clocked
<1>4. Bit0(cnt) /\ R = Times(low, req.P) /\ A = Times(Power[k], req.P)
  BY <1>2 DEF Round
<1>5. CASE ~pa_finish
  <2>1. state' = state /\ R' = R
    BY <1>5, FsmIs, SequIs DEF Clocked
  <2>2. Round(k, low)'
    BY <1>2, <1>3, <2>1 DEF Round, Bit0
  <2> QED
    BY <1>3, <2>1, <2>2 DEF Looping
<1>6. CASE pa_finish
  <2>1. state' = 2 /\ R' = pa_P_o
    BY <1>6, FsmIs, SequIs DEF Clocked
  <2>2. R' = Plus(R, A)
    BY <1>6, <2>1 DEF Control, Adding, pa_finish
  <2>3. low + Power[k] <= req.n /\ low \in 0 .. req.n /\ k \in 0 .. W - 1
    <3>1. Power[k] * cnt >= Power[k] /\ Power[k] * cnt \in Nat
      BY <1>3, RoundPowers, AtLeastOneWeight
    <3>2. req.n = Power[k] * cnt + low
      BY <1>2 DEF Round
    <3>3. Power[k] \in Nat
      BY RoundPowers
    <3> HIDE DEF Looping
    <3> QED
      BY <3>1, <3>2, <3>3, RoundPowers
  <2>4. low < Power[k]
    BY RoundPowers
  <2>5. R' = Times(low + Power[k], req.P)
    BY <1>4, <2>2, <2>3, <2>4, LawsOf DEF Control, Driven
  <2>6. Round(k, low)'
    BY <1>2, <1>3, <1>4, <2>1, <2>5 DEF Round, Bit0
  <2> QED
    BY <1>3, <2>1, <2>6 DEF Looping
<1> QED
  BY <1>5, <1>6

\* State 2: pd0 doubles the weight, until 1 or 2 is left of n.
LEMMA LoopDoubles ==
    ASSUME GroupLaws, Control, rst_n', Clocked,
           state = 2, Looping, req' = req, InRange(req.n)
    PROVE  \/ state' \in {1, 2} /\ Looping'
           \/ state' = 3 /\ R' = SmResult(req)
<1>1. PICK k \in 0 .. W - 2 : \E low \in 0 .. Power[k] - 1 : Round(k, low)
  BY DEF Looping
<1>2. PICK low \in 0 .. Power[k] - 1 : Round(k, low)
  BY <1>1
<1> DEFINE d == Power[k]
           bit == IF Bit0(cnt) THEN 1 ELSE 0
           low2 == IF Bit0(cnt) THEN low + d ELSE low
<1>3. /\ d \in Nat \ {0} /\ Power[k + 1] = 2 * d /\ low \in 0 .. d - 1
      /\ low2 \in 0 .. 2 * d - 1
  BY RoundPowers
<1>4. cnt \in Nat \ {0} /\ R' = R
  BY SequIs DEF Looping, Clocked
<1>5. /\ req.n = d * cnt + low
      /\ R = Times(low2, req.P) /\ A = Times(d, req.P)
      /\ cnt = 1 => req.n = 1 \/ 2 * req.n >= 3 * d
  BY <1>2 DEF Round
<1>6. CASE ~pd_finish
  <2>1. state' = state /\ cnt' = cnt /\ A' = A
    BY <1>6, FsmIs, CountIs, SequIs DEF Clocked, LastDoubling
  <2>2. Round(k, low)'
    BY <1>2, <1>4, <2>1 DEF Round, Bit0
  <2> QED
    BY <1>4, <2>1, <2>2 DEF Looping
<1>7. CASE pd_finish /\ cnt \in {1, 2}
  <2>1. state' = 3
    BY <1>7, FsmIs DEF Clocked, LastDoubling
  <2>2. CASE cnt = 2
    <3>1. req.n = 2 * d + low /\ low2 = low
      BY <1>3, <1>5, <2>2 DEF Bit0
    <3>2. StartsWith10(req.n) /\ req.n - TopBit(req.n) = low
      BY <1>3, <3>1, LastRound
    <3> QED
      BY <1>4, <1>5, <2>1, <3>1, <3>2 DEF SmResult
  <2>3. CASE cnt = 1
    <3>1. req.n = d + low /\ low2 = req.n
      BY <1>3, <1>5, <2>3 DEF Bit0
    <3>2. ~StartsWith10(req.n)
      BY <1>3, <1>5, <2>3, <3>1, LastRound
    <3> QED
      BY <1>4, <1>5, <2>1, <3>1, <3>2 DEF SmResult
  <2> QED
    BY <1>7, <2>2, <2>3
<1>8. CASE pd_finish /\ cnt \notin {1, 2}
  <2> DEFINE half == ShiftRight(cnt)
  <2>1. half \in Nat \ {0} /\ cnt = 2 * half + bit /\ (half = 1 => cnt = 3)
    BY <1>4, <1>8, Halving DEF ShiftRight, Bit0
  <2>2. /\ state' = IF Bit0(half) THEN 1 ELSE 2
        /\ cnt' = half /\ A' = pd_P_o
    <3>1. ~LastDoubling
      BY <1>8 DEF LastDoubling
    <3> QED
      BY <1>8, <3>1, FsmIs, CountIs, SequIs DEF Clocked, Bit1
  <2> HIDE DEF half
  <2>3. req.n = Power[k + 1] * half + low2
    <3>1. d * cnt = (2 * d) * half + d * bit
      BY <1>3, <2>1
    <3>2. low2 = low + d * bit /\ bit \in Nat
      BY <1>3
    <3>3. Power[k + 1] * half = (2 * d) * half
      BY <1>3
    <3>4. (2 * d) * half \in Nat /\ d * bit \in Nat
      BY <1>3, <2>1, <3>2
    <3> HIDE DEF d, bit, low2
    <3> QED
      BY <1>3, <1>5, <3>1, <3>2, <3>3, <3>4
  <2>4. k + 1 \in 0 .. W - 2 /\ Power[k + 1] <= req.n
    <3>1. Power[k + 1] * half >= Power[k + 1] /\ Power[k + 1] * half \in Nat
      BY <1>3, <2>1, AtLeastOneWeight
    <3>2. Power[k + 1] <= req.n
      BY <1>3, <2>3, <3>1
    <3>3. k + 1 # W - 1
      <4>1. Power[W - 1] \in Nat /\ req.n \in Nat /\ req.n < Power[W - 1]
        BY Widths DEF InRange, Control, Driven
      <4> QED
        BY <3>2, <4>1
    <3> QED
      BY <3>2, <3>3, ScalarAssumption
  <2>5. A' = Times(Power[k + 1], req.P)
    <3>1. A' = Twice(A)
      BY <1>8, <2>2 DEF Control, Doubling, pd_finish
    <3> QED
      BY <1>5, <2>4, <3>1, LawsOf DEF Control, Driven
  <2>6. half = 1 => 2 * req.n >= 3 * Power[k + 1]
    <3> SUFFICES ASSUME half = 1 PROVE 2 * req.n >= 3 * Power[k + 1]
      OBVIOUS
    <3>1. req.n = 3 * d + low
      BY <1>5, <1>3, <2>1
    <3> QED
      BY <1>3, <3>1
  <2>7. PICK done_bits \in 0 .. Power[k + 1] - 1 : done_bits = low2
    BY <1>3
  <2> HIDE DEF low2
  <2>8. Round(k + 1, done_bits)'
    <3>1. ~(state' = 2 /\ Bit0(cnt')) /\ (state' = 1 => Bit0(cnt'))
      BY <2>2
    <3>2. R' = Times(done_bits, req.P)
      BY <1>4, <1>5, <2>7
    <3> QED
      BY <2>2, <2>3, <2>5, <2>6, <2>7, <3>1, <3>2 DEF Round, Bit0
  <2>9. state' \in {1, 2} /\ cnt' \in Nat \ {0}
    BY <2>1, <2>2
  <2> QED
    BY <2>4, <2>8, <2>9 DEF Looping
<1> QED
  BY <1>6, <1>7, <1>8

\* A clock edge keeps what is known of the loop, whatever the state.
LEMMA EdgeMultiplying ==
    ASSUME GroupLaws, Control, Multiplying, rst_n', Clocked,
           InFlight => req' = req
    PROVE  Multiplying'
<1>1. state \in 0 .. 3
  BY DEF Control, Driven
<1>2. CASE state \in {1, 2} \/ (state = 0 /\ start)
  <2>1. req' = req
    BY <1>2 DEF InFlight
  <2> SUFFICES ASSUME InRange(req.n)
               PROVE  /\ state' \in {1, 2} => Looping'
                      /\ state' = 3 => R' = SmResult(req)
    BY <2>1 DEF Multiplying, InRange, SmResult, StartsWith10, TopBit
  <2>2. state \in {1, 2} => Looping
    BY DEF Multiplying
  <2> QED
    BY <1>2, <2>1, <2>2, LoopEntered, LoopAdds, LoopDoubles
<1>3. CASE state = 3 \/ (state = 0 /\ ~start)
  <2>1. state' = 0
    BY <1>1, <1>3, FsmIs DEF Clocked
  <2> QED
    BY <2>1 DEF Multiplying
<1> QED
  BY <1>1, <1>2, <1>3

\* Every step keeps it.
LEMMA StepMultiplying ==
    ASSUME GroupLaws
    PROVE  Control /\ Multiplying /\ [Next]_vars => Multiplying'
<1> SUFFICES ASSUME Control, Multiplying, [Next]_vars PROVE Multiplying'
  OBVIOUS
<1>1. CASE Posedge
  <2>1. InFlight => req' = req
    BY <1>1 DEF Posedge, ClientHolds, ClientMoves
  <2> QED
    BY <1>1, <2>1, EdgeMultiplying DEF Posedge
<1>2. CASE Reset
  <2>1. state' = 0
    BY <1>2, Cleared DEF Reset
  <2> QED
    BY <2>1 DEF Multiplying
<1>3. CASE Release
  <2>1. req' = req
    BY <1>3 DEF Release, NoRequest
  <2> QED
    BY <1>3, <2>1, EdgeMultiplying DEF Release
<1>4. CASE UNCHANGED vars
  <2> USE <1>4 DEF vars, inputs, smRegs
  <2>1. Looping => Looping'
    BY DEF Looping, Round, Bit0
  <2>2. R' = R /\ req' = req /\ state' = state
    OBVIOUS
  <2> QED
    BY <2>1, <2>2 DEF Multiplying, InRange, SmResult, StartsWith10, TopBit
<1> QED
  BY <1>1, <1>2, <1>3, <1>4 DEF Next

\* So it holds all along.
LEMMA LoopInvariance ==
    ASSUME GroupLaws
    PROVE  Spec => []Multiplying
<1>1. Init => Multiplying
  BY DEF Init, Multiplying
<1>2. Control /\ Multiplying /\ [Next]_vars => Multiplying'
  BY StepMultiplying
<1> QED
  BY <1>1, <1>2, Invariance, PTL DEF Spec

\* What is known of the loop, in terms of quotients and remainders of n.
LEMMA LoopDivides ==
    ASSUME GroupLaws, Control, Registers, Multiplying
    PROVE  LoopInvariant
<1> SUFFICES ASSUME state \in {1, 2}, InRange(req.n)
             PROVE  \E k \in 0 .. W - 1 :
                       LET done_bits == IF state = 1 THEN k ELSE k + 1 IN
                       /\ cnt = req.n \div Power[k]
                       /\ state = 1 => Bit0(cnt)
                       /\ Same(A, Times(Power[k], req.P))
                       /\ Same(R, Times(req.n % Power[done_bits], req.P))
  BY DEF LoopInvariant
<1>1. Looping
  BY DEF Multiplying
<1>2. PICK k \in 0 .. W - 2 : \E low \in 0 .. Power[k] - 1 : Round(k, low)
  BY <1>1 DEF Looping
<1>3. PICK low \in 0 .. Power[k] - 1 : Round(k, low)
  BY <1>2
<1>4. /\ Power[k] \in Nat \ {0} /\ Power[k + 1] = 2 * Power[k]
      /\ k \in 0 .. W - 1 /\ cnt \in Nat
  BY <1>1, RoundPowers DEF Looping
<1>5. req.n = Power[k] * cnt + low
  BY <1>3 DEF Round
<1>6. cnt = req.n \div Power[k] /\ low = req.n % Power[k]
  <2>1. Power[k] \in Nat \ {0} /\ cnt \in Nat /\ low \in 0 .. Power[k] - 1
    BY <1>4
  <2>2. req.n \div Power[k] = cnt /\ req.n % Power[k] = low
    BY <1>5, <2>1, Division, Zenon
  <2> QED
    BY <2>2
<1>7. A = Times(Power[k], req.P) /\ (state = 1 => Bit0(cnt))
  BY <1>3 DEF Round
<1>8. R = Times(req.n % Power[IF state = 1 THEN k ELSE k + 1], req.P)
  <2>1. CASE state = 1
    BY <1>3, <1>6, <2>1 DEF Round
  <2>2. CASE state = 2
    <3> DEFINE bit == IF Bit0(cnt) THEN 1 ELSE 0
               half == ShiftRight(cnt)
               low2 == IF Bit0(cnt) THEN low + Power[k] ELSE low
    <3>1. R = Times(low2, req.P)
      BY <1>3, <2>2 DEF Round
    <3>2. half \in Nat /\ cnt = 2 * half + bit /\ bit \in Nat
      BY <1>4, Halving DEF ShiftRight
    <3>3. /\ low2 = low + Power[k] * bit /\ low2 \in 0 .. Power[k + 1] - 1
          /\ Power[k + 1] \in Nat \ {0}
      BY <1>4
    <3>4. req.n = Power[k + 1] * half + low2
      <4>1. Power[k] * cnt = (2 * Power[k]) * half + Power[k] * bit
        BY <1>4, <3>2
      <4>2. Power[k + 1] * half = (2 * Power[k]) * half
        BY <1>4
      <4>3. (2 * Power[k]) * half \in Nat /\ Power[k] * bit \in Nat
        BY <1>4, <3>2
      <4> HIDE DEF half, bit, low2
      <4> QED
        BY <1>5, <3>3, <4>1, <4>2, <4>3
    <3> HIDE DEF half, bit, low2
    <3>5. req.n % Power[k + 1] = low2
      <4>1. half \in Nat
        BY <3>2
      <4>2. Power[k + 1] \in Nat \ {0} /\ low2 \in 0 .. Power[k + 1] - 1
        BY <3>3
      <4> DEFINE d == Power[k + 1]
      <4>3. d \in Nat \ {0} /\ low2 \in 0 .. d - 1 /\ req.n = d * half + low2
        BY <3>4, <4>2
      <4> HIDE DEF d
      <4>4. req.n % d = low2
        BY <4>1, <4>3, Division, Zenon
      <4> QED
        BY <4>4 DEF d
    <3> QED
      BY <2>2, <3>1, <3>5
  <2> QED
    BY <2>1, <2>2
<1>9. Same(A, A) /\ Same(R, R)
  BY DEF GroupLaws, Registers
<1> QED
  BY <1>4, <1>6, <1>7, <1>8, <1>9

\* Double-and-add does what it is for, for every width of the scalar: in each
\* round the counter is what is left of n, A the weight of the round times P and
\* R the multiple of P by the bits already consumed.
THEOREM LoopKept ==
    ASSUME Closed, GroupLaws
    PROVE  Spec => []LoopInvariant
<1>1. Init => Registers
  BY InitRegisters
<1>2. Control /\ Registers /\ [Next]_vars => Registers'
  BY StepRegisters
<1>3. Control /\ Registers /\ Multiplying => LoopInvariant
  BY LoopDivides
<1> QED
  BY <1>1, <1>2, <1>3, Invariance, LoopInvariance, PTL DEF Spec

-----------------------------------------------------------------------------
(***************************************************************************)
(* The handshake SCALAR_MULT keeps to ECC.                                 *)
(***************************************************************************)
\* Every scalar asked for fits the signed counter and is not 0.
AllInRange == \A r \in Requests : InRange(r.n)

\* The phase the client sees.
Phase == CASE state = 0 -> "idle" [] state \in {1, 2} -> "busy"
           [] state = 3 -> "done"

\* The phase in each state.
LEMMA PhaseIs ==
    /\ state = 0 => Phase = "idle"
    /\ state \in {1, 2} => Phase = "busy"
    /\ state = 3 => Phase = "done"
  BY DEF Phase

\* The same in the next state.
LEMMA PhaseWillBe ==
    /\ state' = 0 => Phase' = "idle"
    /\ state' \in {1, 2} => Phase' = "busy"
    /\ state' = 3 => Phase' = "done"
<1> DEFINE Phases == /\ state = 0 => Phase = "idle"
                     /\ state \in {1, 2} => Phase = "busy"
                     /\ state = 3 => Phase = "done"
<1>1. Phases
  BY PhaseIs
<1> HIDE DEF Phases
<1>2. Phases'
  BY <1>1, PTL
<1> QED
  BY <1>2 DEF Phases

\* A clock edge of the unit is an edge of the handshake.
LEMMA EdgeRefines ==
    ASSUME GroupLaws, AllInRange, Control, Control', Multiplying, Multiplying',
           rst_n', Clocked, InFlight => req' = req
    PROVE  Unit!Edge
<1>1. /\ state \in 0 .. 3 /\ state' \in 0 .. 3 /\ req \in Requests
      /\ P_o = (IF state = 3 THEN R ELSE Blank)
      /\ P_o' = (IF state' = 3 THEN R' ELSE Blank)
  BY DEF Control, Driven
<1>2. InRange(req.n)
  BY <1>1 DEF AllInRange
<1>3. CASE state = 0
  <2>1. state' = IF ~start THEN 0 ELSE IF Bit0(req.n) THEN 1 ELSE 2
    BY <1>1, <1>3, FsmIs DEF Clocked
  <2>2. P_o' = P_o
    BY <1>1, <1>3, <2>1
  <2>3. CASE start
    <3>1. Phase = "idle" /\ Phase' = "busy"
      BY <1>3, <2>1, <2>3, PhaseIs, PhaseWillBe
    <3> QED
      BY <2>2, <2>3, <3>1, Zenon DEF Unit!Edge, Unit!Accept, Phase
  <2>4. CASE ~start
    <3>1. Phase = "idle" /\ Phase' = "idle"
      BY <1>3, <2>1, <2>4, PhaseIs, PhaseWillBe
    <3> QED
      BY <2>2, <2>4, <3>1, Zenon DEF Unit!Edge, Unit!Rest, Phase
  <2> QED
    BY <2>3, <2>4
<1>4. CASE state \in {1, 2}
  <2>1. req' = req /\ Looping
    BY <1>2, <1>4 DEF InFlight, Multiplying
  <2>2. \/ state' \in {1, 2}
        \/ state' = 3 /\ R' = SmResult(req)
    BY <1>2, <1>4, <2>1, LoopAdds, LoopDoubles
  <2>3. CASE state' \in {1, 2}
    <3>1. Phase = "busy" /\ Phase' = "busy"
      BY <1>4, <2>3, PhaseIs, PhaseWillBe
    <3>2. P_o' = P_o
      BY <1>1, <1>4, <2>3
    <3> QED
      BY <3>1, <3>2, Zenon DEF Unit!Edge, Unit!Work, Phase
  <2>4. CASE state' = 3 /\ R' = SmResult(req)
    <3>1. Phase = "busy" /\ Phase' = "done"
      BY <1>4, <2>4, PhaseIs, PhaseWillBe
    <3>2. P_o' = SmResult(req)
      BY <1>1, <2>4
    <3> QED
      BY <3>1, <3>2, Zenon DEF Unit!Edge, Unit!Complete, Phase
  <2> QED
    BY <2>2, <2>3, <2>4
<1>5. CASE state = 3
  <2>1. state' = 0
    BY <1>1, <1>5, FsmIs DEF Clocked
  <2>2. Phase = "done" /\ Phase' = "idle"
    BY <1>5, <2>1, PhaseIs, PhaseWillBe
  <2>3. P_o' = Blank
    BY <1>1, <2>1
  <2> QED
    BY <2>2, <2>3, Zenon DEF Unit!Edge, Unit!Release, Phase
<1> QED
  BY <1>1, <1>3, <1>4, <1>5

\* Every step of the unit is a step of the handshake, or changes nothing its
\* client sees.
LEMMA StepRefines ==
    ASSUME GroupLaws, AllInRange
    PROVE  Control /\ Control' /\ Multiplying /\ Multiplying' /\ [Next]_vars
              => [Unit!Next]_(Unit!hvars)
<1> SUFFICES ASSUME Control, Control', Multiplying, Multiplying', [Next]_vars
             PROVE  [Unit!Next]_(Unit!hvars)
  OBVIOUS
<1>1. state \in 0 .. 3 /\ (~rst_n => state = 0 /\ ~start)
  BY DEF Control, Driven
<1>2. CASE Posedge
  <2>1. InFlight => req' = req
    BY <1>2 DEF Posedge, ClientHolds, ClientMoves
  <2>2. rst_n /\ rst_n'
    BY <1>2 DEF Posedge
  <2>3. Unit!Edge
    BY <1>2, <2>1, <2>2, EdgeRefines DEF Posedge
  <2>4. Unit!InFlight => req' = req
    <3>1. Unit!InFlight => Phase = "busy" \/ (Phase = "idle" /\ start)
      BY Zenon DEF Unit!InFlight, Phase
    <3>2. Phase = "busy" \/ (Phase = "idle" /\ start) => InFlight
      BY <1>1, PhaseIs DEF InFlight
    <3> QED
      BY <2>1, <3>1, <3>2
  <2> QED
    BY <2>2, <2>3, <2>4, Zenon DEF Unit!Next, Unit!Clock
<1>3. CASE Reset
  <2>1. ~rst_n' /\ ~start'
    BY <1>3 DEF Reset, NoRequest
  <2>2. Phase' = "idle" /\ P_o' = Blank
    BY <1>3, <2>1, Cleared, PhaseWillBe DEF Reset
  <2> QED
    BY <2>1, <2>2, Zenon DEF Unit!Next, Unit!Reset, Phase
<1>4. CASE Release
  <2>1. ~rst_n /\ rst_n' /\ ~start' /\ state = 0 /\ ~start
    BY <1>1, <1>4 DEF Release, NoRequest
  <2>2. state' = 0
    BY <1>1, <1>4, <2>1, FsmIs DEF Release, Clocked
  <2>3. Phase' = Phase
    BY <2>1, <2>2, PhaseIs, PhaseWillBe
  <2>4. P_o' = P_o
    BY <2>1, <2>2 DEF Control, Driven
  <2> QED
    BY <2>1, <2>3, <2>4, Zenon DEF Unit!Next, Unit!Rise, Phase
<1>5. CASE UNCHANGED vars
  <2>1. UNCHANGED <<Phase, P_o, start, req, rst_n>>
    BY <1>5 DEF vars, inputs, smRegs, Phase
  <2> QED
    BY <2>1, Zenon DEF Unit!hvars, Phase
<1> QED
  BY <1>2, <1>3, <1>4, <1>5 DEF Next

\* SCALAR_MULT implements the handshake ECC is written against, for scalars in
\* range over any group: it is busy from the edge that accepts a request, shows
\* SmResult of the operands in one cycle and is ready again after it.  (That it
\* answers at all is liveness, which the run checks.)
THEOREM RefinesHandshake ==
    ASSUME GroupLaws, AllInRange
    PROVE  Spec => Unit!Safety
<1>1. Init => Unit!Init
  <2> SUFFICES ASSUME Init PROVE Unit!Init
    OBVIOUS
  <2>1. Phase = "idle" /\ P_o = Blank /\ ~start /\ ~rst_n
    BY PhaseIs DEF Init
  <2> QED
    BY <2>1, Zenon DEF Unit!Init, Unit!Quiet, Phase
<1>2. Control /\ Control' /\ Multiplying /\ Multiplying' /\ [Next]_vars
         => [Unit!Next]_(Unit!hvars)
  BY StepRefines
<1> QED
  BY <1>1, <1>2, Invariance, LoopInvariance, PTL DEF Spec, Unit!Safety

-----------------------------------------------------------------------------
(***************************************************************************)
(* The golden model's loop, and that the unit agrees with it.              *)
(***************************************************************************)
\* One iteration of scalar_multiplication; nothing changes when no bit is left.
GoldenRound(s) ==
    IF s.n = 0 THEN s
    ELSE [n |-> s.n \div 2,
          A |-> point_doubling(s.A, curve_a, curve_p),
          R |-> IF s.n % 2 = 1 THEN point_addition(s.R, s.A, curve_a, curve_p)
                               ELSE s.R]

\* f lists the values of the loop's variables before iteration 1 and after
\* each of k iterations.
GoldenRun(f, k, n, P) ==
    /\ f = [i \in 0 .. k |-> f[i]]
    /\ f[0] = [n |-> n, A |-> P, R |-> AtInfinity(P)]
    /\ \A i \in 1 .. k : f[i] = GoldenRound(f[i - 1])

\* A run of every length exists.
LEMMA GoldenRunExists ==
    ASSUME NEW n \in Nat, NEW P
    PROVE  \E f : GoldenRun(f, n, n, P)
<1> DEFINE T == {k \in Nat : \E f : GoldenRun(f, k, n, P)}
           Start == [n |-> n, A |-> P, R |-> AtInfinity(P)]
<1>1. 0 \in T
  <2>1. GoldenRun([i \in 0 .. 0 |-> Start], 0, n, P)
    BY DEF GoldenRun
  <2> QED
    BY <2>1
<1>2. ASSUME NEW k \in 0 .. n - 1, k \in T PROVE k + 1 \in T
  <2>1. PICK f : GoldenRun(f, k, n, P)
    BY <1>2
  <2> DEFINE g == [i \in 0 .. k + 1 |->
                      IF i = k + 1 THEN GoldenRound(f[k]) ELSE f[i]]
  <2>2. g[0] = Start /\ g = [i \in 0 .. k + 1 |-> g[i]]
    BY <2>1 DEF GoldenRun
  <2>3. ASSUME NEW i \in 1 .. k + 1 PROVE g[i] = GoldenRound(g[i - 1])
    <3>1. CASE i = k + 1
      BY <3>1
    <3>2. CASE i # k + 1
      <4>1. i \in 1 .. k /\ i - 1 \in 0 .. k + 1 /\ i - 1 # k + 1 /\ i \in 0 .. k + 1
        BY <3>2
      <4>2. f[i] = GoldenRound(f[i - 1])
        BY <4>1, <2>1 DEF GoldenRun
      <4>3. g[i] = f[i] /\ g[i - 1] = f[i - 1]
        BY <4>1, <3>2
      <4> QED
        BY <4>2, <4>3
    <3> QED
      BY <3>1, <3>2
  <2> HIDE DEF g
  <2>4. GoldenRun(g, k + 1, n, P)
    BY <2>2, <2>3 DEF GoldenRun
  <2> QED
    BY <2>4
<1> HIDE DEF T
<1>3. 0 .. n \subseteq T
  BY <1>1, <1>2, UpTo
<1>4. n \in T
  BY <1>3
<1> QED
  BY <1>4 DEF T

\* scalar_multiplication is R at the end of such a run.
LEMMA GoldenUnfolds ==
    ASSUME NEW n \in Nat, NEW P
    PROVE  \E f : /\ GoldenRun(f, n, n, P)
                  /\ scalar_multiplication(n, P, curve_a, curve_p) = f[n].R
<1> DEFINE IsLoop(f) ==
        f = [k \in 0 .. n |->
               IF k = 0 THEN [n |-> n, A |-> P, R |-> AtInfinity(P)]
               ELSE IF f[k - 1].n = 0 THEN f[k - 1]
               ELSE [n |-> f[k - 1].n \div 2,
                     A |-> point_doubling(f[k - 1].A, curve_a, curve_p),
                     R |-> IF f[k - 1].n % 2 = 1
                           THEN point_addition(f[k - 1].R, f[k - 1].A, curve_a, curve_p)
                           ELSE f[k - 1].R]]
           loop == CHOOSE f : IsLoop(f)
<1>1. PICK h : GoldenRun(h, n, n, P)
  BY GoldenRunExists
<1>2. IsLoop(h)
  <2>1. \A k \in 0 .. n :
          h[k] = IF k = 0 THEN [n |-> n, A |-> P, R |-> AtInfinity(P)]
                 ELSE GoldenRound(h[k - 1])
    <3>1. \A k \in 0 .. n : k = 0 \/ k \in 1 .. n
      OBVIOUS
    <3> QED
      BY <1>1, <3>1, Zenon DEF GoldenRun
  <2>2. h = [k \in 0 .. n |-> h[k]]
    BY <1>1 DEF GoldenRun
  <2> QED
    BY <2>1, <2>2 DEF GoldenRound
<1>3. scalar_multiplication(n, P, curve_a, curve_p) = loop[n].R
  BY DEF scalar_multiplication
<1>4. IsLoop(loop)
  <2> HIDE DEF IsLoop
  <2> QED
    BY <1>2
<1> HIDE DEF loop
<1>5. GoldenRun(loop, n, n, P)
  <2>1. \A k \in 0 .. n :
          loop[k] = IF k = 0 THEN [n |-> n, A |-> P, R |-> AtInfinity(P)]
                    ELSE GoldenRound(loop[k - 1])
    BY <1>4 DEF GoldenRound
  <2>2. loop = [k \in 0 .. n |-> loop[k]]
    BY <1>4
  <2>3. 0 \in 0 .. n /\ \A i \in 1 .. n : i \in 0 .. n /\ i # 0
    OBVIOUS
  <2> QED
    BY <2>1, <2>2, <2>3 DEF GoldenRun
<1> QED
  BY <1>3, <1>5

\* 2^k is more than k: n iterations are enough.
LEMMA PowersExceed == \A k \in 0 .. W : Power[k] > k
<1> DEFINE T == {k \in 0 .. W : Power[k] > k}
<1>1. 0 \in T /\ W \in Nat
  BY PowerUnfolds, ScalarAssumption
<1>2. ASSUME NEW k \in 0 .. W - 1, k \in T PROVE k + 1 \in T
  <2>1. Power[k + 1] = 2 * Power[k] /\ Power[k] \in Nat /\ Power[k] > k
    BY <1>1, <1>2, PowerUnfolds
  <2> QED
    BY <2>1, <1>1
<1> HIDE DEF T
<1>3. 0 .. W \subseteq T
  BY <1>1, <1>2, UpTo
<1> QED
  BY <1>3 DEF T

\* After k iterations, for low the bits done and c those left: the weight of the
\* next bit times P is in A, the multiple by the bits done in R.
GoldenAt(s, k, c, low, n, P) ==
    /\ n = Power[k] * c + low
    /\ s = [n |-> c, A |-> Times(Power[k], P), R |-> Times(low, P)]

\* The loop is still running, or it has come to n P.
GoldenInv(s, k, n, P) ==
    \/ k \in 0 .. W - 2 /\ \E c \in Nat \ {0}, low \in 0 .. Power[k] - 1 :
                              GoldenAt(s, k, c, low, n, P)
    \/ s.n = 0 /\ s.R = Times(n, P)

\* An iteration adds the weight if the bit is set, and doubles it.
LEMMA GoldenStep ==
    ASSUME GoldenLaws, NEW r \in Requests, r.P \in Point, InRange(r.n),
           NEW s, NEW k \in Nat, GoldenInv(s, k, r.n, r.P)
    PROVE  GoldenInv(GoldenRound(s), k + 1, r.n, r.P)
<1> DEFINE n == r.n
           P == r.P
           t == GoldenRound(s)
<1>1. CASE s.n = 0 /\ s.R = Times(n, P)
  BY <1>1 DEF GoldenInv, GoldenRound
<1>2. ASSUME k \in 0 .. W - 2, NEW c \in Nat \ {0}, NEW low \in 0 .. Power[k] - 1,
             GoldenAt(s, k, c, low, n, P)
      PROVE  GoldenInv(t, k + 1, n, P)
  <2> DEFINE d == c \div 2
             bit == c % 2
             next == IF bit = 1 THEN low + Power[k] ELSE low
  <2>1. /\ Power[k] \in Nat \ {0} /\ Power[k + 1] = 2 * Power[k]
        /\ k + 1 \in 0 .. W - 1 /\ k \in 0 .. W
    BY <1>2, RoundPowers, ScalarAssumption
  <2>2. d \in Nat /\ bit \in 0 .. 1 /\ c = 2 * d + bit
    BY DEF d, bit
  <2>3. s.n = c /\ s.A = Times(Power[k], P) /\ s.R = Times(low, P) /\ s.n # 0
    BY <1>2 DEF GoldenAt
  <2>4. /\ n = Power[k] * c + low /\ Power[k] * c >= Power[k]
        /\ Power[k] * c \in Nat /\ n \in Nat /\ low \in Nat
    BY <1>2, <2>1, AtLeastOneWeight DEF GoldenAt
  <2>5. /\ t.n = d
        /\ t.A = point_doubling(Times(Power[k], P), curve_a, curve_p)
        /\ t.R = IF bit = 1
                 THEN point_addition(Times(low, P), Times(Power[k], P), curve_a, curve_p)
                 ELSE Times(low, P)
        /\ t = [n |-> t.n, A |-> t.A, R |-> t.R]
    BY <2>3 DEF GoldenRound
  <2>6. t.R = Times(next, P)
    <3>1. low \in 0 .. n /\ low < Power[k] /\ low + Power[k] <= n
      BY <2>1, <2>4
    <3>2. point_addition(Times(low, P), Times(Power[k], P), curve_a, curve_p)
             = Times(low + Power[k], P)
      BY <3>1, <1>2 DEF GoldenLaws
    <3> QED
      BY <2>5, <3>2
  <2>7. n = Power[k + 1] * d + next /\ next \in 0 .. Power[k + 1] - 1
    <3>1. Power[k] * c = Power[k] * (2 * d) + Power[k] * bit
      BY <2>1, <2>2
    <3>2. Power[k] * (2 * d) = (2 * Power[k]) * d
      BY <2>1, <2>2
    <3>3. Power[k] * bit = IF bit = 1 THEN Power[k] ELSE 0
      BY <2>1, <2>2
    <3> HIDE DEF d, bit
    <3> QED
      BY <3>1, <3>2, <3>3, <2>1, <2>2, <2>4
  <2> HIDE DEF d, bit, next, t
  <2>8. CASE d = 0
    <3>1. n = next
      BY <2>1, <2>7, <2>8
    <3> QED
      BY <3>1, <2>5, <2>6, <2>8 DEF GoldenInv
  <2>9. CASE d # 0
    <3>1. d \in Nat \ {0} /\ Power[k + 1] \in Nat \ {0}
      BY <2>1, <2>2, <2>9
    <3>2. Power[k + 1] <= n
      BY <3>1, <2>7, <2>4, AtLeastOneWeight
    <3>3. k + 1 \in 0 .. W - 2
      <4>1. W - 1 \in 0 .. W /\ Power[W - 1] \in Nat
        BY PowersGrow, ScalarAssumption
      <4>2. n < Power[W - 1]
        BY DEF InRange
      <4>3. k + 1 # W - 1
        BY <4>1, <4>2, <3>1, <3>2, <2>4
      <4> QED
        BY <4>3, <2>1, ScalarAssumption
    <3>4. t.A = Times(Power[k + 1], P)
      BY <2>5, <3>2, <1>2 DEF GoldenLaws
    <3>5. GoldenAt(t, k + 1, d, next, n, P)
      BY <3>4, <2>5, <2>6, <2>7 DEF GoldenAt
    <3> QED
      BY <3>1, <3>3, <3>5, <2>7 DEF GoldenInv
  <2> QED
    BY <2>8, <2>9
<1> QED
  BY <1>1, <1>2 DEF GoldenInv

\* scalar_multiplication returns n P, for every scalar in range.
LEMMA GoldenMultiplies ==
    ASSUME GoldenLaws, NEW r \in Requests, r.P \in Point, InRange(r.n)
    PROVE  scalar_multiplication(r.n, r.P, curve_a, curve_p) = Times(r.n, r.P)
<1> DEFINE n == r.n
           P == r.P
<1>1. n \in Nat \ {0} /\ n < Power[W - 1] /\ W - 1 \in 0 .. W /\ W \in Nat
  <2>1. n \in 0 .. Power[W] - 1 /\ Power[W] \in Nat
    BY ScalarAssumption, PowersGrow
  <2> QED
    BY <2>1, ScalarAssumption DEF InRange
<1>2. PICK f : /\ GoldenRun(f, n, n, P)
               /\ scalar_multiplication(n, P, curve_a, curve_p) = f[n].R
  BY <1>1, GoldenUnfolds
<1> DEFINE T == {k \in 0 .. n : GoldenInv(f[k], k, n, P)}
<1>3. 0 \in T
  <2>1. Power[0] = 1 /\ 0 \in 0 .. W - 2 /\ 0 \in 0 .. Power[0] - 1
    BY PowerUnfolds, ScalarAssumption
  <2>2. Times(0, P) = AtInfinity(P) /\ Times(1, P) = P
    BY DEF GoldenLaws
  <2>3. GoldenAt(f[0], 0, n, 0, n, P)
    BY <2>1, <2>2, <1>1, <1>2 DEF GoldenAt, GoldenRun
  <2>4. GoldenInv(f[0], 0, n, P)
    BY <2>1, <2>3, <1>1 DEF GoldenInv
  <2> QED
    BY <2>4, <1>1
<1>4. ASSUME NEW k \in 0 .. n - 1, k \in T PROVE k + 1 \in T
  <2>1. k \in Nat /\ k + 1 \in 1 .. n /\ (k + 1) - 1 = k /\ k + 1 \in 0 .. n
    BY <1>1
  <2>2. f[k + 1] = GoldenRound(f[k])
    BY <2>1, <1>2 DEF GoldenRun
  <2>3. GoldenInv(GoldenRound(f[k]), k + 1, n, P)
    BY <1>4, <2>1, GoldenStep
  <2> QED
    BY <2>1, <2>2, <2>3
<1> HIDE DEF T
<1>5. n \in T
  <2>1. 0 .. n \subseteq T
    BY <1>1, <1>3, <1>4, UpTo
  <2> QED
    BY <2>1, <1>1
<1>6. ASSUME n \in 0 .. W - 2, NEW c \in Nat \ {0}, NEW low \in 0 .. Power[n] - 1,
             GoldenAt(f[n], n, c, low, n, P)
      PROVE  FALSE
  <2>1. n \in 0 .. W /\ Power[n] \in Nat \ {0} /\ Power[n] > n
    BY <1>1, <1>6, PowersGrow, PowersExceed
  <2>2. Power[n] * c >= Power[n] /\ Power[n] * c \in Nat /\ low \in Nat
    BY <2>1, AtLeastOneWeight
  <2> QED
    BY <2>1, <2>2, <1>6, <1>1 DEF GoldenAt
<1>7. f[n].R = Times(n, P)
  BY <1>5, <1>6 DEF T, GoldenInv
<1> QED
  BY <1>2, <1>7

\* What SCALAR_MULT shows in its finish cycle is the golden model's result, for
\* every scalar in range that does not start with 1 0, on every curve whose
\* operations, in hardware and in the golden model, add up multiples of a point.
THEOREM Agreement ==
    ASSUME GroupLaws, GoldenLaws, AllInRange
    PROVE  Spec => []AgreesWithGolden
<1>1. Control /\ Multiplying => AgreesWithGolden
  <2> SUFFICES ASSUME Control, Multiplying, finish, req.P \in Point,
                      ~StartsWith10(req.n)
               PROVE  equal(P_o, scalar_multiplication(req.n, req.P, curve_a, curve_p))
    BY DEF AgreesWithGolden
  <2>1. req \in Requests /\ InRange(req.n) /\ state = 3 /\ P_o = R
    BY DEF Control, Driven, AllInRange
  <2>2. R = Times(req.n, req.P)
    BY <2>1 DEF Multiplying, SmResult
  <2>3. scalar_multiplication(req.n, req.P, curve_a, curve_p) = Times(req.n, req.P)
    BY <2>1, GoldenMultiplies
  <2>4. P_o = scalar_multiplication(req.n, req.P, curve_a, curve_p)
    BY <2>1, <2>2, <2>3
  <2> QED
    BY <2>4 DEF equal
<1> QED
  BY <1>1, Invariance, LoopInvariance, PTL
=============================================================================
