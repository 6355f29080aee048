----------------------------- MODULE CoreProofs -----------------------------
(***************************************************************************)
(* Proofs about Core for every width M, every set of operands and every    *)
(* set of reduction polynomials: type correctness, the lockstep of the two *)
(* counters that never communicate, the absence of residues in the         *)
(* accumulator, and from these the results: CORE computes what the golden  *)
(* model computes, which is the arithmetic of the field, and keeps the     *)
(* handshake its clients rely on.                                          *)
(***************************************************************************)
EXTENDS Core, FieldProofs, TLAPS

(***************************************************************************)
(* The inductive invariant.  Lockstep and CleanStart are not inductive:    *)
(* whether they hold in the first round of a multiplication depends on the *)
(* cycle before it, in which MULT rests and CORE has already begun, or is  *)
(* about to begin, the next one.                                           *)
(***************************************************************************)
\* Outside state 1 the multiplier rests; in state 0 the array is empty and the
\* counters are where a first multiplication wants them.
Resting ==
    /\ ~rst_n => state = 0
    /\ state # 1 => m_state = 0 /\ counter = 0
    /\ state = 0 => /\ w4 = Zero /\ cnt_a = M - 1
                    /\ cnt_mult = 0 /\ ~add_input_2nd
    /\ state = 2 => mult_clean

\* In a round of a multiplication the counters add up and nothing is cleared.
Multiplying ==
    state = 1 /\ m_state = 1 =>
        /\ ~mult_clean /\ ~newstart
        /\ cnt_a + counter = M - 1
        /\ mode = "add" => counter <= 1 /\ (add_input_2nd <=> counter = 1)
        /\ counter = 0 => w4 = Zero

\* The cycle that takes the product, and in an inversion the cycle after it,
\* in which the array is cleared and the next multiplication is requested.
Between ==
    state = 1 =>
        /\ mode # "inv" => cnt_mult = 0 /\ m_state # 0
        /\ m_state = 2 => /\ counter = 0 /\ ~newstart
                          /\ mode = "inv" => cnt_a = 0
        /\ m_state = 0 => /\ counter = 0 /\ newstart /\ mult_clean
                          /\ cnt_a = 0 /\ cnt_mult # LastMult

IInv == TypeOK /\ Resting /\ Multiplying /\ Between

-----------------------------------------------------------------------------
\* The constants are numbers of the width M.
LEMMA Widths == /\ M \in Nat /\ M >= 2
                /\ LastMult \in Nat
                /\ 0 \in Exponents /\ M - 1 \in Exponents
                /\ 0 \in 0 .. LastMult
                /\ \A i \in Exponents : i \in Nat /\ i <= M - 1
  BY MAssumption DEF LastMult, Exponents

\* The lines into the array carry M-bit vectors.
LEMMA LinesTyped ==
    ASSUME TypeOK
    PROVE  /\ mult_b \in Elem /\ mult_p \in Elem /\ b_line \in Elem
           /\ p_line \in Elem /\ mult_out \in Elem /\ w3 \in Elem
           /\ mult_a \in BOOLEAN /\ mult_isMul \in BOOLEAN /\ toMod \in BOOLEAN
           /\ mult_finish \in BOOLEAN
<1>1. mult_a \in BOOLEAN /\ mult_isMul \in BOOLEAN /\ toMod \in BOOLEAN
      /\ mult_finish \in BOOLEAN
  BY DEF TypeOK, mult_a, mult_isMul, toMod, mult_finish
<1>2. mult_b \in Elem /\ mult_out \in Elem
  BY ElemClosed DEF TypeOK, mult_b, mult_out
<1>3. mult_p \in Elem
  BY <1>1, ElemClosed DEF TypeOK, mult_p
<1>4. b_line \in Elem /\ p_line \in Elem
  BY <1>2, <1>3 DEF TypeOK, b_line, p_line
<1>5. w3 \in Elem
  <2>1. When(toMod, p_line) \in Elem /\ When(mult_a, b_line) \in Elem
    BY <1>1, <1>4, ElemClosed
  <2>2. (IF mult_isMul THEN Shl(w4) ELSE w4) \in Elem
    BY ElemClosed DEF TypeOK
  <2> QED
    BY <2>1, <2>2, ElemClosed DEF w3
<1> QED
  BY <1>1, <1>2, <1>3, <1>4, <1>5

-----------------------------------------------------------------------------
(***************************************************************************)
(* What one clock edge does to the control registers, case by case.        *)
(***************************************************************************)
\* The registers that hold field elements keep their width on every edge.
LEMMA DataTyped ==
    ASSUME TypeOK, Clocked, rst_n' \in BOOLEAN
    PROVE  /\ c' \in Elem /\ sqr' \in Elem /\ out' \in Elem
           /\ b_lat' \in Elem /\ p_lat' \in Elem /\ w4' \in Elem
           /\ finish' \in BOOLEAN /\ newstart' \in BOOLEAN
           /\ mult_clean' \in BOOLEAN /\ add_input_2nd' \in BOOLEAN
<1>1. b_lat' \in Elem /\ p_lat' \in Elem
  BY LinesTyped DEF Clocked, MULT_latch
<1>2. w4' \in Elem
  BY LinesTyped, ElemClosed DEF Clocked, PE_update
<1>3. c' \in Elem /\ sqr' \in Elem /\ out' \in Elem
  BY LinesTyped, ElemClosed DEF Clocked, CORE_done, TypeOK
<1>4. finish' \in BOOLEAN
  BY DEF Clocked, CORE_done, TypeOK, LastDone, mult_finish
<1>5. newstart' \in BOOLEAN
  BY DEF Clocked, CORE_done_start, mult_finish
<1>6. mult_clean' \in BOOLEAN
  BY DEF Clocked, CORE_done, TypeOK, mult_finish
<1>7. add_input_2nd' \in BOOLEAN
  BY DEF Clocked, CORE_count, CountFrom, TypeOK
<1> QED
  BY <1>1, <1>2, <1>3, <1>4, <1>5, <1>6, <1>7

\* Low rst_n puts every control register back, done_start's excepted.
LEMMA ResetEffect ==
    ASSUME Clocked, rst_n' = FALSE
    PROVE  /\ state' = 0 /\ m_state' = 0 /\ counter' = 0
           /\ cnt_a' = M - 1 /\ cnt_mult' = 0 /\ add_input_2nd' = FALSE
           /\ mult_clean' = TRUE /\ w4' = Zero
<1>1. state' = 0 /\ m_state' = 0
  BY DEF Clocked, CORE_fsm, MULT_fsm
<1>2. counter' = 0
  BY DEF Clocked, MULT_count
<1>3. cnt_a' = M - 1 /\ cnt_mult' = 0 /\ add_input_2nd' = FALSE
  BY DEF Clocked, CORE_count, CountFrom
<1>4. mult_clean' = TRUE /\ w4' = Zero
  BY DEF Clocked, CORE_done, PE_update
<1> QED
  BY <1>1, <1>2, <1>3, <1>4

\* From state 0: rest, or begin the first multiplication on an empty array.
LEMMA EdgeFromIdle ==
    ASSUME IInv, Clocked, rst_n' = TRUE, state = 0
    PROVE  /\ state' = (IF start THEN 1 ELSE 0)
           /\ m_state' = (IF start THEN 1 ELSE 0)
           /\ counter' = 0 /\ cnt_a' = M - 1 /\ cnt_mult' = 0
           /\ add_input_2nd' = FALSE /\ mult_clean' = FALSE
           /\ newstart' = FALSE /\ w4' = Zero
<1>1. m_state = 0 /\ counter = 0 /\ w4 = Zero
  BY DEF IInv, Resting
<1>2. mult_start = start /\ mult_finish = FALSE
  <2>1. start \in BOOLEAN
    BY DEF IInv, TypeOK
  <2>2. mult_start <=> start
    BY DEF mult_start
  <2>3. ~mult_finish
    BY <1>1 DEF mult_finish
  <2> QED
    BY <2>1, <2>2, <2>3 DEF mult_start, mult_finish
<1>3. state' = (IF start THEN 1 ELSE 0)
  BY DEF Clocked, CORE_fsm
<1>4. m_state' = (IF start THEN 1 ELSE 0)
  BY <1>1, <1>2 DEF Clocked, MULT_fsm
<1>5. counter' = 0
  BY <1>1 DEF Clocked, MULT_count
<1>6. cnt_a' = M - 1 /\ cnt_mult' = 0 /\ add_input_2nd' = FALSE
  BY DEF Clocked, CORE_count, CountFrom
<1>7. mult_clean' = FALSE
  <2>1. state # 1
    OBVIOUS
  <2>2. mult_clean' = ~rst_n'
    BY <2>1, Zenon DEF Clocked, CORE_done
  <2> QED
    BY <2>2, Zenon
<1>8. newstart' = FALSE
  BY <1>2 DEF Clocked, CORE_done_start
<1>9. w4' = Zero
  <2>1. mult_a = FALSE /\ mult_isMul = FALSE /\ toMod = FALSE
    BY DEF mult_a, mult_isMul, toMod
  <2>2. w3 = Zero
    BY <1>1, <2>1 DEF w3, When, Add, Zero
  <2> QED
    BY <2>2 DEF Clocked, PE_update
<1> QED
  BY <1>3, <1>4, <1>5, <1>6, <1>7, <1>8, <1>9

\* From state 2: back to state 0, clearing the array on the way.
LEMMA EdgeFromDone ==
    ASSUME IInv, Clocked, rst_n' = TRUE, state = 2
    PROVE  /\ state' = 0 /\ m_state' = 0 /\ counter' = 0
           /\ cnt_a' = M - 1 /\ cnt_mult' = 0 /\ add_input_2nd' = FALSE
           /\ mult_clean' = FALSE /\ w4' = Zero
<1>1. m_state = 0 /\ counter = 0 /\ mult_clean
  BY DEF IInv, Resting
<1>2. mult_start = FALSE
  BY DEF mult_start
<1>3. state' = 0
  BY DEF Clocked, CORE_fsm
<1>4. m_state' = 0
  BY <1>1, <1>2 DEF Clocked, MULT_fsm
<1>5. counter' = 0
  BY <1>1 DEF Clocked, MULT_count
<1>6. cnt_a' = M - 1 /\ cnt_mult' = 0 /\ add_input_2nd' = FALSE
  BY DEF Clocked, CORE_count, CountFrom
<1>7. mult_clean' = FALSE
  <2>1. state # 1
    OBVIOUS
  <2>2. mult_clean' = ~rst_n'
    BY <2>1, Zenon DEF Clocked, CORE_done
  <2> QED
    BY <2>2, Zenon
<1>8. w4' = Zero
  BY <1>1 DEF Clocked, PE_update
<1> QED
  BY <1>3, <1>4, <1>5, <1>6, <1>7, <1>8

\* A round of a multiplication: both counters move one step, or the last round
\* ends and the product is ready.
LEMMA EdgeInRound ==
    ASSUME IInv, Clocked, rst_n' = TRUE, state = 1, m_state = 1
    PROVE  /\ state' = 1 /\ newstart' = FALSE /\ mult_clean' = FALSE
           /\ cnt_mult' = cnt_mult
           /\ add_input_2nd' = ~add_input_2nd
           /\ ~CounterEnd => /\ m_state' = 1 /\ counter' = counter + 1
                             /\ counter < M - 1
                             /\ cnt_a' = cnt_a - 1
                             /\ mode = "add" => counter = 0
           /\ CounterEnd => /\ m_state' = 2 /\ counter' = 0
                            /\ mode = "inv" => cnt_a' = 0
                            /\ cnt_a' \in Exponents
<1>1. /\ ~mult_clean /\ ~newstart /\ cnt_a + counter = M - 1
      /\ cnt_a \in Nat /\ counter \in Nat
      /\ mode = "add" => counter <= 1
      /\ mode # "inv" => cnt_mult = 0
  BY Widths DEF IInv, Multiplying, Between, TypeOK
<1>2. mult_finish = FALSE /\ LastDone = FALSE
  BY DEF mult_finish, LastDone
<1>3. CounterEnd <=> counter = (IF mode = "add" THEN 1 ELSE M - 1)
  BY DEF CounterEnd, mult_isMul
<1>4. state' = 1
  BY <1>2 DEF Clocked, CORE_fsm
<1>5. newstart' = FALSE
  BY <1>2 DEF Clocked, CORE_done_start
<1>6. mult_clean' = FALSE
  BY <1>1, <1>2 DEF Clocked, CORE_done
<1>7. cnt_mult' = cnt_mult /\ add_input_2nd' = ~add_input_2nd
  BY <1>1, <1>2 DEF Clocked, CORE_count, CountFrom, CountMult
<1>8. cnt_a' = IF cnt_a > 0 THEN cnt_a - 1 ELSE IF mode # "inv" THEN M - 1 ELSE 0
  BY <1>1 DEF Clocked, CORE_count, CountFrom
<1>9. /\ m_state' = (IF CounterEnd THEN 2 ELSE 1)
      /\ counter' = (IF CounterEnd THEN 0 ELSE counter + 1)
  BY DEF Clocked, MULT_fsm, MULT_count
<1>10. CASE ~CounterEnd
  <2>1. counter < M - 1 /\ cnt_a > 0
    BY <1>1, <1>3, <1>10, Widths
  <2>2. mode = "add" => counter = 0
    BY <1>1, <1>3, <1>10
  <2> QED
    BY <1>4, <1>5, <1>6, <1>7, <1>8, <1>9, <1>10, <2>1, <2>2
<1>11. CASE CounterEnd
  <2>1. mode = "inv" => cnt_a' = 0
    BY <1>1, <1>3, <1>8, <1>11
  <2>2. cnt_a' \in Exponents
    BY <1>1, <1>8, Widths DEF Exponents
  <2> QED
    BY <1>4, <1>5, <1>6, <1>7, <1>9, <1>11, <2>1, <2>2
<1> QED
  BY <1>10, <1>11

\* The product is taken: the operation ends, or the array is cleared for the
\* next multiplication of an inversion.
LEMMA EdgeTakesProduct ==
    ASSUME IInv, Clocked, rst_n' = TRUE, state = 1, m_state = 2
    PROVE  /\ m_state' = 0 /\ counter' = 0 /\ mult_clean' = TRUE
           /\ cnt_a' \in Exponents /\ add_input_2nd' \in BOOLEAN
           /\ LastDone => state' = 2 /\ cnt_mult' = 0
           /\ ~LastDone => /\ state' = 1 /\ mode = "inv"
                           /\ newstart' = TRUE /\ cnt_a' = 0
                           /\ cnt_mult' = cnt_mult /\ cnt_mult # LastMult
<1>1. /\ counter = 0 /\ ~newstart
      /\ mode = "inv" => cnt_a = 0
      /\ mode # "inv" => cnt_mult = 0
  BY DEF IInv, Between
<1>2. mult_finish = TRUE
  BY DEF mult_finish
<1>3. LastDone <=> (mode = "inv" => cnt_mult = LastMult)
  BY <1>2 DEF LastDone
<1>4. state' = IF LastDone THEN 2 ELSE 1
  BY DEF Clocked, CORE_fsm
<1>5. m_state' = 0 /\ counter' = 0
  BY DEF Clocked, MULT_fsm, MULT_count
<1>6. mult_clean' = TRUE
  BY <1>2 DEF Clocked, CORE_done
<1>7. /\ cnt_a' = IF cnt_a > 0 THEN cnt_a - 1 ELSE IF mode # "inv" THEN M - 1 ELSE 0
      /\ add_input_2nd' \in BOOLEAN
  BY <1>1 DEF Clocked, CORE_count, CountFrom
<1>8. cnt_a' \in Exponents /\ (mode = "inv" => cnt_a' = 0)
  <2>1. cnt_a \in Exponents
    BY DEF IInv, TypeOK
  <2> QED
    BY <1>1, <1>7, <2>1, Widths DEF Exponents
<1>9. cnt_mult' = CASE mode # "inv"              -> cnt_mult
                    [] mode = "inv" /\ LastDone  -> 0
                    [] mode = "inv" /\ ~LastDone ->
                          IF newstart THEN cnt_mult + 1 ELSE cnt_mult
  BY DEF Clocked, CORE_count, CountFrom, CountMult
<1>10. CASE LastDone
  <2>1. cnt_mult' = 0
    BY <1>1, <1>9, <1>10
  <2> QED
    BY <1>4, <1>5, <1>6, <1>7, <1>8, <1>10, <2>1
<1>11. CASE ~LastDone
  <2>1. mode = "inv" /\ cnt_mult # LastMult
    BY <1>3, <1>11
  <2>2. cnt_mult' = cnt_mult
    BY <1>1, <1>9, <1>11, <2>1
  <2>3. newstart' = TRUE
    BY <1>2, <2>1 DEF Clocked, CORE_done_start
  <2> QED
    BY <1>4, <1>5, <1>6, <1>7, <1>8, <1>11, <2>1, <2>2, <2>3
<1> QED
  BY <1>10, <1>11

\* The next multiplication of an inversion begins, on an array just cleared and
\* with the counter just reloaded.
LEMMA EdgeStartsNext ==
    ASSUME IInv, Clocked, rst_n' = TRUE, state = 1, m_state = 0
    PROVE  /\ mode = "inv" /\ state' = 1 /\ m_state' = 1 /\ counter' = 0
           /\ cnt_a' = M - 1 /\ cnt_mult' = cnt_mult + 1
           /\ cnt_mult # LastMult /\ add_input_2nd' \in BOOLEAN
           /\ mult_clean' = FALSE /\ newstart' = FALSE /\ w4' = Zero
<1>1. /\ mode = "inv" /\ counter = 0 /\ newstart /\ mult_clean
      /\ cnt_a = 0 /\ cnt_mult # LastMult
  BY DEF IInv, Between
<1>2. mult_finish = FALSE /\ LastDone = FALSE /\ mult_start
  BY <1>1 DEF mult_finish, LastDone, mult_start
<1>3. state' = 1
  BY <1>2 DEF Clocked, CORE_fsm
<1>4. m_state' = 1 /\ counter' = 0
  BY <1>2 DEF Clocked, MULT_fsm, MULT_count
<1>5. cnt_a' = M - 1 /\ add_input_2nd' \in BOOLEAN
  BY <1>1 DEF Clocked, CORE_count, CountFrom
<1>6. cnt_mult' = cnt_mult + 1
  BY <1>1, <1>2 DEF Clocked, CORE_count, CountFrom, CountMult
<1>7. mult_clean' = FALSE
  BY <1>1, <1>2 DEF Clocked, CORE_done
<1>8. newstart' = FALSE
  BY <1>2 DEF Clocked, CORE_done_start
<1>9. w4' = Zero
  BY <1>1 DEF Clocked, PE_update
<1> QED
  BY <1>1, <1>3, <1>4, <1>5, <1>6, <1>7, <1>8, <1>9

-----------------------------------------------------------------------------
(***************************************************************************)
(* The inductive invariant holds initially and every step preserves it.    *)
(***************************************************************************)
LEMMA InitIInv == Init => IInv
<1> SUFFICES ASSUME Init
             PROVE  IInv
  OBVIOUS
<1>1. TypeOK
  <2>1. /\ state \in 0 .. 2 /\ cnt_a \in Exponents /\ cnt_mult \in 0 .. LastMult
        /\ m_state \in 0 .. 2 /\ counter \in Exponents
    BY Widths DEF Init
  <2>2. /\ a \in Elem /\ b \in Elem /\ p \in Elem /\ b_lat \in Elem
        /\ c \in Elem /\ sqr \in Elem /\ out \in Elem
        /\ p_lat \in Elem /\ w4 \in Elem
    BY ElemClosed DEF Init
  <2>3. /\ rst_n \in BOOLEAN /\ start \in BOOLEAN /\ mode \in Modes
        /\ add_input_2nd \in BOOLEAN /\ mult_clean \in BOOLEAN
        /\ finish \in BOOLEAN /\ newstart \in BOOLEAN
    BY DEF Init, Modes
  <2> QED
    BY <2>1, <2>2, <2>3 DEF TypeOK
<1>2. Resting
  BY DEF Init, Resting
<1>3. Multiplying /\ Between
  BY DEF Init, Multiplying, Between
<1> QED
  BY <1>1, <1>2, <1>3 DEF IInv

\* The client's inputs are M-bit vectors and a mode; they stay while the unit
\* works on them.
LEMMA InputsTyped ==
    ASSUME IInv, Posedge \/ Reset \/ Release
    PROVE  /\ rst_n' \in BOOLEAN /\ start' \in BOOLEAN /\ mode' \in Modes
           /\ a' \in Elem /\ b' \in Elem /\ p' \in Elem
           /\ rst_n' = TRUE /\ (state = 1 \/ (state = 0 /\ start)) => mode' = mode
<1>1. TypeOK
  BY DEF IInv
<1>2. CASE Posedge
  <2>1. rst_n' = rst_n /\ rst_n
    BY <1>2 DEF Posedge
  <2>2. CASE ClientHolds
    BY <1>1, <2>1, <2>2 DEF ClientHolds, TypeOK
  <2>3. CASE ClientMoves
    <3>1. ~InFlight
      BY <2>3 DEF ClientMoves
    <3>2. CASE NoRequest
      BY <1>1, <2>1, <3>2 DEF NoRequest, TypeOK
    <3>3. CASE start' = TRUE /\ Request
      BY <1>1, <2>1, <3>1, <3>3, ElemClosed, InputAssumption
         DEF Request, TypeOK, InFlight
    <3> QED
      BY <2>3, <3>2, <3>3 DEF ClientMoves
  <2> QED
    BY <1>2, <2>2, <2>3 DEF Posedge
<1>3. CASE Reset
  BY <1>1, <1>3 DEF Reset, NoRequest, TypeOK
<1>4. CASE Release
  BY <1>1, <1>4 DEF Release, NoRequest, TypeOK
<1> QED
  BY <1>2, <1>3, <1>4

\* One clock edge or change of rst_n: the lemmas above, put together.
LEMMA StepIInv ==
    ASSUME IInv, Clocked, Posedge \/ Reset \/ Release
    PROVE  IInv'
<1>1. /\ rst_n' \in BOOLEAN /\ start' \in BOOLEAN /\ mode' \in Modes
      /\ a' \in Elem /\ b' \in Elem /\ p' \in Elem
      /\ rst_n' = TRUE /\ (state = 1 \/ (state = 0 /\ start)) => mode' = mode
  BY InputsTyped
<1>2. /\ c' \in Elem /\ sqr' \in Elem /\ out' \in Elem
      /\ b_lat' \in Elem /\ p_lat' \in Elem /\ w4' \in Elem
      /\ finish' \in BOOLEAN /\ newstart' \in BOOLEAN
      /\ mult_clean' \in BOOLEAN /\ add_input_2nd' \in BOOLEAN
  BY <1>1, DataTyped DEF IInv

\* It remains to look at the state machines and counters.
<1> DEFINE Counters ==
             /\ state \in 0 .. 2 /\ cnt_a \in Exponents /\ cnt_mult \in 0 .. LastMult
             /\ m_state \in 0 .. 2 /\ counter \in Exponents
<1>3. Counters /\ start \in BOOLEAN /\ mode \in Modes
  BY DEF IInv, TypeOK
<1>4. SUFFICES Counters' /\ Resting' /\ Multiplying' /\ Between'
  BY <1>1, <1>2 DEF IInv, TypeOK
<1>5. CASE rst_n' = FALSE
  <2>1. /\ state' = 0 /\ m_state' = 0 /\ counter' = 0
        /\ cnt_a' = M - 1 /\ cnt_mult' = 0 /\ add_input_2nd' = FALSE
        /\ mult_clean' = TRUE /\ w4' = Zero
    BY <1>5, ResetEffect
  <2>2. Counters'
    BY <2>1, Widths
  <2>3. Resting' /\ Multiplying' /\ Between'
    BY <2>1 DEF Resting, Multiplying, Between
  <2> QED
    BY <2>2, <2>3
<1>6. CASE rst_n' = TRUE /\ state = 0
  <2>1. /\ state' = (IF start THEN 1 ELSE 0)
        /\ m_state' = (IF start THEN 1 ELSE 0)
        /\ counter' = 0 /\ cnt_a' = M - 1 /\ cnt_mult' = 0
        /\ add_input_2nd' = FALSE /\ mult_clean' = FALSE
        /\ newstart' = FALSE /\ w4' = Zero
    BY <1>6, EdgeFromIdle
  <2>2. Counters'
    BY <1>3, <2>1, Widths
  <2>3. Resting'
    BY <1>3, <1>6, <2>1 DEF Resting
  <2>4. Multiplying'
    BY <1>3, <2>1, Widths DEF Multiplying
  <2>5. Between'
    BY <1>3, <2>1 DEF Between
  <2> QED
    BY <2>2, <2>3, <2>4, <2>5
<1>7. CASE rst_n' = TRUE /\ state = 2
  <2>1. /\ state' = 0 /\ m_state' = 0 /\ counter' = 0
        /\ cnt_a' = M - 1 /\ cnt_mult' = 0 /\ add_input_2nd' = FALSE
        /\ mult_clean' = FALSE /\ w4' = Zero
    BY <1>7, EdgeFromDone
  <2>2. Counters'
    BY <2>1, Widths
  <2>3. Resting' /\ Multiplying' /\ Between'
    BY <1>7, <2>1 DEF Resting, Multiplying, Between
  <2> QED
    BY <2>2, <2>3
<1>8. CASE rst_n' = TRUE /\ state = 1 /\ m_state = 1
  <2>1. /\ state' = 1 /\ newstart' = FALSE /\ mult_clean' = FALSE
        /\ cnt_mult' = cnt_mult
        /\ add_input_2nd' = ~add_input_2nd
        /\ ~CounterEnd => /\ m_state' = 1 /\ counter' = counter + 1
                          /\ counter < M - 1
                          /\ cnt_a' = cnt_a - 1
                          /\ mode = "add" => counter = 0
        /\ CounterEnd => /\ m_state' = 2 /\ counter' = 0
                         /\ mode = "inv" => cnt_a' = 0
                         /\ cnt_a' \in Exponents
    BY <1>8, EdgeInRound
  <2>2. /\ cnt_a + counter = M - 1 /\ cnt_a \in Nat /\ counter \in Nat
        /\ mode = "add" => (add_input_2nd <=> counter = 1)
        /\ mode # "inv" => cnt_mult = 0
    BY <1>3, <1>8, Widths DEF IInv, Multiplying, Between
  <2>3. mode' = mode
    BY <1>1, <1>8
  <2>4. CASE ~CounterEnd
    <3>1. /\ m_state' = 1 /\ counter' = counter + 1 /\ cnt_a' = cnt_a - 1
          /\ counter' \in Exponents /\ cnt_a' \in Exponents
          /\ cnt_a' + counter' = M - 1 /\ counter' # 0
      BY <2>1, <2>2, <2>4, Widths DEF Exponents
    <3>2. Counters'
      BY <1>3, <2>1, <3>1
    <3>3. mode' = "add" => counter' <= 1 /\ (add_input_2nd' <=> counter' = 1)
      <4>1. mode = "add" => counter' = 1 /\ ~add_input_2nd
        BY <2>1, <2>2, <2>4
      <4>2. mode = "add" => add_input_2nd'
        BY <2>1, <4>1
      <4> QED
        BY <2>3, <4>1, <4>2
    <3>4. Multiplying'
      BY <2>1, <3>1, <3>3 DEF Multiplying
    <3>5. Resting' /\ Between'
      BY <1>8, <2>1, <2>2, <2>3, <3>1 DEF Resting, Between
    <3> QED
      BY <3>2, <3>4, <3>5
  <2>5. CASE CounterEnd
    <3>1. /\ m_state' = 2 /\ counter' = 0 /\ cnt_a' \in Exponents
          /\ mode' = "inv" => cnt_a' = 0
      BY <2>1, <2>3, <2>5
    <3>2. Counters'
      BY <1>3, <2>1, <3>1, Widths
    <3>3. Resting' /\ Multiplying' /\ Between'
      BY <1>8, <2>1, <2>2, <2>3, <3>1 DEF Resting, Multiplying, Between
    <3> QED
      BY <3>2, <3>3
  <2> QED
    BY <2>4, <2>5
<1>9. CASE rst_n' = TRUE /\ state = 1 /\ m_state = 2
  <2>1. /\ m_state' = 0 /\ counter' = 0 /\ mult_clean' = TRUE
        /\ cnt_a' \in Exponents /\ add_input_2nd' \in BOOLEAN
        /\ LastDone => state' = 2 /\ cnt_mult' = 0
        /\ ~LastDone => /\ state' = 1 /\ mode = "inv"
                        /\ newstart' = TRUE /\ cnt_a' = 0
                        /\ cnt_mult' = cnt_mult /\ cnt_mult # LastMult
    BY <1>9, EdgeTakesProduct
  <2>2. mode' = mode
    BY <1>1, <1>9
  <2>3. Counters'
    BY <1>3, <2>1, Widths
  <2>4. Resting' /\ Multiplying' /\ Between'
    BY <1>9, <2>1, <2>2 DEF Resting, Multiplying, Between
  <2> QED
    BY <2>3, <2>4
<1>10. CASE rst_n' = TRUE /\ state = 1 /\ m_state = 0
  <2>1. /\ mode = "inv" /\ state' = 1 /\ m_state' = 1 /\ counter' = 0
        /\ cnt_a' = M - 1 /\ cnt_mult' = cnt_mult + 1
        /\ cnt_mult # LastMult /\ add_input_2nd' \in BOOLEAN
        /\ mult_clean' = FALSE /\ newstart' = FALSE /\ w4' = Zero
    BY <1>10, EdgeStartsNext
  <2>2. mode' = "inv"
    BY <1>1, <1>10, <2>1
  <2>3. cnt_mult' \in 0 .. LastMult
    BY <1>3, <2>1, Widths
  <2>4. Counters'
    BY <2>1, <2>3, Widths
  <2>5. Resting' /\ Multiplying' /\ Between'
    BY <1>10, <2>1, <2>2, Widths DEF Resting, Multiplying, Between
  <2> QED
    BY <2>4, <2>5
<1> QED
  <2>1. state \in {0, 1, 2} /\ m_state \in {0, 1, 2}
    BY <1>3
  <2>2. rst_n' = TRUE \/ rst_n' = FALSE
    BY <1>1
  <2> QED
    BY <1>5, <1>6, <1>7, <1>8, <1>9, <1>10, <2>1, <2>2

\* The inductive invariant holds in every reachable state.
THEOREM Invariance == Spec => []IInv
<1>1. Init => IInv
  BY InitIInv
<1>2. IInv /\ [Next]_vars => IInv'
  <2> SUFFICES ASSUME IInv, [Next]_vars
               PROVE  IInv'
    OBVIOUS
  <2>1. CASE Next
    <3>1. Clocked /\ (Posedge \/ Reset \/ Release)
      BY <2>1 DEF Next, Posedge, Reset, Release
    <3> QED
      BY <3>1, StepIInv
  <2>2. CASE UNCHANGED vars
    BY <2>2 DEF vars, inputs, coreRegs, multRegs, IInv, TypeOK, Resting,
                Multiplying, Between
  <2> QED
    BY <2>1, <2>2
<1> QED
  BY <1>1, <1>2, PTL DEF Spec

-----------------------------------------------------------------------------
(***************************************************************************)
(* The results.                                                            *)
(***************************************************************************)
\* Every register keeps its width, whatever the width is: no counter of CORE
\* or MULT runs past the bits it has to count.
THEOREM Typed == Spec => []TypeOK
<1>1. IInv => TypeOK
  BY DEF IInv
<1> QED
  BY <1>1, Invariance, PTL

\* CORE.count and MULT.count stay in step in every round of every operation,
\* after any number of operations, resets and aborted operations.
THEOREM InLockstep == Spec => []Lockstep
<1>1. IInv => Lockstep
  <2> SUFFICES ASSUME IInv, m_state = 1
               PROVE  /\ state = 1
                      /\ mode # "add" => cnt_a + counter = M - 1
                      /\ mode = "add" => (add_input_2nd <=> counter = 1)
    BY DEF Lockstep
  <2>1. state = 1
    BY DEF IInv, Resting
  <2> QED
    BY <2>1 DEF IInv, Multiplying
<1> QED
  BY <1>1, Invariance, PTL

\* No multiplication ever starts on a residue.
THEOREM CleanStarts == Spec => []CleanStart
<1>1. IInv => CleanStart
  <2> SUFFICES ASSUME IInv, m_state = 1, counter = 0
               PROVE  w4 = Zero
    BY DEF CleanStart
  <2>1. state = 1
    BY DEF IInv, Resting
  <2> QED
    BY <2>1 DEF IInv, Multiplying
<1> QED
  BY <1>1, Invariance, PTL

-----------------------------------------------------------------------------
(***************************************************************************)
(* The data.                                                               *)
(***************************************************************************)
\* The second factor of the multiplication that runs; Scanned is the first.
Factor == IF mode = "mul" THEN b ELSE IF cnt_mult = 0 THEN a ELSE sqr

Accumulating ==
    state = 1 /\ m_state = 1 =>
        w4 = IF mode = "add" THEN (IF counter = 0 THEN Zero ELSE b)
             ELSE MulRounds(Scanned, Factor, p)[counter]

Produced ==
    state = 1 /\ m_state = 2 =>
        w4 = IF mode = "add" THEN Add(a, b) ELSE Mul(Scanned, Factor, p)

\* The multiplication of the inversion that runs or is about to start.
Due == IF m_state = 0 THEN cnt_mult + 1 ELSE cnt_mult

Chained ==
    state = 1 /\ mode = "inv" /\ Due # 0 =>
        /\ sqr = Squares(a, p)[Due \div 2 + 1]
        /\ c = Products(a, p)[(Due + 1) \div 2]

arg == [mode |-> mode, a |-> a, b |-> b, p |-> p]

Answering ==
    /\ finish <=> state = 2
    /\ out = IF state = 2 THEN CoreResult(arg) ELSE Zero
    /\ ~rst_n => ~start

DataInv == Accumulating /\ Produced /\ Chained /\ Answering

\* The client keeps the operands of an operation in flight.
LEMMA ArgStays ==
    ASSUME IInv, Answering, Next, rst_n' = TRUE, InFlight
    PROVE  mode' = mode /\ a' = a /\ b' = b /\ p' = p
<1>1. rst_n
  BY DEF InFlight, IInv, Resting, Answering
<1>2. CASE Posedge
  BY <1>2 DEF Posedge, ClientHolds, ClientMoves
<1>3. CASE Release
  BY <1>1, <1>3 DEF Release
<1>4. CASE Reset
  BY <1>4 DEF Reset
<1> QED
  BY <1>2, <1>3, <1>4 DEF Next

\* The factors of the running multiplication carry M bits.
LEMMA FactorsTyped ==
    ASSUME TypeOK
    PROVE  Scanned \in Elem /\ Factor \in Elem
  BY DEF TypeOK, Scanned, Factor

\* A clock edge in a round of a multiplication is one round of Mul.
LEMMA RoundOfProduct ==
    ASSUME IInv, Clocked, rst_n' = TRUE, state = 1, m_state = 1, mode # "add"
    PROVE  w4' = MulRound(w4, cnt_a \in Scanned, Factor, p)
<1>1. TypeOK /\ ~mult_clean
  BY DEF IInv, Multiplying
<1>2. mult_isMul = TRUE
  BY DEF mult_isMul
<1>3. b_line = Factor
  BY DEF b_line, mult_b, Factor, Modes, TypeOK, IInv
<1>4. p_line = p
  BY <1>2 DEF p_line, mult_p, When
<1>5. mult_a <=> cnt_a \in Scanned
  BY DEF mult_a
<1>6. When(mult_a, b_line) = When(cnt_a \in Scanned, Factor)
  BY <1>3, <1>5 DEF When
<1>7. When(toMod, p_line) = When(M - 1 \in w4, p)
  BY <1>2, <1>4 DEF When, toMod
<1>8. w4' = w3
  BY <1>1 DEF Clocked, PE_update
<1> DEFINE red == When(M - 1 \in w4, p)
           part == When(cnt_a \in Scanned, Factor)
<1>9. w3 = Add(Add(red, part), Shl(w4))
  BY <1>2, <1>6, <1>7 DEF w3
<1>10. red \in Elem /\ part \in Elem /\ Shl(w4) \in Elem
  BY <1>1, ElemClosed, FactorsTyped DEF TypeOK, When
<1>11. MulRound(w4, cnt_a \in Scanned, Factor, p) = Add(Add(Shl(w4), red), part)
  BY DEF MulRound
<1> HIDE DEF red, part
<1>12. Add(Add(red, part), Shl(w4)) = Add(Add(Shl(w4), red), part)
  BY <1>10, AddLaws, ElemClosed
<1> QED
  BY <1>8, <1>9, <1>11, <1>12

\* An addition takes b in its first round and adds a in its second.
LEMMA RoundOfSum ==
    ASSUME IInv, Clocked, rst_n' = TRUE, state = 1, m_state = 1, mode = "add",
           Accumulating
    PROVE  w4' = IF counter = 0 THEN b ELSE Add(a, b)
<1>1. TypeOK /\ ~mult_clean
  BY DEF IInv, Multiplying
<1>2. /\ counter \in {0, 1}
      /\ add_input_2nd <=> counter = 1
  BY Widths DEF IInv, Multiplying, TypeOK
<1>3. w4 = IF counter = 0 THEN Zero ELSE b
  BY DEF Accumulating
<1>4. ~mult_isMul /\ ~toMod /\ mult_a
  BY DEF mult_isMul, toMod, mult_a
<1>5. b_line = IF counter = 0 THEN b ELSE a
  BY <1>2 DEF b_line, mult_b
<1>6. When(toMod, p_line) = Zero /\ When(mult_a, b_line) = b_line
  BY <1>4 DEF When
<1>7. w3 = Add(Add(Zero, b_line), w4)
  BY <1>4, <1>6 DEF w3
<1>8. w4' = w3
  BY <1>1 DEF Clocked, PE_update
<1>9. a \in Elem /\ b \in Elem /\ Zero \in Elem
  BY <1>1, ElemClosed DEF TypeOK
<1>10. CASE counter = 0
  BY <1>3, <1>5, <1>7, <1>8, <1>9, <1>10, AddLaws
<1>11. CASE counter = 1
  BY <1>3, <1>5, <1>7, <1>8, <1>9, <1>11, AddLaws
<1> QED
  BY <1>2, <1>10, <1>11

\* In state 1 the operands of the multiplication change only when the next
\* one starts.
LEMMA FactorsStay ==
    ASSUME IInv, Clocked, Answering, Next, rst_n' = TRUE, state = 1, m_state = 1
    PROVE  /\ mode' = mode /\ a' = a /\ b' = b /\ p' = p
           /\ sqr' = sqr /\ c' = c /\ cnt_mult' = cnt_mult
           /\ Scanned' = Scanned /\ Factor' = Factor
<1>1. mode' = mode /\ a' = a /\ b' = b /\ p' = p
  BY ArgStays DEF InFlight
<1>2. cnt_mult' = cnt_mult
  BY EdgeInRound
<1>3. ~mult_finish
  BY DEF mult_finish
<1>4. sqr' = sqr /\ c' = c
  BY <1>3 DEF Clocked, CORE_done
<1> QED
  BY <1>1, <1>2, <1>4 DEF Scanned, Factor, Squaring

\* State 1 is entered or kept out of reset only.
LEMMA StaysUp ==
    ASSUME IInv, Clocked, Next, state' # 0
    PROVE  rst_n' = TRUE
<1>1. rst_n' \in BOOLEAN
  BY InputsTyped DEF Next
<1>2. rst_n' = FALSE => state' = 0
  BY ResetEffect
<1> QED
  BY <1>1, <1>2

\* An edge keeps the accumulator at the round of Mul the counter shows.
LEMMA EdgeAccumulating ==
    ASSUME IInv, Clocked, DataInv, Next
    PROVE  Accumulating'
<1> SUFFICES ASSUME state' = 1, m_state' = 1
             PROVE  w4' = IF mode' = "add" THEN (IF counter' = 0 THEN Zero ELSE b')
                          ELSE MulRounds(Scanned', Factor', p')[counter']
  BY DEF Accumulating
<1>1. rst_n' = TRUE
  BY StaysUp
<1>2. state \in {0, 1, 2} /\ m_state \in {0, 1, 2} /\ Answering
  BY DEF IInv, TypeOK, DataInv
<1>3. TypeOK'
  BY StepIInv DEF IInv, Next
<1>4. Scanned' \in Elem /\ Factor' \in Elem /\ p' \in Elem
  BY <1>3 DEF TypeOK, Scanned, Factor
<1>5. ASSUME counter' = 0, w4' = Zero
      PROVE  w4' = IF mode' = "add" THEN (IF counter' = 0 THEN Zero ELSE b')
                   ELSE MulRounds(Scanned', Factor', p')[counter']
  <2>1. MulRounds(Scanned', Factor', p')[0] = Zero
    BY <1>4, MulUnfolds
  <2> QED
    BY <1>5, <2>1
<1>6. CASE state = 0
  BY <1>1, <1>5, <1>6, EdgeFromIdle
<1>7. CASE state = 2
  BY <1>1, <1>7, EdgeFromDone
<1>8. CASE state = 1 /\ m_state = 0
  BY <1>1, <1>5, <1>8, EdgeStartsNext
<1>9. CASE state = 1 /\ m_state = 2
  BY <1>1, <1>9, EdgeTakesProduct
<1>10. CASE state = 1 /\ m_state = 1
  <2>1. ~CounterEnd
    BY <1>1, <1>10, EdgeInRound
  <2>2. /\ counter' = counter + 1 /\ counter < M - 1
        /\ mode = "add" => counter = 0
    BY <1>1, <1>10, <2>1, EdgeInRound
  <2>3. counter \in Nat /\ cnt_a + counter = M - 1 /\ cnt_a \in Nat
    BY <1>10, Widths DEF IInv, TypeOK, Multiplying
  <2>4. mode' = mode /\ b' = b /\ p' = p /\ Scanned' = Scanned /\ Factor' = Factor
    BY <1>1, <1>2, <1>10, FactorsStay
  <2>5. CASE mode = "add"
    <3>1. w4' = b
      BY <1>1, <1>10, <2>2, <2>5, RoundOfSum DEF DataInv
    <3> QED
      BY <2>2, <2>4, <2>5, <3>1
  <2>6. CASE mode # "add"
    <3>1. w4' = MulRound(w4, cnt_a \in Scanned, Factor, p)
      BY <1>1, <1>10, <2>6, RoundOfProduct
    <3>2. w4 = MulRounds(Scanned, Factor, p)[counter]
      BY <1>10, <2>6 DEF DataInv, Accumulating
    <3>3. counter + 1 \in 1 .. M /\ (counter + 1) - 1 = counter /\ M - (counter + 1) = cnt_a
      BY <2>2, <2>3, Widths
    <3>4. Scanned \in Elem /\ Factor \in Elem /\ p \in Elem
      BY <1>4, <2>4
    <3>5. MulRounds(Scanned, Factor, p)[counter + 1] =
             MulRound(MulRounds(Scanned, Factor, p)[(counter + 1) - 1],
                      (M - (counter + 1)) \in Scanned, Factor, p)
      BY <3>3, <3>4, MulUnfolds, Zenon
    <3>6. MulRounds(Scanned, Factor, p)[counter + 1] =
             MulRound(w4, cnt_a \in Scanned, Factor, p)
      BY <3>2, <3>3, <3>5
    <3>7. w4' = MulRounds(Scanned', Factor', p')[counter']
      BY <2>2, <2>4, <3>1, <3>6
    <3> QED
      BY <2>4, <2>6, <3>7
  <2> QED
    BY <2>5, <2>6
<1> QED
  BY <1>2, <1>6, <1>7, <1>8, <1>9, <1>10

\* The edge that ends the last round leaves the product in the accumulator.
LEMMA EdgeProduced ==
    ASSUME IInv, Clocked, DataInv, Next
    PROVE  Produced'
<1> SUFFICES ASSUME state' = 1, m_state' = 2
             PROVE  w4' = IF mode' = "add" THEN Add(a', b')
                          ELSE Mul(Scanned', Factor', p')
  BY DEF Produced
<1>1. rst_n' = TRUE
  BY StaysUp
<1>2. state \in {0, 1, 2} /\ m_state \in {0, 1, 2} /\ Answering /\ TypeOK
  BY DEF IInv, TypeOK, DataInv
<1>3. state = 1 /\ m_state = 1
  BY <1>1, <1>2, EdgeFromIdle, EdgeFromDone, EdgeStartsNext, EdgeTakesProduct
<1>4. CounterEnd
  BY <1>1, <1>3, EdgeInRound
<1>5. mode' = mode /\ a' = a /\ b' = b /\ p' = p
      /\ Scanned' = Scanned /\ Factor' = Factor
  BY <1>1, <1>2, <1>3, FactorsStay
<1>6. CASE mode = "add"
  <2>1. counter = 1
    BY <1>4, <1>6 DEF CounterEnd, mult_isMul
  <2>2. w4' = Add(a, b)
    BY <1>1, <1>3, <1>6, <2>1, RoundOfSum DEF DataInv
  <2> QED
    BY <1>5, <1>6, <2>2
<1>7. CASE mode # "add"
  <2>1. counter = M - 1 /\ cnt_a = 0
    <3>1. counter = M - 1
      BY <1>3, <1>4, <1>7 DEF CounterEnd, mult_isMul
    <3>2. cnt_a + counter = M - 1 /\ cnt_a \in Nat
      BY <1>3, Widths DEF IInv, TypeOK, Multiplying
    <3> QED
      BY <3>1, <3>2, Widths
  <2>2. w4' = MulRound(w4, cnt_a \in Scanned, Factor, p)
    BY <1>1, <1>3, <1>7, RoundOfProduct
  <2>3. w4 = MulRounds(Scanned, Factor, p)[counter]
    BY <1>3, <1>7 DEF DataInv, Accumulating
  <2>4. M \in 1 .. M /\ M - M = cnt_a
    BY <2>1, Widths
  <2>5. Scanned \in Elem /\ Factor \in Elem /\ p \in Elem
    BY <1>2, FactorsTyped DEF TypeOK
  <2>6. /\ Mul(Scanned, Factor, p) = MulRounds(Scanned, Factor, p)[M]
        /\ MulRounds(Scanned, Factor, p)[M] =
             MulRound(MulRounds(Scanned, Factor, p)[M - 1],
                      (M - M) \in Scanned, Factor, p)
    BY <2>4, <2>5, MulUnfolds, Zenon
  <2>7. w4' = Mul(Scanned, Factor, p)
    BY <2>1, <2>2, <2>3, <2>4, <2>6
  <2> QED
    BY <1>5, <1>7, <2>7
<1> QED
  BY <1>6, <1>7

\* The number of the last multiplication of an inversion, and its halves.
LEMMA LastMultIs == LastMult = 2 * (M - 2) /\ LastMult % 2 = 0 /\ LastMult \div 2 + 1 = M - 1
<1>1. LastMult = 2 * (M - 2)
  BY DEF LastMult
<1>2. \A k \in Nat : (2 * k) % 2 = 0 /\ (2 * k) \div 2 = k
  OBVIOUS
<1>3. M - 2 \in Nat
  BY Widths
<1>4. LastMult % 2 = 0 /\ LastMult \div 2 = M - 2
  BY <1>1, <1>2, <1>3
<1> QED
  BY <1>1, <1>4, Widths

\* The product of an inversion that is ready is the next square, or the next
\* product, of the golden model's inverse.
LEMMA ProductInChain ==
    ASSUME IInv, DataInv, state = 1, m_state = 2, mode = "inv"
    PROVE  /\ cnt_mult % 2 = 0 => w4 = Products(a, p)[cnt_mult \div 2 + 1]
           /\ Squaring => w4 = Squares(a, p)[(cnt_mult + 1) \div 2 + 1]
<1> DEFINE j == cnt_mult
           sq == Squares(a, p)
           pr == Products(a, p)
<1>1. w4 = Mul(Scanned, Factor, p)
  BY DEF DataInv, Produced
<1>2. j \in 0 .. LastMult /\ a \in Elem /\ p \in Elem /\ M \in Nat /\ LastMult = 2 * (M - 2)
  BY Widths, LastMultIs DEF IInv, TypeOK
<1>3. /\ sq[1] = Mul(a, a, p) /\ pr[1] = sq[1]
      /\ \A i \in 2 .. M - 1 : /\ sq[i] = Mul(sq[i - 1], sq[i - 1], p)
                             /\ pr[i] = Mul(pr[i - 1], sq[i], p)
  BY <1>2, InvUnfolds
<1>4. j # 0 => /\ sqr = sq[j \div 2 + 1]
               /\ c = pr[(j + 1) \div 2]
  BY DEF DataInv, Chained, Due
<1> HIDE DEF sq, pr
<1>5. CASE j = 0
  <2>1. Scanned = a /\ Factor = a
    BY <1>5 DEF Scanned, Factor
  <2>2. w4 = sq[1] /\ w4 = pr[1]
    BY <1>1, <1>3, <2>1
  <2>3. j \div 2 + 1 = 1 /\ (j + 1) \div 2 + 1 = 1
    BY <1>5
  <2> QED
    BY <2>2, <2>3 DEF sq, pr
<1>6. CASE j # 0 /\ j % 2 = 1
  <2>1. Squaring /\ Scanned = sqr /\ Factor = sqr
    BY <1>6 DEF Scanned, Factor, Squaring
  <2> DEFINE i == (j + 1) \div 2 + 1
  <2>2. i \in 2 .. M - 1 /\ j \div 2 + 1 = i - 1
    BY <1>2, <1>6
  <2>3. w4 = sq[i]
    BY <1>1, <1>3, <1>4, <1>6, <2>1, <2>2
  <2>4. j % 2 # 0
    BY <1>6
  <2> QED
    BY <2>3, <2>4 DEF sq
<1>7. CASE j # 0 /\ j % 2 = 0
  <2>1. ~Squaring /\ Scanned = c /\ Factor = sqr
    BY <1>7 DEF Scanned, Factor, Squaring
  <2> DEFINE i == j \div 2 + 1
  <2>2. i \in 2 .. M - 1 /\ (j + 1) \div 2 = i - 1
    BY <1>2, <1>7
  <2>3. w4 = pr[i]
    BY <1>1, <1>3, <1>4, <1>7, <2>1, <2>2
  <2> QED
    BY <2>1, <2>3 DEF pr
<1>8. j % 2 \in {0, 1}
  BY <1>2
<1> QED
  BY <1>5, <1>6, <1>7, <1>8

\* An edge keeps sqr and c at the squares and products the count shows.
LEMMA EdgeChained ==
    ASSUME IInv, Clocked, DataInv, Next
    PROVE  Chained'
<1> SUFFICES ASSUME state' = 1, mode' = "inv", Due' # 0
             PROVE  /\ sqr' = Squares(a', p')[Due' \div 2 + 1]
                    /\ c' = Products(a', p')[(Due' + 1) \div 2]
  BY DEF Chained
<1>1. rst_n' = TRUE
  BY StaysUp
<1>2. state \in {0, 1, 2} /\ m_state \in {0, 1, 2} /\ Answering /\ TypeOK
  BY DEF IInv, TypeOK, DataInv
<1>3. CASE state = 0
  <2>1. start
    BY <1>1, <1>2, <1>3, EdgeFromIdle DEF TypeOK
  <2>2. m_state' = 1 /\ cnt_mult' = 0
    BY <1>1, <1>3, <2>1, EdgeFromIdle
  <2> QED
    BY <2>2 DEF Due
<1>4. CASE state = 2
  BY <1>1, <1>4, EdgeFromDone
<1>5. CASE state = 1
  <2>1. mode' = mode /\ a' = a /\ p' = p
    BY <1>1, <1>2, <1>5, ArgStays DEF InFlight
  <2>2. CASE m_state = 1
    <3>1. sqr' = sqr /\ c' = c /\ cnt_mult' = cnt_mult
      BY <1>1, <1>2, <1>5, <2>2, FactorsStay
    <3>2. m_state' # 0
      BY <1>1, <1>5, <2>2, EdgeInRound
    <3>3. Due' = Due
      BY <2>2, <3>1, <3>2 DEF Due
    <3> QED
      BY <1>5, <2>1, <3>1, <3>3 DEF DataInv, Chained
  <2>3. CASE m_state = 0
    <3>1. m_state' = 1 /\ cnt_mult' = cnt_mult + 1
      BY <1>1, <1>5, <2>3, EdgeStartsNext
    <3>2. sqr' = sqr /\ c' = c
      BY <1>1, <1>5, <2>3 DEF Clocked, CORE_done, mult_finish
    <3>3. Due' = Due
      BY <2>3, <3>1 DEF Due
    <3> QED
      BY <1>5, <2>1, <3>2, <3>3 DEF DataInv, Chained
  <2>4. CASE m_state = 2
    <3>1. ~LastDone
      BY <1>1, <1>5, <2>4, EdgeTakesProduct
    <3>2. m_state' = 0 /\ cnt_mult' = cnt_mult
      BY <1>1, <1>5, <2>4, <3>1, EdgeTakesProduct
    <3>3. Due' = cnt_mult + 1 /\ cnt_mult \in Nat
      BY <1>2, <3>2, Widths DEF Due, TypeOK
    <3>4. mult_finish /\ mult_out = w4
      BY <2>4 DEF mult_finish, mult_out
    <3>5. /\ sqr' = IF Squaring THEN w4 ELSE sqr
          /\ c' = IF cnt_mult % 2 = 0 THEN w4 ELSE c
      BY <1>1, <1>5, <2>1, <3>1, <3>4 DEF Clocked, CORE_done
    <3>6. /\ cnt_mult % 2 = 0 => w4 = Products(a, p)[cnt_mult \div 2 + 1]
          /\ Squaring => w4 = Squares(a, p)[(cnt_mult + 1) \div 2 + 1]
      BY <1>5, <2>1, <2>4, ProductInChain
    <3>7. cnt_mult # 0 => /\ sqr = Squares(a, p)[cnt_mult \div 2 + 1]
                          /\ c = Products(a, p)[(cnt_mult + 1) \div 2]
      BY <1>5, <2>1, <2>4 DEF DataInv, Chained, Due
    <3>8. sqr' = Squares(a, p)[(cnt_mult + 1) \div 2 + 1]
      <4>1. CASE Squaring
        BY <3>5, <3>6, <4>1
      <4>2. CASE ~Squaring
        <5>1. cnt_mult # 0 /\ cnt_mult % 2 = 0
          BY <3>3, <4>2 DEF Squaring
        <5>2. (cnt_mult + 1) \div 2 = cnt_mult \div 2
          BY <3>3, <5>1
        <5> QED
          BY <3>5, <3>7, <4>2, <5>1, <5>2
      <4> QED
        BY <4>1, <4>2
    <3>9. c' = Products(a, p)[(cnt_mult + 1 + 1) \div 2]
      <4>1. CASE cnt_mult % 2 = 0
        <5>1. (cnt_mult + 1 + 1) \div 2 = cnt_mult \div 2 + 1
          BY <3>3
        <5> QED
          BY <3>5, <3>6, <4>1, <5>1
      <4>2. CASE cnt_mult % 2 # 0
        <5>1. cnt_mult # 0 /\ (cnt_mult + 1 + 1) \div 2 = (cnt_mult + 1) \div 2
          BY <3>3, <4>2
        <5> QED
          BY <3>5, <3>7, <4>2, <5>1
      <4> QED
        BY <4>1, <4>2
    <3> QED
      BY <2>1, <3>3, <3>8, <3>9
  <2> QED
    BY <1>2, <2>2, <2>3, <2>4
<1> QED
  BY <1>2, <1>3, <1>4, <1>5

\* The last product of an operation is what the golden model returns.
LEMMA LastProduct ==
    ASSUME IInv, DataInv, state = 1, LastDone
    PROVE  w4 = CoreResult(arg)
<1>1. m_state = 2 /\ (mode = "inv" => cnt_mult = LastMult)
  BY DEF LastDone, mult_finish
<1>2. mode \in {"add", "mul", "inv"}
  BY DEF IInv, TypeOK, Modes
<1>3. arg.mode = mode /\ arg.a = a /\ arg.b = b /\ arg.p = p
  BY DEF arg
<1>4. CASE mode = "add"
  BY <1>1, <1>3, <1>4 DEF DataInv, Produced, CoreResult
<1>5. CASE mode = "mul"
  BY <1>1, <1>3, <1>5 DEF DataInv, Produced, CoreResult, Scanned, Factor
<1>6. CASE mode = "inv"
  <2>1. w4 = Products(a, p)[M - 1]
    BY <1>1, <1>6, ProductInChain, LastMultIs
  <2>2. a \in Elem /\ p \in Elem
    BY DEF IInv, TypeOK
  <2>3. Inv(a, p) = Products(a, p)[M - 1]
    BY <2>2, InvUnfolds
  <2> QED
    BY <1>3, <1>6, <2>1, <2>3 DEF CoreResult
<1> QED
  BY <1>2, <1>4, <1>5, <1>6

\* The edge that ends an operation puts the golden result on the output.
LEMMA EdgeAnswering ==
    ASSUME IInv, Clocked, DataInv, Next
    PROVE  Answering'
<1>1. state \in {0, 1, 2} /\ m_state \in {0, 1, 2} /\ Answering /\ TypeOK
  BY DEF IInv, TypeOK, DataInv
<1>2. ~rst_n' => ~start'
  <2>1. CASE Posedge
    <3>1. rst_n /\ rst_n' = rst_n
      BY <2>1 DEF Posedge
    <3> QED
      BY <3>1
  <2>2. CASE Release
    BY <2>2 DEF Release, NoRequest
  <2>3. CASE Reset
    BY <2>3 DEF Reset, NoRequest
  <2> QED
    BY <2>1, <2>2, <2>3 DEF Next
<1>3. CASE state = 1 /\ rst_n' = TRUE /\ LastDone
  <2>1. m_state = 2
    BY <1>3 DEF LastDone, mult_finish
  <2>2. state' = 2
    BY <1>3, <2>1, EdgeTakesProduct
  <2>3. finish' = TRUE
    <3>1. finish' = (LastDone \/ finish)
      BY <1>3 DEF Clocked, CORE_done
    <3> QED
      BY <1>3, <3>1, Zenon
  <2>7. out' = w4
    BY <1>3, <2>1 DEF Clocked, CORE_done, mult_out
  <2>4. arg' = arg
    BY <1>1, <1>3, ArgStays DEF arg, InFlight
  <2>5. w4 = CoreResult(arg)
    BY <1>3, LastProduct
  <2>6. finish' <=> state' = 2
    BY <2>2, <2>3
  <2> QED
    BY <1>2, <2>2, <2>4, <2>5, <2>6, <2>7 DEF Answering
<1>4. CASE state = 1 /\ rst_n' = TRUE /\ ~LastDone
  <2>1. state' = 1
    BY <1>4 DEF Clocked, CORE_fsm
  <2>2. ~finish /\ out = Zero
    BY <1>1, <1>4 DEF Answering
  <2>3. ~finish'
    <3>1. finish' = (LastDone \/ finish)
      BY <1>4 DEF Clocked, CORE_done
    <3> QED
      BY <1>4, <2>2, <3>1, Zenon
  <2>4. out' = Zero
    BY <1>4, <2>2 DEF Clocked, CORE_done
  <2> QED
    BY <1>2, <2>1, <2>3, <2>4 DEF Answering
<1>5. CASE state # 1 \/ rst_n' = FALSE
  <2>1. finish' = FALSE /\ out' = Zero
    BY <1>5 DEF Clocked, CORE_done
  <2>2. state' # 2
    BY <1>1, <1>5 DEF Clocked, CORE_fsm
  <2> QED
    BY <1>2, <2>1, <2>2 DEF Answering
<1>6. rst_n' = TRUE \/ rst_n' = FALSE
  BY InputsTyped DEF Next
<1> QED
  BY <1>3, <1>4, <1>5, <1>6

\* The values are right, because there are none, at power-on.
LEMMA InitDataInv == Init => DataInv
<1> SUFFICES ASSUME Init
             PROVE  DataInv
  OBVIOUS
<1>1. Accumulating /\ Produced /\ Chained
  BY DEF Init, Accumulating, Produced, Chained
<1>2. Answering
  BY DEF Init, Answering
<1> QED
  BY <1>1, <1>2 DEF DataInv

\* The values are those of the golden model in every reachable state.
THEOREM DataInvariance == Spec => [](IInv /\ DataInv)
<1>1. Init => IInv /\ DataInv
  BY InitIInv, InitDataInv
<1>2. IInv /\ DataInv /\ [Next]_vars => IInv' /\ DataInv'
  <2> SUFFICES ASSUME IInv, DataInv, [Next]_vars
               PROVE  IInv' /\ DataInv'
    OBVIOUS
  <2>1. CASE Next
    <3>1. Clocked /\ (Posedge \/ Reset \/ Release)
      BY <2>1 DEF Next, Posedge, Reset, Release
    <3>2. IInv'
      BY <3>1, StepIInv
    <3>3. Accumulating' /\ Produced' /\ Chained' /\ Answering'
      BY <2>1, <3>1, <3>2, EdgeAccumulating, EdgeProduced, EdgeChained,
         EdgeAnswering
    <3> QED
      BY <3>2, <3>3 DEF DataInv
  <2>2. CASE UNCHANGED vars
    <3>1. IInv'
      BY <2>2 DEF vars, inputs, coreRegs, multRegs, IInv, TypeOK, Resting,
                  Multiplying, Between
    <3>2. Accumulating' /\ Produced'
      BY <2>2 DEF vars, inputs, coreRegs, multRegs, DataInv, Accumulating,
                  Produced, Scanned, Factor, Squaring
    <3>3. Chained'
      BY <2>2 DEF vars, inputs, coreRegs, multRegs, DataInv, Chained, Due
    <3>4. Answering'
      BY <2>2 DEF vars, inputs, coreRegs, multRegs, DataInv, Answering, arg
    <3> QED
      BY <3>1, <3>2, <3>3, <3>4 DEF DataInv
  <2> QED
    BY <2>1, <2>2
<1> QED
  BY <1>1, <1>2, PTL DEF Spec

\* When CORE raises finish its output is the golden model's result for the
\* operands on its inputs; at any other time the output is 0.
THEOREM ComputesGolden ==
    Spec => [](out = IF finish THEN CoreResult(arg) ELSE Zero)
<1>1. DataInv => out = IF finish THEN CoreResult(arg) ELSE Zero
  BY DEF DataInv, Answering
<1> QED
  BY <1>1, DataInvariance, PTL

\* What the client asked to invert is one of its operands, modulo one of its
\* polynomials.
Asked == mode = "inv" => a \in Operands /\ p \in Polys

\* A client never inverts anything else.
THEOREM AskedInvariance == Spec => []Asked
<1>1. Init => Asked
  BY DEF Init, Asked
<1>2. Asked /\ [Next]_vars => Asked'
  <2> SUFFICES ASSUME Asked, [Next]_vars
               PROVE  Asked'
    OBVIOUS
  <2>1. CASE UNCHANGED vars
    BY <2>1 DEF vars, inputs, Asked
  <2>2. CASE UNCHANGED <<mode, a, b, p>>
    BY <2>2 DEF Asked
  <2>3. CASE Request
    BY <2>3 DEF Request, Asked
  <2> QED
    BY <2>1, <2>2, <2>3 DEF Next, Posedge, Reset, Release, ClientHolds,
                            ClientMoves, NoRequest
<1> QED
  BY <1>1, <1>2, PTL DEF Spec

\* The unit computes the field, for every width: sums, products modulo x^M + p
\* and, if the golden model's inverse is one for the operands and polynomials
\* in use (which are irreducible), inverses.
THEOREM ComputesField ==
    ASSUME \A u \in Operands, q \in Polys : IsInverse(u, Inv(u, q), q)
    PROVE  Spec => []FieldCorrect
<1>1. IInv /\ DataInv /\ Asked => FieldCorrect
  <2> SUFFICES ASSUME IInv, DataInv, Asked, finish
               PROVE  CASE mode = "add" -> out = Add(a, b)
                        [] mode = "mul" -> out = FieldProduct(a, b, p)
                        [] mode = "inv" -> IsInverse(a, out, p)
    BY DEF FieldCorrect
  <2>1. out = CoreResult(arg)
    BY DEF DataInv, Answering
  <2>2. mode \in {"add", "mul", "inv"} /\ a \in Elem /\ b \in Elem /\ p \in Elem
    BY DEF IInv, TypeOK, Modes
  <2>3. arg.mode = mode /\ arg.a = a /\ arg.b = b /\ arg.p = p
    BY DEF arg
  <2>4. CASE mode = "add"
    BY <2>1, <2>3, <2>4 DEF CoreResult
  <2>5. CASE mode = "mul"
    BY <2>1, <2>2, <2>3, <2>5, MulIsFieldProduct DEF CoreResult
  <2>6. CASE mode = "inv"
    <3>1. out = Inv(a, p)
      BY <2>1, <2>3, <2>6 DEF CoreResult
    <3>2. a \in Operands /\ p \in Polys
      BY <2>6 DEF Asked
    <3> QED
      BY <2>6, <3>1, <3>2
  <2> QED
    BY <2>2, <2>4, <2>5, <2>6
<1> QED
  BY <1>1, DataInvariance, AskedInvariance, PTL

-----------------------------------------------------------------------------
(***************************************************************************)
(* The handshake: every step of CORE is a step of UnitSpec or a stutter.   *)
(***************************************************************************)
\* What is left of an inversion, one multiplication at a time.
LEMMA OneMultLess ==
    ASSUME NEW j \in 0 .. LastMult, j # LastMult
    PROVE  /\ (LastMult - j) * MultPeriod \in Nat
           /\ (LastMult - (j + 1)) * MultPeriod \in Nat
           /\ (LastMult - j) * MultPeriod
                = MultPeriod + (LastMult - (j + 1)) * MultPeriod
<1> DEFINE k == LastMult - (j + 1)
<1>1. MultPeriod \in Nat /\ k \in Nat /\ LastMult - j = k + 1
  BY Widths DEF MultPeriod
<1> HIDE DEF k
<1>2. k * MultPeriod \in Nat /\ (k + 1) * MultPeriod = MultPeriod + k * MultPeriod
  BY <1>1
<1> QED
  BY <1>1, <1>2 DEF k

\* The edges CORE still needs, by what its two state machines are doing.
LeftInProduct ==
    CASE m_state = 1 -> (IF mode = "add" THEN 1 ELSE M - 1) - counter + 2
      [] m_state = 2 -> 1

LeftInChain ==
    CASE m_state = 0 -> MultPeriod + (LastMult - (cnt_mult + 1)) * MultPeriod
      [] m_state = 1 -> M - 1 - counter + 2 + (LastMult - cnt_mult) * MultPeriod
      [] m_state = 2 -> 1 + (LastMult - cnt_mult) * MultPeriod

EdgesLeftParts ==
    /\ state # 1 => EdgesLeft = 0
    /\ state = 1 /\ mode # "inv" => EdgesLeft = LeftInProduct
    /\ state = 1 /\ mode = "inv" => EdgesLeft = LeftInChain

\* The count of Core's EdgesLeft, spelled out by the state CORE is in.
LEMMA EdgesLeftIs == IInv => EdgesLeftParts
<1> SUFFICES ASSUME IInv
             PROVE  EdgesLeftParts
  OBVIOUS
<1>1. /\ mode \in Modes /\ m_state \in {0, 1, 2} /\ cnt_mult \in 0 .. LastMult
      /\ counter \in 0 .. M - 1
  BY DEF IInv, TypeOK, Exponents
<1>2. state # 1 => EdgesLeft = 0
  BY DEF EdgesLeft
<1>3. ASSUME state = 1, mode # "inv"
      PROVE  EdgesLeft = LeftInProduct
  <2>1. m_state # 0
    BY <1>3 DEF IInv, Between
  <2> QED
    BY <1>1, <1>3, <2>1, Widths DEF EdgesLeft, LeftInProduct
<1>4. ASSUME state = 1, mode = "inv"
      PROVE  EdgesLeft = LeftInChain
  <2>1. /\ LastMult - cnt_mult - 1 = LastMult - (cnt_mult + 1)
        /\ LastMult - cnt_mult - 0 = LastMult - cnt_mult
    BY <1>1, Widths
  <2> QED
    BY <1>1, <1>4, <2>1 DEF EdgesLeft, LeftInChain
<1> QED
  BY <1>2, <1>3, <1>4 DEF EdgesLeftParts

\* The same in the next state.
LEMMA EdgesLeftWillBe == IInv' => EdgesLeftParts'
  BY EdgesLeftIs, PTL

\* An edge that accepts an operand starts the count at the operation's latency.
LEMMA AcceptStartsCount ==
    ASSUME IInv, IInv', state' = 1, m_state' = 1, counter' = 0, cnt_mult' = 0,
           mode' = mode
    PROVE  EdgesLeft' = CoreLatency(arg)
<1>1. mode \in {"add", "mul", "inv"}
  BY DEF IInv, TypeOK, Modes
<1>2. arg.mode = mode
  BY DEF arg
<1>3. EdgesLeftParts'
  BY EdgesLeftWillBe
<1>4. CASE mode = "add"
  <2>1. EdgesLeft' = LeftInProduct'
    BY <1>3, <1>4 DEF EdgesLeftParts
  <2> QED
    BY <1>2, <1>4, <2>1 DEF CoreLatency, LeftInProduct
<1>5. CASE mode = "mul"
  <2>1. EdgesLeft' = LeftInProduct'
    BY <1>3, <1>5 DEF EdgesLeftParts
  <2> QED
    BY <1>2, <1>5, <2>1, Widths DEF CoreLatency, LeftInProduct
<1>6. CASE mode = "inv"
  <2>1. EdgesLeft' = LeftInChain'
    BY <1>3, <1>6 DEF EdgesLeftParts
  <2>2. EdgesLeft' = M - 1 - 0 + 2 + (LastMult - 0) * MultPeriod
    BY <2>1 DEF LeftInChain
  <2>3. CoreLatency(arg) = LastMult * MultPeriod + M + 1
    BY <1>2, <1>6 DEF CoreLatency
  <2>4. LastMult - 0 = LastMult
    BY Widths
  <2>5. LastMult * MultPeriod \in Nat
    BY Widths DEF MultPeriod
  <2> QED
    BY <2>2, <2>3, <2>4, <2>5, Widths
<1> QED
  BY <1>1, <1>4, <1>5, <1>6

\* An edge of an operation that does not end it takes one from the count.
LEMMA WorkCounts ==
    ASSUME IInv, IInv', Clocked, Next, state = 1, rst_n' = TRUE,
           ~(m_state = 2 /\ LastDone)
    PROVE  EdgesLeft \in Nat /\ EdgesLeft > 1 /\ EdgesLeft' = EdgesLeft - 1
<1>1. /\ mode \in {"add", "mul", "inv"} /\ m_state \in {0, 1, 2}
      /\ cnt_mult \in 0 .. LastMult /\ counter \in 0 .. M - 1
      /\ LastMult \in Nat /\ MultPeriod \in Nat /\ MultPeriod > 3
  BY Widths DEF IInv, TypeOK, Modes, Exponents, MultPeriod
<1>2. mode' = mode
  BY InputsTyped DEF Next
<1>3. EdgesLeftParts /\ EdgesLeftParts'
  BY EdgesLeftIs, EdgesLeftWillBe
<1>4. CASE m_state = 1
  <2>1. /\ state' = 1 /\ cnt_mult' = cnt_mult
        /\ ~CounterEnd => /\ m_state' = 1 /\ counter' = counter + 1
                          /\ counter < M - 1
                          /\ mode = "add" => counter = 0
        /\ CounterEnd => m_state' = 2 /\ counter' = 0
    BY <1>4, EdgeInRound
  <2>2. CounterEnd => counter = IF mode = "add" THEN 1 ELSE M - 1
    BY DEF CounterEnd, mult_isMul
  <2>3. CASE mode # "inv"
    <3>1. EdgesLeft = LeftInProduct /\ EdgesLeft' = LeftInProduct'
      BY <1>2, <1>3, <2>1, <2>3 DEF EdgesLeftParts
    <3>2. CASE CounterEnd
      <4>1. EdgesLeft = 2 /\ EdgesLeft' = 1
        BY <1>1, <1>2, <1>4, <2>1, <2>2, <3>1, <3>2, Widths DEF LeftInProduct
      <4> QED
        BY <4>1
    <3>3. CASE ~CounterEnd
      <4>1. EdgesLeft = (IF mode = "add" THEN 1 ELSE M - 1) - counter + 2
        BY <1>4, <3>1 DEF LeftInProduct
      <4>2. EdgesLeft' = (IF mode = "add" THEN 1 ELSE M - 1) - (counter + 1) + 2
        BY <1>2, <2>1, <3>1, <3>3 DEF LeftInProduct
      <4>3. counter < M - 1 /\ (mode = "add" => counter = 0)
        BY <2>1, <3>3
      <4> QED
        BY <1>1, <4>1, <4>2, <4>3, Widths
    <3> QED
      BY <3>2, <3>3
  <2>4. CASE mode = "inv"
    <3>1. EdgesLeft = LeftInChain /\ EdgesLeft' = LeftInChain'
      BY <1>2, <1>3, <2>1, <2>4 DEF EdgesLeftParts
    <3>2. (LastMult - cnt_mult) * MultPeriod \in Nat
      BY <1>1
    <3> QED
      BY <1>1, <1>2, <1>4, <2>1, <2>2, <2>4, <3>1, <3>2, Widths DEF LeftInChain
  <2> QED
    BY <2>3, <2>4
<1>5. CASE m_state = 2
  <2>1. ~LastDone
    BY <1>5
  <2>2. /\ mode = "inv" /\ state' = 1 /\ m_state' = 0
        /\ cnt_mult' = cnt_mult /\ cnt_mult # LastMult
    BY <1>5, <2>1, EdgeTakesProduct
  <2>3. EdgesLeft = LeftInChain /\ EdgesLeft' = LeftInChain'
    BY <1>2, <1>3, <2>2 DEF EdgesLeftParts
  <2>4. EdgesLeft = 1 + (LastMult - cnt_mult) * MultPeriod
    BY <1>5, <2>3 DEF LeftInChain
  <2>5. EdgesLeft' = MultPeriod + (LastMult - (cnt_mult + 1)) * MultPeriod
    BY <2>2, <2>3 DEF LeftInChain
  <2> QED
    BY <1>1, <2>2, <2>4, <2>5, OneMultLess
<1>6. CASE m_state = 0
  <2>1. /\ mode = "inv" /\ state' = 1 /\ m_state' = 1 /\ counter' = 0
        /\ cnt_mult' = cnt_mult + 1 /\ cnt_mult # LastMult
    BY <1>6, EdgeStartsNext
  <2>2. EdgesLeft = LeftInChain /\ EdgesLeft' = LeftInChain'
    BY <1>2, <1>3, <2>1 DEF EdgesLeftParts
  <2>3. EdgesLeft = MultPeriod + (LastMult - (cnt_mult + 1)) * MultPeriod
    BY <1>6, <2>2 DEF LeftInChain
  <2>4. EdgesLeft' = M - 1 - 0 + 2 + (LastMult - (cnt_mult + 1)) * MultPeriod
    BY <2>1, <2>2 DEF LeftInChain
  <2>5. (LastMult - (cnt_mult + 1)) * MultPeriod \in Nat
    BY <2>1, <1>1, OneMultLess
  <2> QED
    BY <1>1, <2>3, <2>4, <2>5, Widths DEF MultPeriod
<1> QED
  BY <1>1, <1>4, <1>5, <1>6

\* The edge that ends an operation is the last one the count has left.
LEMMA CompleteIsLast ==
    ASSUME IInv, state = 1, m_state = 2, LastDone
    PROVE  EdgesLeft = 1
<1>1. /\ mode \in {"add", "mul", "inv"} /\ EdgesLeftParts
      /\ mode = "inv" => cnt_mult = LastMult
  BY EdgesLeftIs DEF IInv, TypeOK, Modes, LastDone
<1>2. CASE mode # "inv"
  <2>1. EdgesLeft = LeftInProduct
    BY <1>1, <1>2 DEF EdgesLeftParts
  <2> QED
    BY <2>1 DEF LeftInProduct
<1>3. CASE mode = "inv"
  <2>1. EdgesLeft = LeftInChain
    BY <1>1, <1>3 DEF EdgesLeftParts
  <2>2. EdgesLeft = 1 + (LastMult - LastMult) * MultPeriod
    BY <1>1, <1>3, <2>1 DEF LeftInChain
  <2>3. (LastMult - LastMult) * MultPeriod = 0
    BY Widths DEF MultPeriod
  <2> QED
    BY <2>2, <2>3
<1> QED
  BY <1>2, <1>3

\* Every edge of CORE out of reset is an edge of the contract.
LEMMA EdgeRefines ==
    ASSUME IInv, IInv', DataInv, DataInv', Clocked, Next, rst_n = TRUE, rst_n' = TRUE
    PROVE  Unit!Clock
<1> DEFINE ph == CASE state = 0 -> "idle" [] state = 1 -> "busy" [] state = 2 -> "done"
<1>1. /\ state \in {0, 1, 2} /\ m_state \in {0, 1, 2} /\ EdgesLeftParts
      /\ Answering /\ Answering' /\ EdgesLeftParts'
  BY EdgesLeftIs, EdgesLeftWillBe DEF IInv, TypeOK, DataInv
<1>2. InFlight => arg' = arg
  BY <1>1, ArgStays DEF arg
<1>3. Unit!InFlight <=> InFlight
  BY <1>1 DEF Unit!InFlight, InFlight
<1>4. Unit!Edge
  <2>1. CASE state = 0 /\ ~start
    <3>1. state' = 0
      BY <2>1, EdgeFromIdle
    <3>2. out' = out /\ EdgesLeft = 0 /\ EdgesLeft' = 0
      BY <1>1, <2>1, <3>1 DEF Answering, EdgesLeftParts
    <3> QED
      BY <2>1, <3>1, <3>2 DEF Unit!Edge, Unit!Rest
  <2>2. CASE state = 0 /\ start
    <3>1. state' = 1 /\ m_state' = 1 /\ counter' = 0 /\ cnt_mult' = 0
      BY <2>2, EdgeFromIdle
    <3>2. mode' = mode
      BY <2>2, InputsTyped DEF Next
    <3>3. EdgesLeft' = CoreLatency(arg)
      BY <3>1, <3>2, AcceptStartsCount
    <3>4. out' = out
      BY <1>1, <2>2, <3>1 DEF Answering
    <3> QED
      BY <2>2, <3>1, <3>3, <3>4 DEF Unit!Edge, Unit!Accept, arg
  <2>3. CASE state = 1 /\ m_state = 2 /\ LastDone
    <3>1. state' = 2
      BY <2>3, EdgeTakesProduct
    <3>2. EdgesLeft = 1 /\ EdgesLeft' = 0
      BY <1>1, <2>3, <3>1, CompleteIsLast DEF EdgesLeftParts
    <3>3. out' = CoreResult(arg)
      BY <1>1, <1>2, <2>3, <3>1 DEF Answering, InFlight
    <3> QED
      BY <2>3, <3>1, <3>2, <3>3 DEF Unit!Edge, Unit!Complete, arg
  <2>4. CASE state = 1 /\ ~(m_state = 2 /\ LastDone)
    <3>1. state' = 1
      BY <1>1, <2>4, EdgeInRound, EdgeTakesProduct, EdgeStartsNext
    <3>2. EdgesLeft > 1 /\ EdgesLeft' = EdgesLeft - 1
      BY <2>4, WorkCounts
    <3>3. out' = out
      BY <1>1, <2>4, <3>1 DEF Answering
    <3> QED
      BY <2>4, <3>1, <3>2, <3>3 DEF Unit!Edge, Unit!Work
  <2>5. CASE state = 2
    <3>1. state' = 0
      BY <2>5, EdgeFromDone
    <3>2. out' = Zero /\ EdgesLeft = 0 /\ EdgesLeft' = 0
      BY <1>1, <2>5, <3>1 DEF Answering, EdgesLeftParts
    <3> QED
      BY <2>5, <3>1, <3>2 DEF Unit!Edge, Unit!Release
  <2> QED
    BY <1>1, <2>1, <2>2, <2>3, <2>4, <2>5
<1> QED
  BY <1>2, <1>3, <1>4 DEF Unit!Clock, arg

\* CORE implements the contract its clients are written against, for every
\* width and every history of requests and resets: an accepted operation shows
\* the golden model's result after exactly CoreLatency edges, for one cycle,
\* and the operands of a request in flight cannot change under it.
THEOREM RefinesUnit == Spec => Unit!Safety
<1>1. Init => Unit!Init
  <2> SUFFICES ASSUME Init
               PROVE  Unit!Init
    OBVIOUS
  <2>1. EdgesLeft = 0
    BY DEF Init, EdgesLeft
  <2> QED
    BY <2>1 DEF Init, Unit!Init, Unit!Quiet
<1>2. /\ IInv /\ DataInv /\ IInv' /\ DataInv' /\ [Next]_vars
      => [Unit!Next]_Unit!uvars
  <2> SUFFICES ASSUME IInv, DataInv, IInv', DataInv', [Next]_vars
               PROVE  [Unit!Next]_Unit!uvars
    OBVIOUS
  <2>1. CASE UNCHANGED vars
    BY <2>1 DEF vars, inputs, coreRegs, multRegs, Unit!uvars, EdgesLeft
  <2>2. CASE Posedge
    <3>1. Clocked /\ Next /\ rst_n = TRUE /\ rst_n' = TRUE
      BY <2>2 DEF Posedge, Next, IInv, TypeOK
    <3> QED
      BY <3>1, EdgeRefines DEF Unit!Next
  <2>3. CASE Reset
    <3>1. rst_n' = FALSE /\ ~start' /\ state' = 0
      BY <2>3, ResetEffect DEF Reset, NoRequest
    <3>2. out' = Zero /\ EdgesLeft' = 0
      BY <3>1, EdgesLeftWillBe DEF DataInv, Answering, EdgesLeftParts
    <3> QED
      BY <3>1, <3>2 DEF Unit!Next, Unit!Reset, Unit!Abort
  <2>4. CASE Release
    <3>1. ~rst_n /\ rst_n' = TRUE /\ ~start' /\ state = 0 /\ ~start /\ Clocked
      BY <2>4 DEF Release, NoRequest, IInv, Resting, DataInv, Answering
    <3>2. state' = 0
      BY <3>1, EdgeFromIdle
    <3>3. out' = out /\ EdgesLeft' = EdgesLeft
      BY <3>1, <3>2, EdgesLeftIs, EdgesLeftWillBe
      DEF DataInv, Answering, EdgesLeftParts
    <3> QED
      BY <3>1, <3>2, <3>3 DEF Unit!Next, Unit!Rise
  <2> QED
    BY <2>1, <2>2, <2>3, <2>4 DEF Next
<1> QED
  BY <1>1, <1>2, DataInvariance, PTL DEF Spec, Unit!Safety

=============================================================================
