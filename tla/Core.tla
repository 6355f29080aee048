-------------------------------- MODULE Core --------------------------------
(***************************************************************************)
(* The field arithmetic unit of the accelerator, one step per clock edge:  *)
(* CORE (adds, multiplies, inverts), its multiplier MULT and the row of    *)
(* processing elements PE.  Registers are variables.  Combinational        *)
(* signals settle between two edges and are operators named like the       *)
(* signal.  The environment is the client that owns the unit (PN, PD, PA). *)
(***************************************************************************)
EXTENDS FieldUnit

CONSTANTS Operands,     \* the field elements the client puts on a and b
          Polys         \* the reduction polynomials it puts on p

ASSUME InputAssumption == Operands \subseteq Elem /\ Polys \subseteq Elem

VARIABLES
    rst_n, start, mode, a, b, p,                      \* CORE's inputs
    state, cnt_a, cnt_mult, add_input_2nd,            \* CORE: fsm, count
    mult_clean, c, sqr, out, finish, newstart,        \* CORE: done, done_start
    m_state, counter,                                 \* MULT: fsm, count
    b_lat, p_lat,                                     \* MULT: b0..b7, p0..p7
    w4                                                \* PE: the accumulator

inputs == <<rst_n, start, mode, a, b, p>>
coreRegs == <<state, cnt_a, cnt_mult, add_input_2nd,
              mult_clean, c, sqr, out, finish, newstart>>
multRegs == <<m_state, counter, b_lat, p_lat, w4>>
vars == <<inputs, coreRegs, multRegs>>

-----------------------------------------------------------------------------
(***************************************************************************)
(* Combinational signals of CORE (proc) and MULT (done, calc).             *)
(***************************************************************************)
mult_finish == m_state = 2

\* Seeded fault: the first multiplication is not counted as a squaring.
Fault_Squaring == cnt_mult % 2 = 1

\* The result register feeds the array for the first and odd multiplications.
Squaring == cnt_mult = 0 \/ cnt_mult % 2 = 1

mult_start == \/ state = 0 /\ start
              \/ state = 1 /\ mode = "inv" /\ newstart

mult_isMul == state = 1 /\ mode # "add"

\* The operand whose bits are scanned from the top (a multiplication).
Scanned == IF mode = "mul" \/ cnt_mult = 0 THEN a
           ELSE IF Squaring THEN sqr ELSE c

mult_a == state = 1 /\ (mode = "add" \/ cnt_a \in Scanned)

mult_b == IF state # 1 THEN Zero
          ELSE CASE mode = "add" -> IF add_input_2nd THEN a ELSE b
                 [] mode = "mul" -> b
                 [] OTHER        -> IF cnt_mult = 0 THEN a ELSE sqr

mult_p == When(mult_isMul, p)

\* The bit lines into the array follow their inputs in state 1 only.
b_line == IF m_state = 1 THEN mult_b ELSE b_lat
p_line == IF m_state = 1 THEN mult_p ELSE p_lat

mult_out == IF m_state = 0 THEN Zero ELSE w4

toMod == mult_isMul /\ M - 1 \in w4

\* PE.calc of all M elements: w3 = (p & toMod) ^ (a & b) ^ (isMul ? m_pre : w4).
w3 == Add(Add(When(toMod, p_line), When(mult_a, b_line)),
          IF mult_isMul THEN Shl(w4) ELSE w4)

-----------------------------------------------------------------------------
(***************************************************************************)
(* Clocked methods.  They run on every clock edge and on every change of   *)
(* rst_n, and read the value rst_n has then.                               *)
(***************************************************************************)
\* PE.update
PE_update == w4' = IF ~rst_n' \/ mult_clean THEN Zero ELSE w3

\* MULT's last cycle in state 1: the counter reached 7, or 1 for an addition.
CounterEnd == counter = (IF mult_isMul THEN M - 1 ELSE 1)

MULT_fsm ==
    m_state' = CASE ~rst_n'               -> 0
                 [] rst_n' /\ m_state = 0 -> IF mult_start THEN 1 ELSE 0
                 [] rst_n' /\ m_state = 1 -> IF CounterEnd THEN 2 ELSE 1
                 [] rst_n' /\ m_state = 2 -> 0

MULT_count ==
    counter' = IF rst_n' /\ m_state = 1 /\ ~CounterEnd THEN counter + 1 ELSE 0

\* The bit lines keep the last value they had in state 1.
MULT_latch == b_lat' = b_line /\ p_lat' = p_line

\* The multiplication that ends now is the last one of the operation.
LastDone == mult_finish /\ (mode = "inv" => cnt_mult = LastMult)

\* Seeded fault: the finish state waits for the client to lower start.
Fault_CORE_fsm ==
    state' = CASE ~rst_n'             -> 0
               [] rst_n' /\ state = 0 -> IF start THEN 1 ELSE 0
               [] rst_n' /\ state = 1 -> IF LastDone THEN 2 ELSE 1
               [] rst_n' /\ state = 2 -> IF start THEN 2 ELSE 0

CORE_fsm ==
    state' = CASE ~rst_n'             -> 0
               [] rst_n' /\ state = 0 -> IF start THEN 1 ELSE 0
               [] rst_n' /\ state = 1 -> IF LastDone THEN 2 ELSE 1
               [] rst_n' /\ state = 2 -> 0

CountMult ==
    cnt_mult' = CASE mode # "inv"              -> cnt_mult
                  [] mode = "inv" /\ LastDone  -> 0
                  [] mode = "inv" /\ ~LastDone ->
                        IF newstart THEN cnt_mult + 1 ELSE cnt_mult

CountFrom(reload) ==
    IF rst_n' /\ state = 1
    THEN /\ add_input_2nd' = ~add_input_2nd
         /\ cnt_a' = IF cnt_a > 0 THEN cnt_a - 1 ELSE reload
         /\ CountMult
    ELSE add_input_2nd' = FALSE /\ cnt_a' = M - 1 /\ cnt_mult' = 0

\* Seeded faults: cnt_a is reloaded with one too many; it is not reloaded when
\* the next multiplication of an inversion starts.
Fault_reload_M == CountFrom(IF mode # "inv" \/ newstart THEN M ELSE 0)
Fault_no_reload == CountFrom(IF mode # "inv" THEN M - 1 ELSE 0)

CORE_count == CountFrom(IF mode # "inv" \/ newstart THEN M - 1 ELSE 0)

\* Seeded fault: nothing clears the array between two multiplications.
Fault_CORE_done ==
    IF rst_n' /\ state = 1
    THEN LET keep == mode = "inv" /\ mult_finish /\ ~LastDone IN
         /\ mult_clean' = FALSE
         /\ out' = IF LastDone THEN mult_out ELSE out
         /\ finish' = (LastDone \/ finish)
         /\ sqr' = IF keep /\ Squaring THEN mult_out ELSE sqr
         /\ c' = IF keep /\ cnt_mult % 2 = 0 THEN mult_out ELSE c
    ELSE /\ mult_clean' = ~rst_n'
         /\ c' = Zero /\ sqr' = Zero /\ out' = Zero /\ finish' = FALSE

CORE_done ==
    IF rst_n' /\ state = 1
    THEN LET keep == mode = "inv" /\ mult_finish /\ ~LastDone IN
         /\ mult_clean' = (mult_finish \/ (mode # "inv" /\ mult_clean))
         /\ out' = IF LastDone THEN mult_out ELSE out
         /\ finish' = (LastDone \/ finish)
         /\ sqr' = IF keep /\ Squaring THEN mult_out ELSE sqr
         /\ c' = IF keep /\ cnt_mult % 2 = 0 THEN mult_out ELSE c
    ELSE /\ mult_clean' = ~rst_n'
         /\ c' = Zero /\ sqr' = Zero /\ out' = Zero /\ finish' = FALSE

\* done_start has no reset branch.
CORE_done_start == newstart' = (mult_finish /\ cnt_mult # LastMult)

Clocked == /\ CORE_fsm /\ CORE_count /\ CORE_done /\ CORE_done_start
           /\ MULT_fsm /\ MULT_count /\ MULT_latch /\ PE_update

-----------------------------------------------------------------------------
(***************************************************************************)
(* The client: core_start, core_mode, core_a, core_b, core_p as PN, PD and *)
(* PA drive them.  An operation's inputs stay from the cycle that requests *)
(* it to its finish cycle; on the edge that ends that cycle the client's   *)
(* fsm moves on and they may all change, with start still high.            *)
(***************************************************************************)
InFlight == state = 1 \/ (state = 0 /\ start)

\* What a state of PD or PA asks for; b of an inversion and p of an addition
\* are 0.
Request == /\ mode' \in Modes
           /\ a' \in Operands
           /\ b' \in IF mode' = "inv" THEN {Zero} ELSE Operands
           /\ p' \in IF mode' = "add" THEN {Zero} ELSE Polys

NoRequest == start' = FALSE /\ UNCHANGED <<mode, a, b, p>>

\* start may fall (PN's does) or stay high (PD's and PA's do).
ClientHolds == InFlight /\ start' \in BOOLEAN /\ UNCHANGED <<mode, a, b, p>>

ClientMoves == ~InFlight /\ (NoRequest \/ (start' = TRUE /\ Request))

Init ==
    /\ rst_n = FALSE /\ start = FALSE
    /\ mode = "add" /\ a = Zero /\ b = Zero /\ p = Zero
    /\ state = 0 /\ cnt_a = M - 1 /\ cnt_mult = 0 /\ add_input_2nd = FALSE
    /\ mult_clean = TRUE /\ c = Zero /\ sqr = Zero /\ out = Zero
    /\ finish = FALSE /\ newstart = FALSE
    /\ m_state = 0 /\ counter = 0 /\ b_lat = Zero /\ p_lat = Zero /\ w4 = Zero

\* A clock edge out of reset.
Posedge ==
    rst_n /\ UNCHANGED rst_n /\ Clocked /\ (ClientHolds \/ ClientMoves)

\* rst_n falls in the middle of anything, or stays low over a clock edge.
Reset == rst_n' = FALSE /\ Clocked /\ NoRequest

\* rst_n rises; the test benches and top wait a cycle before they ask.
Release ==
    ~rst_n /\ rst_n' = TRUE /\ Clocked /\ NoRequest

Next == Posedge \/ Reset \/ Release

\* The clock never stops; nothing obliges anyone to reset the unit.
Spec == Init /\ [][Next]_vars /\ WF_vars(Posedge)

-----------------------------------------------------------------------------
(***************************************************************************)
(* Properties.                                                             *)
(***************************************************************************)
\* Every register and input keeps its width (the sc_uint/sc_biguint types).
TypeOK ==
    /\ rst_n \in BOOLEAN /\ start \in BOOLEAN /\ mode \in Modes
    /\ a \in Elem /\ b \in Elem /\ p \in Elem
    /\ state \in 0 .. 2 /\ cnt_a \in Exponents /\ cnt_mult \in 0 .. LastMult
    /\ add_input_2nd \in BOOLEAN /\ mult_clean \in BOOLEAN
    /\ finish \in BOOLEAN /\ newstart \in BOOLEAN
    /\ c \in Elem /\ sqr \in Elem /\ out \in Elem
    /\ m_state \in 0 .. 2 /\ counter \in Exponents
    /\ b_lat \in Elem /\ p_lat \in Elem /\ w4 \in Elem

\* CORE.count and MULT.count never communicate, yet the bit CORE feeds to the
\* array is the bit MULT's round expects: in every round of a multiplication
\* cnt_a is the complement of MULT's counter.
Lockstep ==
    m_state = 1 => /\ state = 1
                   /\ mode # "add" => cnt_a + counter = M - 1
                   /\ mode = "add" => (add_input_2nd <=> counter = 1)

\* No residue: whatever ran before (a finished or aborted operation, the
\* previous multiplication of an inversion, garbage rounds after mult_finish),
\* the accumulator is zero in the first round of every multiplication.
CleanStart == m_state = 1 /\ counter = 0 => w4 = Zero

\* The unit computes the field: on finish the output is the sum, the product
\* modulo x^M + p, or the inverse of the operands then on its inputs.
FieldCorrect ==
    finish => CASE mode = "add" -> out = Add(a, b)
                [] mode = "mul" -> out = FieldProduct(a, b, p)
                [] mode = "inv" -> IsInverse(a, out, p)

-----------------------------------------------------------------------------
\* Edges until finish, read off the counters.
EdgesLeft ==
    LET thisMult == CASE m_state = 0 -> MultPeriod
                      [] m_state = 1 -> (IF mode = "add" THEN 1 ELSE M - 1)
                                        - counter + 2
                      [] m_state = 2 -> 1
        laterMults == LastMult - cnt_mult - (IF m_state = 0 THEN 1 ELSE 0)
    IN  IF state # 1 THEN 0
        ELSE thisMult + (IF mode = "inv" THEN laterMults * MultPeriod ELSE 0)

Unit == INSTANCE UnitSpec WITH
          Result   <- CoreResult,
          Latency  <- CoreLatency,
          NoResult <- Zero,
          phase    <- CASE state = 0 -> "idle" [] state = 1 -> "busy"
                        [] state = 2 -> "done",
          left     <- EdgesLeft,
          res      <- out,
          arg      <- [mode |-> mode, a |-> a, b |-> b, p |-> p]

\* CORE keeps the handshake contract its clients are written against: what it
\* returns is what the golden model returns, after exactly CoreLatency edges
\* for every operand value, and it always answers.
ImplementsUnit == Unit!Spec
=============================================================================
