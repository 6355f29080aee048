------------------------------- MODULE EccPort -------------------------------
(***************************************************************************)
(* ECC, the peripheral the 8051 sees: bytes arrive on port P1 once P0 is   *)
(* 1, the result leaves on P2 while P3 is 1.  There is no handshake: the   *)
(* firmware writes one byte per clock and ECC reads one byte per clock.    *)
(* Composed here with the firmware, IoPort; SCALAR_MULT (sm0) is taken at  *)
(* its contract.                                                           *)
(***************************************************************************)
EXTENDS IoPort

CONSTANTS Range,        \* bytes are 0 .. Range - 1; 256 in ecc.h
          Frames,       \* the byte sequences the firmware sends
          Compute(_)    \* what sm0 returns for [n, P, a, p]

Byte == 0 .. Range - 1

\* A 17-bit point signal: bit 16, bits 15 .. 8, bits 7 .. 0.
Vector == [inf : {0, 1}, x : Byte, y : Byte]
Blank == [inf |-> 0, x |-> 0, y |-> 0]

Operands == [n : Byte, P : Vector, a : Byte, p : Byte]

ASSUME FramesAssumption ==
    /\ Range \in Nat /\ Range >= 2
    /\ Frames \subseteq [1 .. 6 -> Byte]
    /\ \A op \in Operands : Compute(op) \in Vector

VARIABLES
    rst_n,
    state, read_cnt, write_cnt,           \* fsm, counter
    sm_start, sm_n, sm_P, sm_a, sm_p,     \* read_data
    sm_phase, sm_P_o,                     \* sm0
    P_o_r, result, valid,                 \* sm_out, write_data
    again                                 \* history: a result was written

smInputs == <<sm_start, sm_n, sm_P, sm_a, sm_p>>
eccRegs == <<state, read_cnt, write_cnt, smInputs, P_o_r, result, valid>>
vars == <<rst_n, cpuVars, eccRegs, sm_phase, sm_P_o, again>>

sm_op == [n |-> sm_n, P |-> sm_P, a |-> sm_a, p |-> sm_p]

sm0 == INSTANCE Handshake WITH
          Result <- Compute, NoResult <- Blank,
          phase <- sm_phase, res <- sm_P_o, start <- sm_start, arg <- sm_op

sm_finish == sm_phase = "done"

\* output
P2 == result
P3 == valid

-----------------------------------------------------------------------------
(***************************************************************************)
(* The clocked methods of ECC, out of reset.                               *)
(***************************************************************************)
\* Seeded fault: ECC does not wait for sm0.
Fault_fsm ==
    state' = CASE state = 0 -> IF P0 = 1 THEN 1 ELSE 0
               [] state = 1 -> IF read_cnt = 5 THEN 2 ELSE 1
               [] state = 2 -> 3
               [] state = 3 -> IF write_cnt = 2 THEN 0 ELSE 3

fsm ==
    state' = CASE state = 0 -> IF P0 = 1 THEN 1 ELSE 0
               [] state = 1 -> IF read_cnt = 5 THEN 2 ELSE 1
               [] state = 2 -> IF sm_finish THEN 3 ELSE 2
               [] state = 3 -> IF write_cnt = 2 THEN 0 ELSE 3

\* Seeded fault: read_cnt is not reset after the last byte.
Fault_counter ==
    /\ read_cnt' = IF state = 1 THEN read_cnt + 1 ELSE 0
    /\ write_cnt' = IF state = 3 /\ write_cnt # 2 THEN write_cnt + 1 ELSE 0

counter ==
    /\ read_cnt' = IF state = 1 /\ read_cnt # 5 THEN read_cnt + 1 ELSE 0
    /\ write_cnt' = IF state = 3 /\ write_cnt # 2 THEN write_cnt + 1 ELSE 0

\* Seeded fault: n is written whenever read_cnt is 0.
Fault_read_data ==
    LET reads(k) == state = 1 /\ read_cnt = k IN
    /\ sm_start' = reads(5)
    /\ sm_n' = IF read_cnt = 0 THEN P1 ELSE sm_n
    /\ sm_P' = [inf |-> IF reads(1) THEN P1 % 2 ELSE sm_P.inf,
                x   |-> IF reads(2) THEN P1 ELSE sm_P.x,
                y   |-> IF reads(3) THEN P1 ELSE sm_P.y]
    /\ sm_a' = IF reads(4) THEN P1 ELSE sm_a
    /\ sm_p' = IF reads(5) THEN P1 ELSE sm_p

\* The byte read in round k of state 1 lands in the k-th field of a frame.
read_data ==
    LET reads(k) == state = 1 /\ read_cnt = k IN
    /\ sm_start' = reads(5)
    /\ sm_n' = IF reads(0) THEN P1 ELSE sm_n
    /\ sm_P' = [inf |-> IF reads(1) THEN P1 % 2 ELSE sm_P.inf,
                x   |-> IF reads(2) THEN P1 ELSE sm_P.x,
                y   |-> IF reads(3) THEN P1 ELSE sm_P.y]
    /\ sm_a' = IF reads(4) THEN P1 ELSE sm_a
    /\ sm_p' = IF reads(5) THEN P1 ELSE sm_p

sm_out == P_o_r' = IF sm_finish THEN sm_P_o ELSE P_o_r

\* Seeded faults: the byte of the last result stays; valid follows sm_finish.
Fault_write_data(idle, isValid) ==
    /\ valid' = IF isValid THEN 1 ELSE 0
    /\ result' = IF state # 3 THEN idle
                 ELSE CASE write_cnt = 0 -> 2 * (result \div 2) + P_o_r.inf
                        [] write_cnt = 1 -> P_o_r.x
                        [] write_cnt = 2 -> P_o_r.y
Fault_byte_stays == Fault_write_data(result, state = 3)
Fault_never_valid == Fault_write_data(0, state = 3 /\ sm_finish)

\* The first byte replaces bit 0 of the last one.
write_data ==
    /\ valid' = IF state = 3 THEN 1 ELSE 0
    /\ result' = IF state # 3 THEN 0
                 ELSE CASE write_cnt = 0 -> 2 * (result \div 2) + P_o_r.inf
                        [] write_cnt = 1 -> P_o_r.x
                        [] write_cnt = 2 -> P_o_r.y

Ecc == fsm /\ counter /\ read_data /\ sm_out /\ write_data

-----------------------------------------------------------------------------
Init == /\ rst_n = FALSE
        /\ frame \in Frames /\ sent = 0 /\ P0 = 0 /\ P1 = 0
        /\ state = 0 /\ read_cnt = 0 /\ write_cnt = 0
        /\ sm_start = FALSE /\ sm_n = 0 /\ sm_P = Blank /\ sm_a = 0 /\ sm_p = 0
        /\ sm0!Quiet
        /\ P_o_r = Blank /\ result = 0 /\ valid = 0
        /\ again = FALSE

\* top raises rst_n on its first clock and never lowers it.
Release == ~rst_n /\ rst_n' = TRUE /\ Boot
           /\ UNCHANGED <<eccRegs, sm_phase, sm_P_o, again>>

Posedge == /\ rst_n /\ UNCHANGED rst_n
           /\ Firmware /\ Ecc /\ sm0!Edge
           /\ again' = (again \/ state = 3)

Next == Release \/ Posedge

\* The clock never stops, the start-up code ends, and SCALAR_MULT answers, as
\* ImplementsHandshake of ScalarMult.tla says of the scalars 1 .. 127.
Fairness == /\ WF_vars(Next)
            /\ WF_vars(Posedge /\ Announce)
            /\ WF_vars(Posedge /\ sm0!Complete)

Spec == Init /\ [][Next]_vars /\ Fairness

-----------------------------------------------------------------------------
(***************************************************************************)
(* Properties.                                                             *)
(***************************************************************************)
\* The registers keep their width and the state machine its range.
TypeOK ==
    /\ rst_n \in BOOLEAN /\ again \in BOOLEAN
    /\ frame \in Frames /\ sent \in 0 .. 7 /\ P0 \in {0, 1} /\ P1 \in Byte
    /\ state \in 0 .. 3 /\ read_cnt \in 0 .. 5 /\ write_cnt \in 0 .. 2
    /\ sm_start \in BOOLEAN
    /\ sm_n \in Byte /\ sm_P \in Vector /\ sm_a \in Byte /\ sm_p \in Byte
    /\ sm_phase \in {"idle", "busy", "done"} /\ sm_P_o \in Vector
    /\ P_o_r \in Vector /\ result \in Byte /\ valid \in {0, 1}

\* The operands of a sequence of six bytes.
Decode(f) == [n |-> f[1], P |-> [inf |-> f[2] % 2, x |-> f[3], y |-> f[4]],
              a |-> f[5], p |-> f[6]]

\* Without any handshake the bytes fall into step: the first computation works
\* on the six bytes the firmware sent.  P0 is still 1 when the result is out,
\* so ECC starts again on what P1 holds then: six times the last byte.
FrameReceived ==
    sm_start => sm_op = Decode(IF again THEN [k \in 1 .. 6 |-> frame[6]]
                                        ELSE frame)

\* ECC waits for sm0 exactly while sm0 has something to answer: a start is
\* never raised while sm0 cannot see it, and no answer comes unawaited.
Rendezvous == /\ state = 2 <=> sm_start \/ sm_phase # "idle"
              /\ sm_start => sm_phase = "idle"

\* What SCALAR_MULT relies on: its operands stay from the request to the
\* finish cycle.
OperandsStable == [][rst_n /\ sm0!InFlight => sm_op' = sm_op]_vars

\* The three parts of a point in the order they leave.
Part(P, k) == CASE k = 1 -> P.inf [] k = 2 -> P.x [] k = 3 -> P.y

\* A byte that is valid is the part of the result that is due, of the operands
\* sm0 was given, and no bit of an earlier byte is left in it.
ValidBytes ==
    valid = 1 =>
        result = Part(Compute(sm_op), IF state = 3 THEN write_cnt ELSE 3)

\* Every frame that is announced, and every computation ECC begins, is answered.
FrameAnswered == sent = 1 \/ sm_start ~> valid = 1
==============================================================================
