----------------------------- MODULE ScalarMult -----------------------------
(***************************************************************************)
(* SCALAR_MULT, clock edge by clock edge: right-to-left double-and-add on  *)
(* a point addition unit pa0 and a point doubling unit pd0, both taken at  *)
(* their handshake contract.  The group is a parameter: the module is      *)
(* instantiated with the integers and with what PA and PD really compute.  *)
(***************************************************************************)
EXTENDS Integers

CONSTANTS
    W,                  \* width of n and of cnt; 8 in ecc.h
    Points,             \* values of a 17-bit point signal
    Blank,              \* the all-zero vector
    Infinity(_),        \* (1, P.range(15, 0))
    Plus(_, _),         \* what pa0 returns
    Twice(_),           \* what pd0 returns
    PaEdges, PdEdges,   \* after how many edges
    Requests,           \* the pairs [n, P] the client asks for
    Times(_, _),        \* for the properties: the multiple n P,
    Same(_, _)          \* and equality of points

\* 2^k, as a function: proofs can unfold it.
Power[k \in 0 .. W] == IF k = 0 THEN 1 ELSE 2 * Power[k - 1]

ASSUME ScalarAssumption ==
    /\ W \in Nat /\ W >= 2
    /\ PaEdges \in Nat \ {0} /\ PdEdges \in Nat \ {0}
    /\ Requests \subseteq [n : 0 .. Power[W] - 1, P : Points]

VARIABLES
    rst_n, start, req,           \* inputs; req = n, P (a and p are implied)
    seen,                        \* comb ran since start rose
    state, cnt,                  \* fsm, count
    A, R,                        \* sequ
    P_o, finish,                 \* done
    pa_phase, pa_left, pa_P_o,   \* pa0
    pd_phase, pd_left, pd_P_o    \* pd0

inputs == <<rst_n, start, req, seen>>
smRegs == <<state, cnt, A, R, P_o, finish>>
paVars == <<pa_phase, pa_left, pa_P_o>>
pdVars == <<pd_phase, pd_left, pd_P_o>>
vars == <<inputs, smRegs, paVars, pdVars>>

(***************************************************************************)
(* cnt is an sc_bigint: signed, W bits wide, shifted arithmetically.       *)
(***************************************************************************)
Signed(k) == IF k >= Power[W - 1] THEN k - Power[W] ELSE k
ShiftRight(k) == k \div 2
Bit0(k) == k % 2 = 1
Bit1(k) == Bit0(ShiftRight(k))

-----------------------------------------------------------------------------
(***************************************************************************)
(* comb.  It is not sensitive to start, n and P: in state 0 it reacts to   *)
(* start only if a, p, A, R or state change in the same cycle (seen).      *)
(***************************************************************************)
Starting == state = 0 /\ start /\ seen

pa_start == state = 1 \/ (Starting /\ Bit0(req.n))
pa_op == CASE state = 1             -> <<R, A>>
           [] Starting /\ pa_start  -> <<Infinity(req.P), req.P>>
           [] OTHER                 -> <<Blank, Blank>>

\* Seeded fault: the doubling of the first round starts for odd n too.
Fault_pd_start == state = 2 \/ Starting

pd_start == state = 2 \/ (Starting /\ ~Bit0(req.n))
pd_op == CASE state = 2             -> A
           [] Starting /\ pd_start  -> req.P
           [] OTHER                 -> Blank

PaOf(op) == Plus(op[1], op[2])
PaEdgesOf(op) == PaEdges
PdEdgesOf(op) == PdEdges

pa0 == INSTANCE UnitSpec WITH
          Result <- PaOf, Latency <- PaEdgesOf, NoResult <- Blank,
          phase <- pa_phase, left <- pa_left, res <- pa_P_o,
          start <- pa_start, arg <- pa_op

pd0 == INSTANCE UnitSpec WITH
          Result <- Twice, Latency <- PdEdgesOf, NoResult <- Blank,
          phase <- pd_phase, left <- pd_left, res <- pd_P_o,
          start <- pd_start, arg <- pd_op

pa_finish == pa_phase = "done"
pd_finish == pd_phase = "done"

-----------------------------------------------------------------------------
(***************************************************************************)
(* Clocked methods.                                                        *)
(***************************************************************************)
\* Seeded fault: the loop ends at 3 as well.
Fault_LastDoubling == state = 2 /\ cnt \in {1, 2, 3} /\ pd_finish

\* The test that ends the loop, evaluated when a doubling finishes.
LastDoubling == state = 2 /\ cnt \in {1, 2} /\ pd_finish

\* Seeded faults: the state after the last doubling; the wrong bit of cnt, which
\* is shifted on the same edge.
Fault_fsm(last, bit) ==
    state' = CASE ~rst_n' -> 0
               [] rst_n' /\ state = 0 ->
                     IF ~start THEN 0 ELSE IF Bit0(req.n) THEN 1 ELSE 2
               [] rst_n' /\ state = 1 -> IF pa_finish THEN 2 ELSE 1
               [] rst_n' /\ state = 2 ->
                     IF LastDoubling THEN last
                     ELSE IF pd_finish /\ bit THEN 1 ELSE 2
               [] rst_n' /\ state = 3 -> 0
Fault_last_state == Fault_fsm(4, Bit1(cnt))
Fault_wrong_bit == Fault_fsm(3, Bit0(cnt))

fsm ==
    state' = CASE ~rst_n' -> 0
               [] rst_n' /\ state = 0 ->
                     IF ~start THEN 0 ELSE IF Bit0(req.n) THEN 1 ELSE 2
               [] rst_n' /\ state = 1 -> IF pa_finish THEN 2 ELSE 1
               [] rst_n' /\ state = 2 ->
                     IF LastDoubling THEN 3
                     ELSE IF pd_finish /\ Bit1(cnt) THEN 1 ELSE 2
               [] rst_n' /\ state = 3 -> 0

count ==
    cnt' = CASE ~rst_n' -> 0
             [] rst_n' /\ state = 0 -> IF start THEN Signed(req.n) ELSE 0
             [] rst_n' /\ state = 1 -> cnt
             [] rst_n' /\ state = 2 ->
                   IF LastDoubling THEN 0
                   ELSE IF pd_finish THEN ShiftRight(cnt) ELSE cnt
             [] rst_n' /\ state = 3 -> 0

done == /\ finish' = (rst_n' /\ LastDoubling)
        /\ P_o' = IF rst_n' /\ LastDoubling THEN R ELSE Blank

sequ == CASE rst_n' /\ state = 0 -> A' = req.P /\ R' = Infinity(req.P)
          [] rst_n' /\ state = 1 ->
                A' = A /\ R' = IF pa_finish THEN pa_P_o ELSE R
          [] rst_n' /\ state = 2 ->
                A' = (IF pd_finish THEN pd_P_o ELSE A) /\ R' = R
          [] OTHER -> A' = Blank /\ R' = Blank

Clocked == fsm /\ count /\ done /\ sequ

-----------------------------------------------------------------------------
(***************************************************************************)
(* The client: ECC raises start for one cycle, the test bench keeps it up  *)
(* for as long as the operation takes and longer.  n, P, a and p stay from *)
(* the cycle of the request to the finish cycle.                           *)
(***************************************************************************)
InFlight == state \in {1, 2} \/ (state = 0 /\ start)

ClientHolds == InFlight /\ start' \in BOOLEAN /\ UNCHANGED <<req, seen>>

\* Entering state 0 runs comb; in state 0 it depends on what else changes.
ClientMoves == /\ ~InFlight
               /\ start' \in BOOLEAN
               /\ IF start' THEN req' \in Requests ELSE req' = req
               /\ seen' \in IF start' /\ state = 0 THEN BOOLEAN ELSE {TRUE}

NoRequest == start' = FALSE /\ req' = req /\ seen' = TRUE

Init == /\ rst_n = FALSE /\ start = FALSE /\ req \in Requests /\ seen = TRUE
        /\ state = 0 /\ cnt = 0 /\ A = Blank /\ R = Blank
        /\ P_o = Blank /\ finish = FALSE
        /\ pa0!Quiet /\ pd0!Quiet

Posedge == /\ rst_n /\ UNCHANGED rst_n
           /\ Clocked /\ pa0!Edge /\ pd0!Edge
           /\ (ClientHolds \/ ClientMoves)

\* The test bench resets the unit between two runs, when start has made it
\* begin again; rst_n may fall at any time and stays low over clock edges.
Reset == rst_n' = FALSE /\ Clocked /\ pa0!Abort /\ pd0!Abort /\ NoRequest

Release == /\ ~rst_n /\ rst_n' = TRUE
           /\ Clocked /\ pa0!Edge /\ pd0!Edge /\ NoRequest

Next == Posedge \/ Reset \/ Release

\* The clock never stops: WF_vars(Posedge), spelled out with the state
\* predicate rst_n, which is when Posedge is enabled.
Ticking == []<>~rst_n \/ []<><<Posedge>>_vars

Spec == Init /\ [][Next]_vars /\ Ticking

-----------------------------------------------------------------------------
(***************************************************************************)
(* Properties.                                                             *)
(***************************************************************************)
\* The proofs suppose that what pa0 and pd0 return are points,
Closed == /\ Blank \in Points
          /\ \A P \in Points : Infinity(P) \in Points /\ Twice(P) \in Points
          /\ \A P, Q \in Points : Plus(P, Q) \in Points

\* The registers keep their width and the state machine its range.
TypeOK ==
    /\ rst_n \in BOOLEAN /\ start \in BOOLEAN /\ seen \in BOOLEAN
    /\ req \in Requests
    /\ state \in 0 .. 3 /\ cnt \in -Power[W - 1] .. Power[W - 1] - 1
    /\ A \in Points /\ R \in Points /\ P_o \in Points /\ finish \in BOOLEAN
    /\ pa_phase \in {"idle", "busy", "done"} /\ pa_P_o \in Points
    /\ pd_phase \in {"idle", "busy", "done"} /\ pd_P_o \in Points
    /\ pa_left \in 0 .. PaEdges /\ pd_left \in 0 .. PdEdges

\* The scalars that fit the signed counter.
InRange(n) == 0 < n /\ n < Power[W - 1]

\* and that on the multiples which double-and-add forms of a request's point,
\* for a scalar in range, they add and double.  (No more than that: PA does not
\* add a point to its negative.)
GroupLaws ==
    /\ \A P \in Points : Same(P, P)
    /\ \A r \in Requests : InRange(r.n) =>
          /\ Times(0, r.P) = Infinity(r.P) /\ Times(1, r.P) = r.P
          /\ \A k \in 0 .. W - 1, i \in 0 .. r.n :
                i < Power[k] /\ i + Power[k] <= r.n =>
                   Plus(Times(i, r.P), Times(Power[k], r.P))
                      = Times(i + Power[k], r.P)
          /\ \A k \in 0 .. W - 2 : Power[k + 1] <= r.n =>
                Twice(Times(Power[k], r.P)) = Times(Power[k + 1], r.P)

\* Double-and-add: after k rounds cnt holds the bits of n still to do, A is
\* 2^k P and R is the multiple of P by the low bits already done.
LoopInvariant ==
    state \in {1, 2} /\ InRange(req.n) =>
        \E k \in 0 .. W - 1 :
            LET done_bits == IF state = 1 THEN k ELSE k + 1 IN
            /\ cnt = req.n \div Power[k]
            /\ state = 1 => Bit0(cnt)
            /\ Same(A, Times(Power[k], req.P))
            /\ Same(R, Times(req.n % Power[done_bits], req.P))

\* pa0 and pd0 never work at the same time, and each keeps its operands from
\* the cycle of a request to the finish cycle, although A and R are rewritten
\* around it and comb may or may not see start in state 0.
UnitsUsedProperly ==
    [][rst_n' => /\ pa0!InFlight => pa_op' = pa_op /\ ~pd0!InFlight
                 /\ pd0!InFlight => pd_op' = pd_op]_vars

\* The top bit of n, and the scalars whose top two bits are 1 0.
TopBit(n) == CHOOSE t \in {Power[i] : i \in 0 .. W - 1} : t <= n /\ n < 2 * t
StartsWith10(n) == n > 1 /\ 2 * n < 3 * TopBit(n)

\* What the unit returns: n P, unless n starts with 1 0, when the loop ends
\* one round early and the top bit is lost.
SmResult(r) ==
    Times(IF StartsWith10(r.n) THEN r.n - TopBit(r.n) ELSE r.n, r.P)

Unit == INSTANCE Handshake WITH
          Result <- SmResult, NoResult <- Blank,
          phase <- CASE state = 0 -> "idle" [] state \in {1, 2} -> "busy"
                     [] state = 3 -> "done",
          res <- P_o, arg <- req

\* SCALAR_MULT keeps the handshake contract ECC is written against, for the
\* scalars in range: every accepted request is answered, once and in a single
\* cycle, by SmResult of its operands.
ImplementsHandshake == Unit!Spec

\* scalar_multiplication returns n P for every n (ecc.cpp: its key exchange
\* uses ka = 22).  The unit does not.
ReturnsMultiple == finish => Same(P_o, Times(req.n, req.P))

Accepted == state = 0 /\ start /\ rst_n

\* Every operation finishes, for every scalar of W bits ("bitnum-bit" keys).
AnswersAll == Accepted ~> finish \/ ~rst_n
=============================================================================
