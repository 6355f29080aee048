---------------------------- MODULE PointDouble ----------------------------
(***************************************************************************)
(* PD, the point doubling unit, clock edge by clock edge: its state        *)
(* machine, its intermediate registers, its field unit core0 and its       *)
(* negation unit pn0.  Both sub-units are taken at their contract.         *)
(***************************************************************************)
EXTENDS PointUnit

CONSTANTS Requests,     \* the operands [P, a, p] clients ask to double
          MaxResets     \* bound: how many times rst_n falls

ASSUME RequestsAssumption ==
    /\ Requests \subseteq [P : Point, a : Elem, p : Elem]
    /\ MaxResets \in Nat

VARIABLES rst_n, start, req,                  \* inputs; req = P, a, p
          state, reg,                         \* fsm, and the registers of sequ
          core_phase, core_left, core_out,    \* core0
          pn_phase, pn_left, pn_P_o,          \* pn0
          resets                              \* falls of rst_n so far

pdRegs == <<state, reg>>
coreVars == <<core_phase, core_left, core_out>>
pnVars == <<pn_phase, pn_left, pn_P_o>>
vars == <<rst_n, start, req, pdRegs, coreVars, pnVars, resets>>

(***************************************************************************)
(* States 1 .. 10 each run one operation of core0 and keep its output in   *)
(* one register.                                                           *)
(***************************************************************************)
Steps == DOMAIN PdProgram
LastState == Len(PdProgram) + 1
Registers == {PdProgram[k].dst : k \in Steps}

\* The value on an operand line.
Line(name) == CASE name = "Px" -> req.P.x
                [] name = "Py" -> req.P.y
                [] name = "a"  -> req.a
                [] name = "0"  -> Zero
                [] OTHER       -> reg[name]

\* core_start, and core_mode with core_a, core_b and core_p.
core_start == state \in Steps

\* Seeded fault: the two operand lines are exchanged.
Fault_core_op ==
    IF ~core_start THEN Idle
    ELSE LET s == PdProgram[state] IN
         [mode |-> s.mode, a |-> Line(s.v), b |-> Line(s.u),
          p |-> IF s.mode = "add" THEN Zero ELSE req.p]

core_op ==
    IF ~core_start THEN Idle
    ELSE LET s == PdProgram[state] IN
         [mode |-> s.mode, a |-> Line(s.u), b |-> Line(s.v),
          p |-> IF s.mode = "add" THEN Zero ELSE req.p]

core0 == INSTANCE UnitSpec WITH
            Result <- CoreResult, Latency <- CoreLatency, NoResult <- Zero,
            phase <- core_phase, left <- core_left, res <- core_out,
            start <- core_start, arg <- core_op

core_finish == core_phase = "done"

pn_start == state = 0 /\ start

pn0 == INSTANCE UnitSpec WITH
            Result <- PnResult, Latency <- PnLatency, NoResult <- Origin,
            phase <- pn_phase, left <- pn_left, res <- pn_P_o,
            start <- pn_start, arg <- pn_P

pn_finish == pn_phase = "done"

-----------------------------------------------------------------------------
\* equal, on eq_P = P and eq_Q = P_neg = pn_P_o.
eq == equal(req.P, pn_P_o)

Degenerate == eq \/ req.P.inf

finish == (state = 0 /\ pn_finish /\ Degenerate) \/ state = LastState

P_o == CASE state = 0 /\ finish -> AtInfinity(req.P)
         [] state = LastState   -> Affine(reg["P_ox"], reg["P_oy"])
         [] OTHER               -> Origin

\* Seeded faults: the last state is followed by another; state 0 does not wait
\* for pn0.
Fault_fsm(last, ready) ==
    state' = CASE ~rst_n' -> 0
               [] rst_n' /\ state = 0 ->
                     IF start /\ ready /\ ~Degenerate THEN 1 ELSE 0
               [] rst_n' /\ state \in Steps ->
                     IF core_finish THEN state + 1 ELSE state
               [] rst_n' /\ state = LastState -> last
Fault_no_return == Fault_fsm(LastState + 1, pn_finish)
Fault_no_wait == Fault_fsm(0, TRUE)

fsm ==
    state' = CASE ~rst_n' -> 0
               [] rst_n' /\ state = 0 ->
                     IF start /\ pn_finish /\ ~Degenerate THEN 1 ELSE 0
               [] rst_n' /\ state \in Steps ->
                     IF core_finish THEN state + 1 ELSE state
               [] rst_n' /\ state = LastState -> 0

\* Seeded fault: the output also replaces the first operand.
Fault_sequ ==
    reg' = [r \in Registers |->
              IF state \in Steps /\ r \in {PdProgram[state].dst, PdProgram[state].u}
              THEN core_out ELSE reg[r]]

\* sequ samples core_out on every edge, finished or not, and has no reset.
sequ == reg' = IF state \in Steps
               THEN [reg EXCEPT ![PdProgram[state].dst] = core_out]
               ELSE reg

-----------------------------------------------------------------------------
(***************************************************************************)
(* The handshake as the client sees it, and the client: SCALAR_MULT or the *)
(* doubling path of PA.                                                    *)
(***************************************************************************)
pd_phase == IF finish THEN "done"
            ELSE IF state = 0 /\ pn_phase = "idle" THEN "idle" ELSE "busy"

InFlight == pd_phase = "busy" \/ (pd_phase = "idle" /\ start)

ClientHolds == InFlight /\ UNCHANGED <<start, req>>

NoRequest == start' = FALSE /\ UNCHANGED req

ClientMoves == ~InFlight /\ (NoRequest \/ (start' = TRUE /\ req' \in Requests))

Init == /\ rst_n = FALSE /\ start = FALSE /\ req \in Requests
        /\ state = 0 /\ reg = [r \in Registers |-> Zero]
        /\ core0!Quiet /\ pn0!Quiet
        /\ resets = 0

Posedge == /\ rst_n /\ UNCHANGED <<rst_n, resets>>
           /\ fsm /\ sequ /\ core0!Edge /\ pn0!Edge
           /\ (ClientHolds \/ ClientMoves)

\* rst_n falls (bounded), or stays low over a clock edge.
Reset == /\ rst_n' = FALSE
         /\ resets' = resets + (IF rst_n THEN 1 ELSE 0) /\ resets' <= MaxResets
         /\ fsm /\ sequ /\ core0!Abort /\ pn0!Abort /\ NoRequest

Release == /\ ~rst_n /\ rst_n' = TRUE /\ UNCHANGED resets
           /\ fsm /\ sequ /\ core0!Edge /\ pn0!Edge /\ NoRequest

Next == Posedge \/ Reset \/ Release

\* The clock never stops: WF_vars(Posedge), spelled out with the state
\* predicate rst_n, which is when Posedge is enabled.
Ticking == []<>~rst_n \/ []<><<Posedge>>_vars

Spec == Init /\ [][Next]_vars /\ Ticking

-----------------------------------------------------------------------------
(***************************************************************************)
(* Properties.                                                             *)
(***************************************************************************)
\* The registers keep their width and the state machine its range.
TypeOK ==
    /\ rst_n \in BOOLEAN /\ start \in BOOLEAN /\ req \in Requests
    /\ state \in 0 .. LastState /\ reg \in [Registers -> Elem]
    /\ core_phase \in {"idle", "busy", "done"} /\ core_out \in Elem
    /\ pn_phase \in {"idle", "busy", "done"} /\ pn_P_o \in Point
    /\ core_left \in Nat /\ pn_left \in Nat /\ resets \in 0 .. MaxResets

\* What CORE relies on: although sequ overwrites a register on every edge of
\* its state, no operand line of core0 changes from the cycle of the request
\* to the finish cycle.
OperandsStable == [][rst_n' /\ core0!InFlight => core_op' = core_op]_vars

\* The affine points (0, y), y # 0: their own negative, but not the vector 0.
SelfInverse == ~req.P.inf /\ req.P.x = Zero /\ req.P.y # Zero

\* PD is the golden model's point_doubling, for every operand on which the
\* missing input of pn0 makes no difference.
GoldenDoubling ==
    finish /\ ~SelfInverse => P_o = point_doubling(req.P, req.a, req.p)

EdgesLeft ==
    IF pd_phase # "busy" THEN 0
    ELSE IF state = 0
    THEN pn_left + PdLatency(req) - PnLatency(req.P)
    ELSE CASE core_phase = "idle" -> EdgesFrom(PdProgram, state)
           [] core_phase = "busy" -> core_left + 1 + EdgesFrom(PdProgram, state + 1)
           [] core_phase = "done" -> 1 + EdgesFrom(PdProgram, state + 1)

Unit == INSTANCE UnitSpec WITH
            Result <- PdResult, Latency <- PdLatency, NoResult <- Origin,
            phase <- pd_phase, left <- EdgesLeft, res <- P_o, arg <- req

\* PD keeps the handshake contract: one result, PdResult, in one finish cycle,
\* after exactly PdLatency edges, whatever was computed or aborted before.
ImplementsUnit == Unit!Spec
=============================================================================
