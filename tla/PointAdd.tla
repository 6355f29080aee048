------------------------------ MODULE PointAdd ------------------------------
(***************************************************************************)
(* PA, the point addition unit, clock edge by clock edge: its state        *)
(* machine, its intermediate registers, its field unit core0, its negation *)
(* unit pn0 and its doubling unit pd0, the sub-units at their contracts.   *)
(***************************************************************************)
EXTENDS PointUnit

CONSTANTS Requests,     \* the operands [P, Q, a, p] the client asks to add
          MaxResets     \* bound: how many times rst_n falls

ASSUME RequestsAssumption ==
    /\ Requests \subseteq [P : Point, Q : Point, a : Elem, p : Elem]
    /\ MaxResets \in Nat

VARIABLES rst_n, start, req,                  \* inputs; req = P, Q, a, p
          state, reg,                         \* fsm, and the registers of sequ
          core_phase, core_left, core_out,    \* core0
          pn_phase, pn_left, pn_P_o,          \* pn0
          pd_phase, pd_left, pd_P_o,          \* pd0
          resets                              \* falls of rst_n so far

paRegs == <<state, reg>>
coreVars == <<core_phase, core_left, core_out>>
pnVars == <<pn_phase, pn_left, pn_P_o>>
pdVars == <<pd_phase, pd_left, pd_P_o>>
vars == <<rst_n, start, req, paRegs, coreVars, pnVars, pdVars, resets>>

\* State s in 2 .. 14 runs entry s - 1 of the list on core0.
StepStates == 2 .. Len(PaProgram) + 1
StepOf(s) == PaProgram[s - 1]
LastState == Len(PaProgram) + 2                 \* 15
DoubleState == LastState + 1                  \* 16
Registers == {StepOf(s).dst : s \in StepStates}

\* Seeded fault: the ordinate of Q where that of P belongs.
Fault_Line(name) == CASE name = "Px" -> req.P.x
                      [] name = "Py" -> req.Q.y
                      [] name = "Qx" -> req.Q.x
                      [] name = "Qy" -> req.Q.y
                      [] name = "a"  -> req.a
                      [] name = "0"  -> Zero
                      [] OTHER       -> reg[name]

\* The value on an operand line.
Line(name) == CASE name = "Px" -> req.P.x
                [] name = "Py" -> req.P.y
                [] name = "Qx" -> req.Q.x
                [] name = "Qy" -> req.Q.y
                [] name = "a"  -> req.a
                [] name = "0"  -> Zero
                [] OTHER       -> reg[name]

core_start == state \in StepStates

core_op ==
    IF ~core_start THEN Idle
    ELSE LET s == StepOf(state) IN
         [mode |-> s.mode, a |-> Line(s.u), b |-> Line(s.v),
          p |-> IF s.mode = "add" THEN Zero ELSE req.p]

core0 == INSTANCE UnitSpec WITH
            Result <- CoreResult, Latency <- CoreLatency, NoResult <- Zero,
            phase <- core_phase, left <- core_left, res <- core_out,
            start <- core_start, arg <- core_op

core_finish == core_phase = "done"

\* Seeded fault: pn0 is started in every state.
Fault_pn_start == start

\* pn0 is started with every request, the ones that go to pd0 too.
pn_start == state = 0 /\ start

pn0 == INSTANCE UnitSpec WITH
            Result <- PnResult, Latency <- PnLatency, NoResult <- Origin,
            phase <- pn_phase, left <- pn_left, res <- pn_P_o,
            start <- pn_start, arg <- pn_P

pn_finish == pn_phase = "done"

pd_start == state = DoubleState

pd_op == [P |-> req.P, a |-> req.a, p |-> req.p]

pd0 == INSTANCE UnitSpec WITH
            Result <- PdResult, Latency <- PdLatency, NoResult <- Origin,
            phase <- pd_phase, left <- pd_left, res <- pd_P_o,
            start <- pd_start, arg <- pd_op

pd_finish == pd_phase = "done"

-----------------------------------------------------------------------------
\* equal, on eq_P = P and eq_Q = Q in state 0, Q_neg = pn_P_o in state 1.
eq == equal(req.P, IF state = 0 THEN req.Q ELSE pn_P_o)

\* The three results state 1 returns without the chord construction.
Shortcut == eq \/ req.P.inf \/ req.Q.inf

finish == \/ state = 1 /\ pn_finish /\ Shortcut
          \/ state = LastState
          \/ state = DoubleState /\ pd_finish

P_o == IF ~finish THEN Origin
       ELSE CASE state = LastState   -> Affine(reg["P_ox"], reg["P_oy"])
              [] state = DoubleState -> pd_P_o
              [] state = 1           -> IF eq THEN AtInfinity(req.P)
                                        ELSE IF req.P.inf THEN req.Q
                                        ELSE req.P

\* Seeded faults: the doubling state runs on; state 1 does not wait for pn0.
Fault_fsm(doubled, ready) ==
    state' = CASE ~rst_n' -> 0
               [] rst_n' /\ state = 0 ->
                     IF ~start THEN 0 ELSE IF eq THEN DoubleState ELSE 1
               [] rst_n' /\ state = 1 ->
                     IF ~ready THEN 1 ELSE IF Shortcut THEN 0 ELSE 2
               [] rst_n' /\ state \in StepStates ->
                     IF core_finish THEN state + 1 ELSE state
               [] rst_n' /\ state = LastState -> 0
               [] rst_n' /\ state = DoubleState ->
                     IF pd_finish THEN doubled ELSE state
Fault_run_on == Fault_fsm(DoubleState + 1, pn_finish)
Fault_no_wait == Fault_fsm(0, pn_finish \/ ~Shortcut)

fsm ==
    state' = CASE ~rst_n' -> 0
               [] rst_n' /\ state = 0 ->
                     IF ~start THEN 0 ELSE IF eq THEN DoubleState ELSE 1
               [] rst_n' /\ state = 1 ->
                     IF ~pn_finish THEN 1 ELSE IF Shortcut THEN 0 ELSE 2
               [] rst_n' /\ state \in StepStates ->
                     IF core_finish THEN state + 1 ELSE state
               [] rst_n' /\ state = LastState -> 0
               [] rst_n' /\ state = DoubleState ->
                     IF pd_finish THEN 0 ELSE state

\* Seeded fault: the output also replaces the first operand.
Fault_sequ ==
    reg' = [r \in Registers |->
              IF state \in StepStates /\ r \in {StepOf(state).dst, StepOf(state).u}
              THEN core_out ELSE reg[r]]

\* sequ samples core_out on every edge, finished or not, and has no reset.
sequ == reg' = IF state \in StepStates
               THEN [reg EXCEPT ![StepOf(state).dst] = core_out]
               ELSE reg

-----------------------------------------------------------------------------
(***************************************************************************)
(* The handshake as the client sees it, and the client, SCALAR_MULT: it    *)
(* keeps its request up until the finish cycle ends.                       *)
(***************************************************************************)
pa_phase == IF finish THEN "done" ELSE IF state = 0 THEN "idle" ELSE "busy"

InFlight == pa_phase = "busy" \/ (pa_phase = "idle" /\ start)

ClientHolds == InFlight /\ UNCHANGED <<start, req>>

NoRequest == start' = FALSE /\ UNCHANGED req

ClientMoves == ~InFlight /\ (NoRequest \/ (start' = TRUE /\ req' \in Requests))

Init == /\ rst_n = FALSE /\ start = FALSE /\ req \in Requests
        /\ state = 0 /\ reg = [r \in Registers |-> Zero]
        /\ core0!Quiet /\ pn0!Quiet /\ pd0!Quiet
        /\ resets = 0

Posedge == /\ rst_n /\ UNCHANGED <<rst_n, resets>>
           /\ fsm /\ sequ /\ core0!Edge /\ pn0!Edge /\ pd0!Edge
           /\ (ClientHolds \/ ClientMoves)

\* rst_n falls (bounded), or stays low over a clock edge.
Reset == /\ rst_n' = FALSE
         /\ resets' = resets + (IF rst_n THEN 1 ELSE 0) /\ resets' <= MaxResets
         /\ fsm /\ sequ /\ core0!Abort /\ pn0!Abort /\ pd0!Abort /\ NoRequest

Release == /\ ~rst_n /\ rst_n' = TRUE /\ UNCHANGED resets
           /\ fsm /\ sequ /\ core0!Edge /\ pn0!Edge /\ pd0!Edge /\ NoRequest

Next == Posedge \/ Reset \/ Release

\* The clock never stops: WF_vars(Posedge), spelled out with the state
\* predicate rst_n, which is when Posedge is enabled.
Ticking == []<>~rst_n \/ []<><<Posedge>>_vars

Spec == Init /\ [][Next]_vars /\ Ticking

-----------------------------------------------------------------------------
(***************************************************************************)
(* Properties.                                                             *)
(***************************************************************************)
\* The registers keep their width and the state machine its range.
TypeOK ==
    /\ rst_n \in BOOLEAN /\ start \in BOOLEAN /\ req \in Requests
    /\ state \in 0 .. DoubleState /\ reg \in [Registers -> Elem]
    /\ core_phase \in {"idle", "busy", "done"} /\ core_out \in Elem
    /\ pn_phase \in {"idle", "busy", "done"} /\ pn_P_o \in Point
    /\ pd_phase \in {"idle", "busy", "done"} /\ pd_P_o \in Point
    /\ core_left \in Nat /\ pn_left \in Nat /\ pd_left \in Nat
    /\ resets \in 0 .. MaxResets

\* What CORE and PD rely on: no operand line of core0 or pd0 changes from the
\* cycle of a request to its finish cycle, although sequ overwrites a register
\* on every edge of its state.
OperandsStable == [][rst_n' => /\ core0!InFlight => core_op' = core_op
                               /\ pd0!InFlight => pd_op' = pd_op]_vars

\* pn0 is started even when pd0 will do the work, and nobody waits for that
\* answer.  It is gone before PA is idle again: a left-over finish of pn0 in
\* the cycle of the next request would leave PA waiting in state 1 forever.
NoStaleNegation == state = 0 => pn_phase = "idle"

\* PA is the golden model's point_addition on every pair of operands for which
\* comparing P with the all-zero vector says the same as comparing P with the
\* negative of Q.
NegationMatters ==
    equal(req.P, point_negation(req.Q)) # equal(req.P, Origin)

GoldenAddition ==
    finish /\ ~NegationMatters =>
        P_o = point_addition(req.P, req.Q, req.a, req.p)

\* "P_o.is_inf = true" when P equals "Q_neg" (PA.fsm, case 1).  The code does
\* not do this: pn0 negates the all-zero vector, not Q.
NegationDetected == finish /\ Opposite(req.P, req.Q) => P_o.inf

EdgesLeft ==
    IF pa_phase # "busy" THEN 0
    ELSE CASE state = 1 -> pn_left + PaLatency(req) - PnLatency(req.P)
           [] state = DoubleState ->
                IF pd_phase = "idle" THEN 1 + PdLatency(pd_op) ELSE pd_left
           [] OTHER ->
                CASE core_phase = "idle" -> EdgesFrom(PaProgram, state - 1)
                  [] core_phase = "busy" -> core_left + 1 + EdgesFrom(PaProgram, state)
                  [] core_phase = "done" -> 1 + EdgesFrom(PaProgram, state)

Unit == INSTANCE UnitSpec WITH
            Result <- PaResult, Latency <- PaLatency, NoResult <- Origin,
            phase <- pa_phase, left <- EdgesLeft, res <- P_o, arg <- req

\* PA keeps the handshake contract: one result, PaResult, in one finish cycle,
\* after exactly PaLatency edges, whatever was computed or aborted before.
ImplementsUnit == Unit!Spec
=============================================================================
