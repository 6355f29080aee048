--------------------------- MODULE PointAddProofs ---------------------------
(***************************************************************************)
(* Proofs about PointAdd for every width, every set of requests and every  *)
(* number of resets: type correctness, operands that do not move under     *)
(* core0 and pd0, the answer of pn0 nobody waits for, the result, and the  *)
(* handshake contract.                                                     *)
(***************************************************************************)
EXTENDS PointAdd, FieldProofs, TLAPS

\* The operand lines that are inputs, and the numbers of the list.
Inputs == {"Px", "Py", "Qx", "Qy", "a", "0"}
Entries == DOMAIN PaProgram

\* The list of operations, one by one.
LEMMA ProgramTable ==
    /\ Entries = 1 .. 13 /\ StepStates = 2 .. 14 /\ Len(PaProgram) = 13
    /\ LastState = 15 /\ DoubleState = 16
    /\ PaProgram[1] = Op("add", "Px", "Qx", "Px_Qx")
    /\ PaProgram[2] = Op("add", "Py", "Qy", "Py_Qy")
    /\ PaProgram[3] = Op("inv", "Px_Qx", "0", "inv_Px_Qx")
    /\ PaProgram[4] = Op("mul", "Py_Qy", "inv_Px_Qx", "lamb")
    /\ PaProgram[5] = Op("mul", "lamb", "lamb", "lamb_2")
    /\ PaProgram[6] = Op("add", "lamb_2", "lamb", "tempx0")
    /\ PaProgram[7] = Op("add", "Px", "Qx", "tempx1")
    /\ PaProgram[8] = Op("add", "tempx0", "tempx1", "tempx2")
    /\ PaProgram[9] = Op("add", "tempx2", "a", "P_ox")
    /\ PaProgram[10] = Op("add", "Px", "P_ox", "Px_X")
    /\ PaProgram[11] = Op("mul", "lamb", "Px_X", "lamb_Px_X")
    /\ PaProgram[12] = Op("add", "lamb_Px_X", "P_ox", "tempy0")
    /\ PaProgram[13] = Op("add", "tempy0", "Py", "P_oy")
  BY DEF PaProgram, Entries, StepStates, LastState, DoubleState

\* The list asks core0 for operations it has.
LEMMA ProgramTyped == \A k \in Entries : PaProgram[k].mode \in Modes
<1> SUFFICES ASSUME NEW k \in Entries
             PROVE  PaProgram[k].mode \in Modes
  OBVIOUS
<1>1. k \in {1, 2, 3, 4, 5, 6, 7, 8, 9, 10, 11, 12, 13}
  BY ProgramTable
<1> QED
  BY <1>1, ProgramTable DEF Modes, Op

\* No operation writes a register that it or an earlier one reads, or that
\* an earlier one has written.
LEMMA SingleAssignment ==
    ASSUME NEW j \in Entries, NEW k \in Entries
    PROVE  /\ j <= k => PaProgram[j].u # PaProgram[k].dst
                        /\ PaProgram[j].v # PaProgram[k].dst
           /\ j # k => PaProgram[j].dst # PaProgram[k].dst
           /\ PaProgram[k].dst \in Registers \ Inputs
           /\ PaProgram[k].u \in Registers \cup Inputs
           /\ PaProgram[k].v \in Registers \cup Inputs
<1>1. /\ j \in {1, 2, 3, 4, 5, 6, 7, 8, 9, 10, 11, 12, 13}
      /\ k \in {1, 2, 3, 4, 5, 6, 7, 8, 9, 10, 11, 12, 13}
  BY ProgramTable
<1>2. PaProgram[k].dst \in Registers \ Inputs
  <2>1. PaProgram[k].dst \in Registers
    <3>1. k + 1 \in StepStates /\ StepOf(k + 1) = PaProgram[k]
      BY <1>1, ProgramTable DEF StepOf
    <3> QED
      BY <3>1 DEF Registers
  <2>2. PaProgram[k].dst \notin Inputs
    BY <1>1, ProgramTable DEF Op, Inputs
  <2> QED
    BY <2>1, <2>2
<1>3. j <= k => PaProgram[j].u # PaProgram[k].dst /\ PaProgram[j].v # PaProgram[k].dst
  BY <1>1, ProgramTable DEF Op
<1>4. j # k => PaProgram[j].dst # PaProgram[k].dst
  BY <1>1, ProgramTable DEF Op
<1>5. PaProgram[k].u \in Registers \cup Inputs /\ PaProgram[k].v \in Registers \cup Inputs
  <2>1. \A n \in 1 .. 13 : PaProgram[n].dst \in Registers
    <3> SUFFICES ASSUME NEW n \in 1 .. 13 PROVE PaProgram[n].dst \in Registers
      OBVIOUS
    <3>1. n + 1 \in StepStates /\ StepOf(n + 1) = PaProgram[n]
      BY ProgramTable DEF StepOf
    <3> QED
      BY <3>1 DEF Registers
  <2> QED
    BY <1>1, <2>1, ProgramTable DEF Op, Inputs
<1> QED
  BY <1>2, <1>3, <1>4, <1>5

-----------------------------------------------------------------------------
\* What core0 is asked to do for entry k of the list, in state k + 1.
OpAt(k) == [mode |-> PaProgram[k].mode,
            a |-> Line(PaProgram[k].u), b |-> Line(PaProgram[k].v),
            p |-> IF PaProgram[k].mode = "add" THEN Zero ELSE req.p]

\* core0 works in the states of the list only, and shows what it was asked for.
Computing ==
    /\ core_phase # "idle" => state \in StepStates
    /\ core_phase # "busy" => core_left = 0
    /\ core_phase = "busy" => core_left >= 1
    /\ core_out = IF core_phase = "done" THEN CoreResult(core_op) ELSE Zero

\* pd0 works in the doubling state only.
Doubling ==
    /\ pd_phase # "idle" => state = DoubleState
    /\ pd_phase # "busy" => pd_left = 0
    /\ pd_phase = "busy" => pd_left >= 1
    /\ pd_P_o = IF pd_phase = "done" THEN PdResult(pd_op) ELSE Origin

\* pn0 starts on the edge that leaves state 0; state 1 waits for it.  In the
\* doubling state nobody does, but pd0, which starts an edge later and takes no
\* less time, outlasts it.
Negating ==
    /\ pn_phase # "idle" => state \in {1, DoubleState}
    /\ state = 1 => pn_phase # "idle"
    /\ pn_phase # "busy" => pn_left = 0
    /\ pn_phase = "busy" => pn_left \in 1 .. 3
    /\ state = DoubleState /\ pn_phase # "idle" =>
          IF pd_phase = "idle" THEN pn_phase = "busy"
                               ELSE pd_phase = "busy" /\ pd_left > pn_left
    /\ pn_P_o = Origin

\* The doubling state is entered with equal points and state 1 with different
\* ones; only operands with a chord pass state 1; reset finds no request.
Passing ==
    /\ state = DoubleState => equal(req.P, req.Q)
    /\ state \notin {0, DoubleState} => ~equal(req.P, req.Q)
    /\ state \notin {0, 1, DoubleState} => ~PaShortcut(req)
    /\ ~rst_n => state = 0 /\ ~start

\* Every state of the list that has been left has put its result in its register.
Computed ==
    state <= LastState =>
        \A j \in DOMAIN PaProgram :
            j + 1 < state => reg[PaProgram[j].dst] = CoreResult(OpAt(j))

IInv == TypeOK /\ Computing /\ Doubling /\ Negating /\ Passing /\ Computed

-----------------------------------------------------------------------------
\* The operands of a request have their widths.
LEMMA RequestTyped ==
    ASSUME TypeOK
    PROVE  /\ req.P \in Point /\ req.Q \in Point
           /\ req.a \in Elem /\ req.p \in Elem
  BY RequestsAssumption DEF TypeOK

\* Every operand line carries M bits.
LEMMA OpTyped ==
    ASSUME TypeOK, NEW k \in Entries
    PROVE  OpAt(k) \in Operation
<1>1. \A name \in Registers \cup Inputs : Line(name) \in Elem
  BY RequestTyped, ElemClosed DEF TypeOK, Line, Inputs, Point
<1>2. PaProgram[k].mode \in Modes
  BY ProgramTyped
<1>3. Line(PaProgram[k].u) \in Elem /\ Line(PaProgram[k].v) \in Elem
  BY <1>1, SingleAssignment
<1>4. (IF PaProgram[k].mode = "add" THEN Zero ELSE req.p) \in Elem
  BY RequestTyped, ElemClosed
<1> QED
  BY <1>2, <1>3, <1>4 DEF OpAt, Operation

\* In a state of the list core0 is asked for its entry.
LEMMA CoreOpIs ==
    ASSUME NEW k \in Entries, state = k + 1
    PROVE  /\ state \in StepStates /\ StepOf(state) = PaProgram[k]
           /\ core_op = OpAt(k)
<1>1. state \in StepStates /\ StepOf(state) = PaProgram[k]
  BY ProgramTable DEF StepOf
<1> QED
  BY <1>1 DEF core_op, core_start, OpAt

\* sequ overwrites the register of its own state only, and with it no operand
\* line of this state or of an earlier one.
LEMMA SequKeeps ==
    ASSUME TypeOK, sequ, req' = req, NEW j \in Entries,
           state \in StepStates => j + 1 <= state
    PROVE  /\ OpAt(j)' = OpAt(j)
           /\ j + 1 # state => reg'[PaProgram[j].dst] = reg[PaProgram[j].dst]
           /\ j + 1 = state => reg'[PaProgram[j].dst] = core_out
<1>1. CASE state \notin StepStates
  <2>1. reg' = reg
    BY <1>1 DEF sequ
  <2>2. OpAt(j)' = OpAt(j)
    BY <2>1 DEF OpAt, Line
  <2>3. j + 1 # state
    BY <1>1, ProgramTable
  <2> QED
    BY <2>1, <2>2, <2>3
<1>2. CASE state \in StepStates
  <2> DEFINE i == state - 1
             dst == PaProgram[i].dst
  <2>1. i \in Entries /\ j <= i /\ (j # i <=> j + 1 # state) /\ StepOf(state) = PaProgram[i]
    BY <1>2, ProgramTable DEF StepOf
  <2>2. /\ dst \in Registers \ Inputs
        /\ PaProgram[j].u # dst /\ PaProgram[j].v # dst
        /\ PaProgram[j].u \in Registers \cup Inputs
        /\ PaProgram[j].v \in Registers \cup Inputs
        /\ PaProgram[j].dst \in Registers
        /\ j # i => PaProgram[j].dst # dst
    BY <2>1, SingleAssignment
  <2>3. reg' = [reg EXCEPT ![dst] = core_out] /\ reg \in [Registers -> Elem]
    BY <1>2, <2>1 DEF sequ, TypeOK
  <2>8. j = i => PaProgram[j].dst = dst
    OBVIOUS
  <2> HIDE DEF dst, i
  <2>4. ASSUME NEW name \in Registers \cup Inputs, name # dst
        PROVE  Line(name)' = Line(name)
    <3>1. CASE name \in Inputs
      BY <3>1 DEF Line, Inputs
    <3>2. CASE name \in Registers
      BY <2>3, <2>4, <3>2 DEF Line
    <3> QED
      BY <3>1, <3>2
  <2>5. /\ Line(PaProgram[j].u)' = Line(PaProgram[j].u)
        /\ Line(PaProgram[j].v)' = Line(PaProgram[j].v)
    BY <2>2, <2>4
  <2>6. OpAt(j)' = OpAt(j)
    BY <2>5 DEF OpAt
  <2>7. /\ j # i => reg'[PaProgram[j].dst] = reg[PaProgram[j].dst]
        /\ j = i => reg'[PaProgram[j].dst] = core_out
    BY <2>2, <2>3, <2>8
  <2> QED
    BY <2>1, <2>6, <2>7
<1> QED
  BY <1>1, <1>2

\* sequ keeps the registers M bits wide.
LEMMA RegTyped ==
    ASSUME TypeOK, sequ
    PROVE  reg' \in [Registers -> Elem]
<1>1. state \in StepStates => StepOf(state).dst \in Registers
  BY DEF Registers
<1> QED
  BY <1>1 DEF TypeOK, sequ

\* An edge of core0 outside the list, and in each phase of one of its states.
LEMMA CoreRests ==
    ASSUME TypeOK, Computing, core0!Edge, state \notin StepStates
    PROVE  /\ core_phase = "idle" /\ core_phase' = "idle"
           /\ core_left' = 0 /\ core_out' = Zero
<1>1. core_phase = "idle" /\ core_left = 0 /\ core_out = Zero
  BY DEF Computing
<1> QED
  BY <1>1 DEF core0!Edge, core0!Rest, core0!Accept, core0!Work, core0!Complete,
              core0!Release, core_start

\* core0 on an edge in a state of the list: it accepts, counts, answers, rests.
LEMMA CoreWorks ==
    ASSUME TypeOK, Computing, core0!Edge, state \in StepStates
    PROVE  /\ core_phase = "idle" =>
                core_phase' = "busy" /\ core_left' = CoreLatency(core_op)
                /\ core_out' = Zero
           /\ core_phase = "busy" /\ core_left > 1 =>
                core_phase' = "busy" /\ core_left' = core_left - 1
                /\ core_out' = Zero
           /\ core_phase = "busy" /\ core_left = 1 =>
                core_phase' = "done" /\ core_left' = 0
                /\ core_out' = CoreResult(core_op)
           /\ core_phase = "done" =>
                core_phase' = "idle" /\ core_left' = 0 /\ core_out' = Zero
           /\ core_phase = "busy" => core_left > 1 \/ core_left = 1
<1>1. core_phase = "busy" => core_left > 1 \/ core_left = 1
  BY DEF TypeOK, Computing
<1>2. core_phase = "idle" =>
        core_phase' = "busy" /\ core_left' = CoreLatency(core_op) /\ core_out' = Zero
  BY DEF core0!Edge, core0!Rest, core0!Accept, core0!Work, core0!Complete,
         core0!Release, core_start, Computing
<1>3. core_phase = "busy" /\ core_left > 1 =>
        core_phase' = "busy" /\ core_left' = core_left - 1 /\ core_out' = Zero
  BY DEF core0!Edge, core0!Rest, core0!Accept, core0!Work, core0!Complete,
         core0!Release, Computing, TypeOK
<1>4. core_phase = "busy" /\ core_left = 1 =>
        core_phase' = "done" /\ core_left' = 0 /\ core_out' = CoreResult(core_op)
  BY DEF core0!Edge, core0!Rest, core0!Accept, core0!Work, core0!Complete,
         core0!Release
<1>5. core_phase = "done" =>
        core_phase' = "idle" /\ core_left' = 0 /\ core_out' = Zero
  BY DEF core0!Edge, core0!Rest, core0!Accept, core0!Work, core0!Complete,
         core0!Release, Computing
<1> QED
  BY <1>1, <1>2, <1>3, <1>4, <1>5

\* An edge of pd0 outside the doubling state, and in each phase of it.
LEMMA PdRests ==
    ASSUME TypeOK, Doubling, pd0!Edge, state # DoubleState
    PROVE  /\ pd_phase = "idle" /\ pd_phase' = "idle"
           /\ pd_left' = 0 /\ pd_P_o' = Origin
<1>1. pd_phase = "idle" /\ pd_left = 0 /\ pd_P_o = Origin
  BY DEF Doubling
<1> QED
  BY <1>1 DEF pd0!Edge, pd0!Rest, pd0!Accept, pd0!Work, pd0!Complete,
              pd0!Release, pd_start

\* pd0 on an edge while PA waits for it.
LEMMA PdWorks ==
    ASSUME TypeOK, Doubling, pd0!Edge, state = DoubleState
    PROVE  /\ pd_phase = "idle" =>
                pd_phase' = "busy" /\ pd_left' = PdLatency(pd_op)
                /\ pd_P_o' = Origin
           /\ pd_phase = "busy" /\ pd_left > 1 =>
                pd_phase' = "busy" /\ pd_left' = pd_left - 1
                /\ pd_P_o' = Origin
           /\ pd_phase = "busy" /\ pd_left = 1 =>
                pd_phase' = "done" /\ pd_left' = 0
                /\ pd_P_o' = PdResult(pd_op)
           /\ pd_phase = "done" =>
                pd_phase' = "idle" /\ pd_left' = 0 /\ pd_P_o' = Origin
           /\ pd_phase = "busy" => pd_left > 1 \/ pd_left = 1
<1>1. pd_phase = "busy" => pd_left > 1 \/ pd_left = 1
  BY DEF TypeOK, Doubling
<1>2. pd_phase = "idle" =>
        pd_phase' = "busy" /\ pd_left' = PdLatency(pd_op) /\ pd_P_o' = Origin
  BY DEF pd0!Edge, pd0!Rest, pd0!Accept, pd0!Work, pd0!Complete,
         pd0!Release, pd_start, Doubling
<1>3. pd_phase = "busy" /\ pd_left > 1 =>
        pd_phase' = "busy" /\ pd_left' = pd_left - 1 /\ pd_P_o' = Origin
  BY DEF pd0!Edge, pd0!Rest, pd0!Accept, pd0!Work, pd0!Complete,
         pd0!Release, Doubling, TypeOK
<1>4. pd_phase = "busy" /\ pd_left = 1 =>
        pd_phase' = "done" /\ pd_left' = 0 /\ pd_P_o' = PdResult(pd_op)
  BY DEF pd0!Edge, pd0!Rest, pd0!Accept, pd0!Work, pd0!Complete,
         pd0!Release
<1>5. pd_phase = "done" =>
        pd_phase' = "idle" /\ pd_left' = 0 /\ pd_P_o' = Origin
  BY DEF pd0!Edge, pd0!Rest, pd0!Accept, pd0!Work, pd0!Complete,
         pd0!Release, Doubling
<1> QED
  BY <1>1, <1>2, <1>3, <1>4, <1>5

\* An edge of pn0: it starts in state 0 and runs to its end, wherever PA goes.
LEMMA NegationIsOrigin == PnResult(pn_P) = Origin /\ PnLatency(pn_P) = 3
  BY DEF PnResult, pn_P, Origin, Affine, Add, Zero, PnLatency, CoreLatency, Idle

\* pn0 on an edge: it counts from the edge that accepts a request, whatever PA
\* does meanwhile, and its answer is the all-zero vector.
LEMMA PnEdges ==
    ASSUME TypeOK, Negating, pn0!Edge
    PROVE  /\ pn_P_o' = Origin
           /\ pn_phase = "idle" /\ ~(state = 0 /\ start) =>
                pn_phase' = "idle" /\ pn_left' = 0
           /\ pn_phase = "idle" /\ state = 0 /\ start =>
                pn_phase' = "busy" /\ pn_left' = 3
           /\ pn_phase = "busy" /\ pn_left > 1 =>
                pn_phase' = "busy" /\ pn_left' = pn_left - 1
           /\ pn_phase = "busy" /\ pn_left = 1 =>
                pn_phase' = "done" /\ pn_left' = 0
           /\ pn_phase = "done" => pn_phase' = "idle" /\ pn_left' = 0
           /\ pn_phase = "busy" => pn_left > 1 \/ pn_left = 1
<1>1. pn_phase = "busy" => pn_left > 1 \/ pn_left = 1
  BY DEF TypeOK, Negating
<1>2. pn_P_o' = Origin
  BY NegationIsOrigin DEF pn0!Edge, pn0!Rest, pn0!Accept, pn0!Work, pn0!Complete,
         pn0!Release, pn_start, Negating
<1>3. pn_phase = "idle" /\ state = 0 /\ start => pn_phase' = "busy" /\ pn_left' = 3
  BY NegationIsOrigin DEF pn0!Edge, pn0!Rest, pn0!Accept, pn0!Work, pn0!Complete,
         pn0!Release, pn_start
<1>4. pn_phase = "idle" /\ ~(state = 0 /\ start) => pn_phase' = "idle" /\ pn_left' = 0
  BY DEF pn0!Edge, pn0!Rest, pn0!Accept, pn0!Work, pn0!Complete,
         pn0!Release, pn_start, Negating
<1>5. pn_phase = "busy" /\ pn_left > 1 =>
        pn_phase' = "busy" /\ pn_left' = pn_left - 1
  BY DEF pn0!Edge, pn0!Rest, pn0!Accept, pn0!Work, pn0!Complete,
         pn0!Release, TypeOK
<1>6. pn_phase = "busy" /\ pn_left = 1 => pn_phase' = "done" /\ pn_left' = 0
  BY DEF pn0!Edge, pn0!Rest, pn0!Accept, pn0!Work, pn0!Complete, pn0!Release
<1>7. pn_phase = "done" => pn_phase' = "idle" /\ pn_left' = 0
  BY DEF pn0!Edge, pn0!Rest, pn0!Accept, pn0!Work, pn0!Complete,
         pn0!Release, Negating
<1> QED
  BY <1>1, <1>2, <1>3, <1>4, <1>5, <1>6, <1>7

\* pd0 takes no less time than pn0 and its result is a point.
LEMMA DoublingTyped ==
    ASSUME TypeOK
    PROVE  /\ PdLatency(pd_op) \in Nat /\ PdLatency(pd_op) >= 3
           /\ PdResult(pd_op) \in Point
<1>1. /\ pd_op.P = req.P /\ pd_op.a = req.a /\ pd_op.p = req.p
      /\ req.P \in Point /\ req.a \in Elem /\ req.p \in Elem
  BY RequestTyped DEF pd_op
<1>2. EdgesFrom(PdProgram, 1) \in Nat
  <2>1. /\ Len(PdProgram) \in Nat /\ 1 \in 1 .. Len(PdProgram) + 1
        /\ \A k \in 1 .. Len(PdProgram) : PdProgram[k].mode \in Modes
    BY DEF PdProgram, Op, Modes
  <2> QED
    BY <2>1, EdgesUnfold, Zenon
<1>3. PnLatency(pd_op.P) = 3
  BY DEF PnLatency, CoreLatency, Idle
<1>4. PdLatency(pd_op) \in Nat /\ PdLatency(pd_op) >= 3
  BY <1>2, <1>3 DEF PdLatency
<1>5. AtInfinity(req.P) \in Point
  BY <1>1 DEF AtInfinity, Point
<1>6. Tangent(req.P, req.a, req.p) \in Point
  <2>1. \A u, v \in Elem : Add(u, v) \in Elem /\ Mul(u, v, req.p) \in Elem
    BY <1>1, ElemClosed, MulClosed
  <2>2. \A u \in Elem : Inv(u, req.p) \in Elem
    BY <1>1, InvClosed
  <2>3. \A u, v \in Elem : Affine(u, v) \in Point
    BY DEF Affine, Point
  <2>4. req.P.x \in Elem /\ req.P.y \in Elem
    BY <1>1 DEF Point
  <2> QED
    BY <1>1, <2>1, <2>2, <2>3, <2>4 DEF Tangent
<1> QED
  BY <1>1, <1>4, <1>5, <1>6 DEF PdResult

-----------------------------------------------------------------------------
\* The inputs, whatever the step.
LEMMA InputsTyped ==
    ASSUME IInv, Next
    PROVE  /\ rst_n' \in BOOLEAN /\ start' \in BOOLEAN /\ req' \in Requests
           /\ resets' \in 0 .. MaxResets
           /\ rst_n' = FALSE => start' = FALSE
           /\ fsm /\ sequ
<1>1. /\ rst_n \in BOOLEAN /\ start \in BOOLEAN /\ req \in Requests
      /\ resets \in 0 .. MaxResets /\ MaxResets \in Nat
  BY RequestsAssumption DEF IInv, TypeOK
<1>2. CASE Posedge
  BY <1>1, <1>2 DEF Posedge, ClientHolds, ClientMoves, NoRequest
<1>3. CASE Release
  BY <1>1, <1>3 DEF Release, NoRequest
<1>4. CASE Reset
  <2>1. resets' = resets + (IF rst_n THEN 1 ELSE 0) /\ resets' <= MaxResets
    BY <1>4 DEF Reset
  <2>2. resets' = resets + 1 \/ resets' = resets
    BY <1>1, <2>1
  <2>3. resets' \in 0 .. MaxResets
    BY <1>1, <2>1, <2>2
  <2> QED
    BY <1>1, <1>4, <2>3 DEF Reset, NoRequest
<1> QED
  BY <1>2, <1>3, <1>4 DEF Next

\* The phase the client sees, by where PA is.
PhaseParts ==
    /\ state = 0 => pa_phase = "idle"
    /\ state = 1 =>
          pa_phase = IF pn_phase = "done" /\ PaShortcut(req) THEN "done" ELSE "busy"
    /\ state \in StepStates => pa_phase = "busy"
    /\ state = LastState => pa_phase = "done"
    /\ state = DoubleState =>
          pa_phase = IF pd_phase = "done" THEN "done" ELSE "busy"
    /\ finish <=> pa_phase = "done"
    /\ InFlight <=> pa_phase = "busy" \/ (state = 0 /\ start)

\* PointAdd's pa_phase is what these parts say.
LEMMA PhaseIs == IInv => PhaseParts
<1> SUFFICES ASSUME IInv
             PROVE  PhaseParts
  OBVIOUS
<1>1. StepStates = 2 .. 14 /\ LastState = 15 /\ DoubleState = 16
  BY ProgramTable
<1>2. state = 0 => ~finish /\ pa_phase = "idle"
  BY <1>1 DEF pa_phase, finish
<1>3. state \in StepStates => ~finish /\ pa_phase = "busy"
  BY <1>1 DEF pa_phase, finish
<1>4. state = LastState => pa_phase = "done"
  BY DEF pa_phase, finish
<1>5. state = DoubleState =>
         pa_phase = IF pd_phase = "done" THEN "done" ELSE "busy"
  BY <1>1 DEF pa_phase, finish, pd_finish
<1>6. state = 1 =>
        pa_phase = IF pn_phase = "done" /\ PaShortcut(req) THEN "done" ELSE "busy"
  <2>1. state = 1 => (Shortcut <=> PaShortcut(req))
    BY DEF Shortcut, PaShortcut, eq, IInv, Negating
  <2> QED
    BY <1>1, <2>1 DEF pa_phase, finish, pn_finish
<1>7. finish <=> pa_phase = "done"
  BY DEF pa_phase
<1>8. pa_phase = "idle" => state = 0
  BY DEF pa_phase
<1>9. InFlight <=> pa_phase = "busy" \/ (state = 0 /\ start)
  BY <1>2, <1>8 DEF InFlight
<1> QED
  BY <1>2, <1>3, <1>4, <1>5, <1>6, <1>7, <1>9 DEF PhaseParts

\* The same in the next state.
LEMMA PhaseWillBe == IInv' => PhaseParts'
  BY PhaseIs, PTL

\* A request in flight stays; sub-units and state machine take an edge.
LEMMA EdgeHolds ==
    ASSUME IInv, Next, rst_n' = TRUE
    PROVE  /\ core0!Edge /\ pn0!Edge /\ pd0!Edge
           /\ InFlight => req' = req /\ start' = start
<1>1. CASE Posedge
  BY <1>1 DEF Posedge, ClientHolds, ClientMoves
<1>2. CASE Release
  <2>1. state = 0 /\ ~start
    BY <1>2 DEF Release, IInv, Passing
  <2>2. ~InFlight
    BY <2>1, PhaseIs DEF PhaseParts
  <2> QED
    BY <1>2, <2>2 DEF Release
<1>3. ~Reset
  BY DEF Reset
<1> QED
  BY <1>1, <1>2, <1>3 DEF Next
-----------------------------------------------------------------------------
(***************************************************************************)
(* One lemma per state of fsm: the step out of it keeps IInv.              *)
(***************************************************************************)
\* Reset, whatever PA and its sub-units were doing.
LEMMA ResetKeeps ==
    ASSUME IInv, Next, rst_n' = FALSE
    PROVE  IInv'
<1>1. /\ start' = FALSE /\ req' \in Requests /\ resets' \in 0 .. MaxResets
      /\ fsm /\ sequ
  BY InputsTyped
<1>2. reg' \in [Registers -> Elem]
  BY <1>1, RegTyped DEF IInv
<1>3. core0!Abort /\ pn0!Abort /\ pd0!Abort
  BY DEF Next, Posedge, Release, Reset
<1>4. state' = 0
  BY <1>1 DEF fsm
<1>5. /\ core_phase' = "idle" /\ core_left' = 0 /\ core_out' = Zero
      /\ pn_phase' = "idle" /\ pn_left' = 0 /\ pn_P_o' = Origin
      /\ pd_phase' = "idle" /\ pd_left' = 0 /\ pd_P_o' = Origin
  BY <1>3 DEF core0!Abort, pn0!Abort, pd0!Abort
<1>6. Zero \in Elem /\ Origin \in Point /\ 0 \in 0 .. DoubleState
  BY ElemClosed, ProgramTable DEF Origin, Affine, Point
<1>7. TypeOK'
  BY <1>1, <1>2, <1>4, <1>5, <1>6 DEF TypeOK
<1>8. Computing' /\ Doubling' /\ Negating' /\ Passing'
  <2>1. 0 # 1 /\ 0 # DoubleState
    BY ProgramTable
  <2> QED
    BY <1>1, <1>4, <1>5, <2>1 DEF Computing, Doubling, Negating, Passing
<1>9. Computed'
  <2>1. \A j \in Entries : ~(j + 1 < 0)
    BY ProgramTable
  <2> QED
    BY <1>4, <2>1 DEF Computed, Entries
<1> QED
  BY <1>7, <1>8, <1>9 DEF IInv

\* State 0: a request starts pn0 and goes on to state 16 or to state 1.
LEMMA IdleKeeps ==
    ASSUME IInv, Next, rst_n' = TRUE, state = 0
    PROVE  IInv'
<1>1. /\ start' \in BOOLEAN /\ req' \in Requests /\ resets' \in 0 .. MaxResets
      /\ fsm /\ sequ /\ core0!Edge /\ pn0!Edge /\ pd0!Edge
      /\ start => req' = req
  BY InputsTyped, EdgeHolds, PhaseIs DEF PhaseParts
<1>2. TypeOK /\ Computing /\ Doubling /\ Negating
  BY DEF IInv
<1>3. StepStates = 2 .. 14 /\ LastState = 15 /\ DoubleState = 16 /\ Entries = 1 .. 13
  BY ProgramTable
<1>4. reg' \in [Registers -> Elem]
  BY <1>1, <1>2, RegTyped
<1>5. /\ core_phase' = "idle" /\ core_left' = 0 /\ core_out' = Zero
      /\ pd_phase' = "idle" /\ pd_left' = 0 /\ pd_P_o' = Origin
  BY <1>1, <1>2, <1>3, CoreRests, PdRests
<1>6. state' = IF ~start THEN 0 ELSE IF equal(req.P, req.Q) THEN 16 ELSE 1
  BY <1>1, <1>3 DEF fsm, eq
<1>7. /\ pn_P_o' = Origin
      /\ start => pn_phase' = "busy" /\ pn_left' = 3
      /\ ~start => pn_phase' = "idle" /\ pn_left' = 0
  <2>1. pn_phase = "idle"
    BY <1>2, <1>3 DEF Negating
  <2> QED
    BY <1>1, <1>2, <2>1, PnEdges
<1>8. Zero \in Elem /\ Origin \in Point
  BY ElemClosed DEF Origin, Affine, Point
<1>9. TypeOK'
  <2>1. state' \in 0 .. DoubleState
    BY <1>3, <1>6
  <2>2. pn_phase' \in {"idle", "busy", "done"} /\ pn_left' \in Nat
    BY <1>7
  <2> QED
    BY <1>1, <1>4, <1>5, <1>7, <1>8, <2>1, <2>2 DEF TypeOK
<1>10. Computing' /\ Doubling'
  BY <1>5 DEF Computing, Doubling
<1>11. Negating'
  <2>1. pn_phase' # "idle" => state' \in {1, DoubleState}
    BY <1>3, <1>6, <1>7
  <2>2. state' = 1 => pn_phase' # "idle"
    BY <1>6, <1>7
  <2>3. (pn_phase' # "busy" => pn_left' = 0) /\ (pn_phase' = "busy" => pn_left' \in 1 .. 3)
    BY <1>7
  <2>4. pn_phase' # "idle" => pn_phase' = "busy"
    BY <1>7
  <2> QED
    BY <1>5, <1>7, <2>1, <2>2, <2>3, <2>4 DEF Negating
<1>12. Passing'
  <2>1. state' = DoubleState => start /\ equal(req.P, req.Q)
    BY <1>3, <1>6
  <2>2. state' \notin {0, DoubleState} => start /\ ~equal(req.P, req.Q)
    BY <1>3, <1>6
  <2>3. state' \in {0, 1, DoubleState}
    BY <1>3, <1>6
  <2> QED
    BY <1>1, <2>1, <2>2, <2>3 DEF Passing
<1>13. Computed'
  <2>1. state' <= 15 => state' \in 0 .. 1
    BY <1>6
  <2>2. state' \in 0 .. 1 => \A j \in 1 .. 13 : ~(j + 1 < state')
    OBVIOUS
  <2> QED
    BY <1>3, <2>1, <2>2 DEF Computed, Entries
<1> QED
  BY <1>9, <1>10, <1>11, <1>12, <1>13 DEF IInv

\* State 1: wait for pn0, then answer or go on to the list.
LEMMA NegationKeeps ==
    ASSUME IInv, Next, rst_n' = TRUE, state = 1
    PROVE  IInv'
<1>1. /\ start' \in BOOLEAN /\ req' \in Requests /\ resets' \in 0 .. MaxResets
      /\ fsm /\ sequ /\ core0!Edge /\ pn0!Edge /\ pd0!Edge
      /\ ~(pn_phase = "done" /\ PaShortcut(req)) => req' = req
  BY InputsTyped, EdgeHolds, PhaseIs DEF PhaseParts
<1>2. TypeOK /\ Computing /\ Doubling /\ Negating /\ Passing
  BY DEF IInv
<1>3. StepStates = 2 .. 14 /\ LastState = 15 /\ DoubleState = 16 /\ Entries = 1 .. 13
  BY ProgramTable
<1>4. reg' \in [Registers -> Elem]
  BY <1>1, <1>2, RegTyped
<1>5. /\ core_phase' = "idle" /\ core_left' = 0 /\ core_out' = Zero
      /\ pd_phase' = "idle" /\ pd_left' = 0 /\ pd_P_o' = Origin
  BY <1>1, <1>2, <1>3, CoreRests, PdRests
<1>6. state' = IF pn_phase # "done" THEN 1 ELSE IF PaShortcut(req) THEN 0 ELSE 2
  <2>1. Shortcut <=> PaShortcut(req)
    BY <1>2 DEF Shortcut, PaShortcut, eq, Negating
  <2> QED
    BY <1>1, <1>3, <2>1 DEF fsm, pn_finish
<1>7. pn_phase = "busy" \/ pn_phase = "done"
  BY <1>2 DEF TypeOK, Negating
<1>8. /\ pn_P_o' = Origin
      /\ pn_phase = "done" => pn_phase' = "idle" /\ pn_left' = 0
      /\ pn_phase = "busy" => \/ pn_phase' = "busy" /\ pn_left' \in 1 .. 3
                              \/ pn_phase' = "done" /\ pn_left' = 0
  <2>1. CASE pn_phase = "busy" /\ pn_left > 1
    <3>1. pn_left \in 1 .. 3
      BY <1>2, <2>1 DEF Negating
    <3>2. pn_left - 1 \in 1 .. 3
      BY <2>1, <3>1
    <3> QED
      BY <1>1, <1>2, <2>1, <3>2, PnEdges
  <2>2. CASE pn_phase = "busy" /\ pn_left = 1
    BY <1>1, <1>2, <2>2, PnEdges
  <2>3. CASE pn_phase = "done"
    BY <1>1, <1>2, <2>3, PnEdges
  <2> QED
    BY <1>1, <1>2, <1>7, <2>1, <2>2, <2>3, PnEdges
<1>9. Zero \in Elem /\ Origin \in Point
  BY ElemClosed DEF Origin, Affine, Point
<1>10. TypeOK'
  <2>1. state' \in 0 .. DoubleState
    BY <1>3, <1>6
  <2>2. pn_phase' \in {"idle", "busy", "done"} /\ pn_left' \in Nat
    BY <1>7, <1>8
  <2> QED
    BY <1>1, <1>4, <1>5, <1>8, <1>9, <2>1, <2>2 DEF TypeOK
<1>11. Computing' /\ Doubling'
  BY <1>5 DEF Computing, Doubling
<1>12. Negating'
  <2>1. pn_phase' # "idle" => state' = 1
    BY <1>6, <1>7, <1>8
  <2>2. state' = 1 => pn_phase' # "idle"
    BY <1>6, <1>7, <1>8
  <2>3. (pn_phase' # "busy" => pn_left' = 0) /\ (pn_phase' = "busy" => pn_left' \in 1 .. 3)
    BY <1>7, <1>8
  <2>4. 1 # DoubleState
    BY <1>3
  <2> QED
    BY <1>8, <2>1, <2>2, <2>3, <2>4 DEF Negating
<1>13. Passing'
  <2>1. ~equal(req.P, req.Q)
    BY <1>2, <1>3 DEF Passing
  <2>2. state' # DoubleState
    BY <1>3, <1>6
  <2>3. state' # 0 => ~equal(req'.P, req'.Q)
    BY <1>1, <1>6, <2>1
  <2>4. state' \notin {0, 1} => ~PaShortcut(req')
    BY <1>1, <1>6
  <2> QED
    BY <2>2, <2>3, <2>4 DEF Passing
<1>14. Computed'
  <2>1. state' \in 0 .. 2
    BY <1>6
  <2>2. \A j \in 1 .. 13 : ~(j + 1 < state')
    BY <2>1
  <2> QED
    BY <1>3, <2>2 DEF Computed, Entries
<1> QED
  BY <1>10, <1>11, <1>12, <1>13, <1>14 DEF IInv

\* States 2 .. 14: core0 runs the operation of the state, whose register
\* follows core_out; only the result stays in it.
LEMMA ListKeeps ==
    ASSUME IInv, Next, rst_n' = TRUE, state \in StepStates
    PROVE  IInv'
<1>1. /\ start' \in BOOLEAN /\ req' \in Requests /\ resets' \in 0 .. MaxResets
      /\ fsm /\ sequ /\ core0!Edge /\ pn0!Edge /\ pd0!Edge /\ req' = req
  BY InputsTyped, EdgeHolds, PhaseIs DEF PhaseParts
<1>2. TypeOK /\ Computing /\ Doubling /\ Negating /\ Passing /\ Computed
  BY DEF IInv
<1>3. StepStates = 2 .. 14 /\ LastState = 15 /\ DoubleState = 16 /\ Entries = 1 .. 13
  BY ProgramTable
<1>4. reg' \in [Registers -> Elem]
  BY <1>1, <1>2, RegTyped
<1>5. /\ pd_phase' = "idle" /\ pd_left' = 0 /\ pd_P_o' = Origin
      /\ pn_phase' = "idle" /\ pn_left' = 0 /\ pn_P_o' = Origin
  <2>1. state # DoubleState /\ ~(state = 0 /\ start) /\ pn_phase = "idle"
    BY <1>2, <1>3 DEF Negating
  <2> QED
    BY <1>1, <1>2, <2>1, PdRests, PnEdges
<1>6. Zero \in Elem /\ Origin \in Point
  BY ElemClosed DEF Origin, Affine, Point
<1>7. state' = IF core_phase = "done" THEN state + 1 ELSE state
  BY <1>1, <1>3 DEF fsm, core_finish
<1> PICK k \in Entries : state = k + 1
  <2>1. state - 1 \in Entries /\ state = (state - 1) + 1
    BY <1>3
  <2> QED
    BY <2>1
<1>8. core_op = OpAt(k) /\ OpAt(k) \in Operation /\ OpAt(k)' = OpAt(k)
  <2>1. k + 1 <= state
    BY <1>3
  <2> QED
    BY <1>1, <1>2, <2>1, CoreOpIs, OpTyped, SequKeeps
<1>9. CoreLatency(core_op) \in Nat /\ CoreLatency(core_op) >= 3
  BY <1>8, LatencyPositive DEF Operation
<1>10. CoreResult(core_op) \in Elem
  BY <1>8, ResultClosed
<1>11. /\ core_phase' \in {"idle", "busy", "done"} /\ core_left' \in Nat
       /\ core_out' \in Elem
       /\ core_phase' # "busy" => core_left' = 0
       /\ core_phase' = "busy" => core_left' >= 1
       /\ core_phase' # "idle" => core_phase # "done"
       /\ core_out' = IF core_phase' = "done" THEN CoreResult(core_op) ELSE Zero
  BY <1>1, <1>2, <1>6, <1>9, <1>10, CoreWorks DEF TypeOK
<1>12. Computing'
  <2>1. ASSUME core_phase' # "idle"
        PROVE  state' = state /\ state' \in StepStates
    BY <1>7, <1>11, <2>1
  <2>2. ASSUME core_phase' = "done"
        PROVE  core_out' = CoreResult(core_op')
    <3>1. state' = k + 1
      BY <2>1, <2>2
    <3>2. state' \in StepStates /\ StepOf(state') = PaProgram[k]
      BY <1>3, <3>1 DEF StepOf
    <3>3. core_op' = OpAt(k)'
      BY <3>2 DEF core_op, core_start, OpAt
    <3> QED
      BY <1>8, <1>11, <2>2, <3>3
  <2> QED
    BY <1>11, <2>1, <2>2 DEF Computing
<1>13. Doubling'
  BY <1>5 DEF Doubling
<1>14. state' \in 2 .. 15
  BY <1>3, <1>7
<1>15. Negating'
  <2>1. state' # 1 /\ state' # DoubleState
    BY <1>3, <1>14
  <2> QED
    BY <1>5, <2>1 DEF Negating
<1>16. Passing'
  <2>1. ~equal(req.P, req.Q) /\ ~PaShortcut(req)
    <3>1. state \notin {0, 1, DoubleState}
      BY <1>3
    <3> QED
      BY <1>2, <3>1 DEF Passing
  <2>2. state' # DoubleState
    BY <1>3, <1>14
  <2> QED
    BY <1>1, <2>1, <2>2 DEF Passing
<1>17. Computed'
  <2> SUFFICES ASSUME NEW j \in Entries, j + 1 < state'
               PROVE  reg'[PaProgram[j].dst] = CoreResult(OpAt(j)')
    BY DEF Computed, Entries
  <2>1. j + 1 <= state
    BY <1>3, <1>7
  <2>2. /\ OpAt(j)' = OpAt(j)
        /\ j + 1 # state => reg'[PaProgram[j].dst] = reg[PaProgram[j].dst]
        /\ j + 1 = state => reg'[PaProgram[j].dst] = core_out
    BY <1>1, <1>2, <2>1, SequKeeps
  <2>3. CASE j + 1 = state
    <3>1. core_phase = "done" /\ j = k
      BY <1>3, <1>7, <2>3
    <3> QED
      BY <1>2, <1>8, <2>2, <2>3, <3>1 DEF Computing
  <2>4. CASE j + 1 # state
    <3>1. j + 1 < state /\ state <= LastState
      BY <1>3, <2>1, <2>4
    <3> QED
      BY <1>2, <2>2, <2>4, <3>1 DEF Computed, Entries
  <2> QED
    BY <2>3, <2>4
<1>18. TypeOK'
  <2>1. state' \in 0 .. DoubleState
    BY <1>3, <1>14
  <2> QED
    BY <1>1, <1>4, <1>5, <1>6, <1>11, <2>1 DEF TypeOK
<1> QED
  BY <1>12, <1>13, <1>15, <1>16, <1>17, <1>18 DEF IInv

\* State 15: the finish cycle of the list.
LEMMA LastKeeps ==
    ASSUME IInv, Next, rst_n' = TRUE, state = LastState
    PROVE  IInv'
<1>1. /\ start' \in BOOLEAN /\ req' \in Requests /\ resets' \in 0 .. MaxResets
      /\ fsm /\ sequ /\ core0!Edge /\ pn0!Edge /\ pd0!Edge
  BY InputsTyped, EdgeHolds
<1>2. TypeOK /\ Computing /\ Doubling /\ Negating
  BY DEF IInv
<1>3. StepStates = 2 .. 14 /\ LastState = 15 /\ DoubleState = 16 /\ Entries = 1 .. 13
  BY ProgramTable
<1>4. reg' \in [Registers -> Elem]
  BY <1>1, <1>2, RegTyped
<1>5. /\ core_phase' = "idle" /\ core_left' = 0 /\ core_out' = Zero
      /\ pd_phase' = "idle" /\ pd_left' = 0 /\ pd_P_o' = Origin
      /\ pn_phase' = "idle" /\ pn_left' = 0 /\ pn_P_o' = Origin
  <2>1. state \notin StepStates /\ state # DoubleState /\ ~(state = 0 /\ start)
        /\ pn_phase = "idle"
    BY <1>2, <1>3 DEF Negating
  <2> QED
    BY <1>1, <1>2, <2>1, CoreRests, PdRests, PnEdges
<1>6. Zero \in Elem /\ Origin \in Point
  BY ElemClosed DEF Origin, Affine, Point
<1>7. state' = 0 /\ 0 # 1 /\ 0 # DoubleState /\ 0 \in 0 .. DoubleState
  BY <1>1, <1>3 DEF fsm
<1>8. TypeOK'
  BY <1>1, <1>4, <1>5, <1>6, <1>7 DEF TypeOK
<1>9. Computing' /\ Doubling' /\ Negating' /\ Passing'
  BY <1>5, <1>7 DEF Computing, Doubling, Negating, Passing
<1>10. Computed'
  <2>1. \A j \in Entries : ~(j + 1 < 0)
    BY ProgramTable
  <2> QED
    BY <1>7, <2>1 DEF Computed, Entries
<1> QED
  BY <1>8, <1>9, <1>10 DEF IInv

\* State 16: pd0 works, and pn0 runs out under it.
LEMMA DoublingKeeps ==
    ASSUME IInv, Next, rst_n' = TRUE, state = DoubleState
    PROVE  IInv'
<1>1. /\ start' \in BOOLEAN /\ req' \in Requests /\ resets' \in 0 .. MaxResets
      /\ fsm /\ sequ /\ core0!Edge /\ pn0!Edge /\ pd0!Edge
      /\ pd_phase # "done" => req' = req
  BY InputsTyped, EdgeHolds, PhaseIs DEF PhaseParts
<1>2. TypeOK /\ Computing /\ Doubling /\ Negating /\ Passing
  BY DEF IInv
<1>3. StepStates = 2 .. 14 /\ LastState = 15 /\ DoubleState = 16 /\ Entries = 1 .. 13
  BY ProgramTable
<1>4. reg' \in [Registers -> Elem]
  BY <1>1, <1>2, RegTyped
<1>5. core_phase' = "idle" /\ core_left' = 0 /\ core_out' = Zero
  BY <1>1, <1>2, <1>3, CoreRests
<1>6. Zero \in Elem /\ Origin \in Point
  BY ElemClosed DEF Origin, Affine, Point
<1>7. state' = IF pd_phase = "done" THEN 0 ELSE 16
  BY <1>1, <1>3 DEF fsm, pd_finish
<1>8. /\ PdLatency(pd_op) \in Nat /\ PdLatency(pd_op) >= 3
      /\ PdResult(pd_op) \in Point
  BY <1>2, DoublingTyped
<1>9. /\ pd_phase' \in {"idle", "busy", "done"} /\ pd_left' \in Nat
      /\ pd_phase' # "busy" => pd_left' = 0
      /\ pd_phase' = "busy" => pd_left' >= 1
      /\ pd_phase' # "idle" => pd_phase # "done"
      /\ pd_phase' = "idle" => pd_phase = "done"
      /\ pd_P_o' = IF pd_phase' = "done" THEN PdResult(pd_op) ELSE Origin
  BY <1>1, <1>2, <1>8, PdWorks DEF TypeOK
<1>10. pd_P_o' \in Point
  BY <1>6, <1>8, <1>9
<1>11. state # 0
  BY <1>3
<1>12. /\ pn_P_o' = Origin
       /\ \/ pn_phase' = "idle" /\ pn_left' = 0
          \/ pn_phase' = "busy" /\ pn_phase = "busy" /\ pn_left > 1
             /\ pn_left' = pn_left - 1 /\ pn_left' \in 1 .. 3
          \/ pn_phase' = "done" /\ pn_phase = "busy" /\ pn_left = 1 /\ pn_left' = 0
  <2>1. CASE pn_phase = "busy" /\ pn_left > 1
    <3>1. pn_left \in 1 .. 3
      BY <1>2, <2>1 DEF Negating
    <3>2. pn_left - 1 \in 1 .. 3
      BY <2>1, <3>1
    <3> QED
      BY <1>1, <1>2, <2>1, <3>2, PnEdges
  <2>2. CASE pn_phase = "busy" /\ pn_left = 1
    BY <1>1, <1>2, <2>2, PnEdges
  <2>3. CASE pn_phase # "busy"
    BY <1>1, <1>2, <1>11, <2>3, PnEdges DEF TypeOK
  <2> QED
    BY <1>1, <1>2, <2>1, <2>2, <2>3, PnEdges
<1>13. TypeOK'
  <2>1. state' \in 0 .. DoubleState
    BY <1>3, <1>7
  <2>2. pn_phase' \in {"idle", "busy", "done"} /\ pn_left' \in Nat
    BY <1>12
  <2> QED
    BY <1>1, <1>4, <1>5, <1>6, <1>9, <1>10, <1>12, <2>1, <2>2 DEF TypeOK
<1>14. Computing'
  BY <1>5 DEF Computing
<1>15. Doubling'
  <2>1. pd_phase' # "idle" => state' = DoubleState
    BY <1>3, <1>7, <1>9
  <2>2. pd_phase' = "done" => pd_op' = pd_op
    BY <1>1, <1>9 DEF pd_op
  <2> QED
    BY <1>9, <2>1, <2>2 DEF Doubling
<1>16. pn_phase' # "idle" => pd_phase' = "busy" /\ pd_left' > pn_left'
  <2> SUFFICES ASSUME pn_phase' # "idle"
               PROVE  pd_phase' = "busy" /\ pd_left' > pn_left'
    OBVIOUS
  <2>1. pn_phase = "busy" /\ pn_left' = pn_left - 1 /\ pn_left \in 1 .. 3
    BY <1>2, <1>12 DEF Negating
  <2>2. CASE pd_phase = "idle"
    <3>1. pd_phase' = "busy" /\ pd_left' = PdLatency(pd_op)
      BY <1>1, <1>2, <2>2, PdWorks
    <3> QED
      BY <1>8, <2>1, <3>1
  <2>3. CASE pd_phase # "idle"
    <3>1. pd_phase = "busy" /\ pd_left > pn_left /\ pd_left \in Nat
      BY <1>2, <2>1, <2>3 DEF Negating, TypeOK
    <3>2. pd_left > 1
      BY <2>1, <3>1
    <3>3. pd_phase' = "busy" /\ pd_left' = pd_left - 1
      BY <1>1, <1>2, <3>1, <3>2, PdWorks
    <3> QED
      BY <2>1, <3>1, <3>3
  <2> QED
    BY <2>2, <2>3
<1>17. Negating'
  <2>1. pn_phase' # "idle" => state' = DoubleState
    BY <1>3, <1>7, <1>9, <1>16
  <2>2. state' # 1
    BY <1>7
  <2>3. (pn_phase' # "busy" => pn_left' = 0) /\ (pn_phase' = "busy" => pn_left' \in 1 .. 3)
    BY <1>12
  <2> QED
    BY <1>12, <1>16, <2>1, <2>2, <2>3 DEF Negating
<1>18. Passing'
  <2>1. state' = DoubleState => equal(req'.P, req'.Q)
    BY <1>1, <1>2, <1>3, <1>7 DEF Passing
  <2>2. state' \in {0, DoubleState}
    BY <1>3, <1>7
  <2> QED
    BY <2>1, <2>2 DEF Passing
<1>19. Computed'
  <2>1. state' <= 15 => state' = 0
    BY <1>7
  <2>2. \A j \in Entries : ~(j + 1 < 0)
    BY <1>3
  <2> QED
    BY <1>3, <2>1, <2>2 DEF Computed, Entries
<1> QED
  BY <1>13, <1>14, <1>15, <1>17, <1>18, <1>19 DEF IInv

\* Every step keeps the inductive invariant.
LEMMA StepIInv ==
    ASSUME IInv, Next
    PROVE  IInv'
<1>1. rst_n' \in BOOLEAN /\ state \in 0 .. DoubleState
  BY InputsTyped DEF IInv, TypeOK
<1>2. state \in {0, 1, LastState, DoubleState} \/ state \in StepStates
  BY <1>1, ProgramTable
<1> QED
  BY <1>1, <1>2, ResetKeeps, IdleKeeps, NegationKeeps, ListKeeps, LastKeeps,
     DoublingKeeps

\* It holds at power-on.
LEMMA InitIInv == Init => IInv
<1> SUFFICES ASSUME Init
             PROVE  IInv
  OBVIOUS
<1>1. /\ core_phase = "idle" /\ core_left = 0 /\ core_out = Zero
      /\ pn_phase = "idle" /\ pn_left = 0 /\ pn_P_o = Origin
      /\ pd_phase = "idle" /\ pd_left = 0 /\ pd_P_o = Origin
  BY DEF Init, core0!Quiet, pn0!Quiet, pd0!Quiet
<1>2. /\ Zero \in Elem /\ Origin \in Point
      /\ 0 \in 0 .. DoubleState /\ 0 \in 0 .. MaxResets /\ 0 # 1 /\ 0 # DoubleState
  BY ElemClosed, ProgramTable, RequestsAssumption DEF Origin, Affine, Point
<1>3. TypeOK
  BY <1>1, <1>2 DEF Init, TypeOK
<1>4. Computing /\ Doubling /\ Negating /\ Passing
  BY <1>1, <1>2 DEF Init, Computing, Doubling, Negating, Passing
<1>5. Computed
  <2>1. \A j \in Entries : ~(j + 1 < 0)
    BY ProgramTable
  <2> QED
    BY <2>1 DEF Init, Computed, Entries
<1> QED
  BY <1>3, <1>4, <1>5 DEF IInv

\* It holds when nothing changes.
LEMMA StutterIInv ==
    ASSUME IInv, UNCHANGED vars
    PROVE  IInv'
  BY DEF vars, paRegs, coreVars, pnVars, pdVars, IInv, TypeOK, Computing, Doubling,
         Negating, Passing, Computed, OpAt, Line, core_op, core_start, pd_op

\* The inductive invariant holds in every reachable state.
THEOREM Invariance == Spec => []IInv
<1>1. IInv /\ [Next]_vars => IInv'
  BY StepIInv, StutterIInv
<1> QED
  BY <1>1, InitIInv, PTL DEF Spec

\* Every register keeps its width and the state machine its range.
THEOREM Typed == Spec => []TypeOK
<1>1. IInv => TypeOK
  BY DEF IInv
<1> QED
  BY <1>1, Invariance, PTL

\* The answer of pn0 that nobody waits for is gone before PA is idle again,
\* whatever the width: pd0 needs at least as many edges as pn0 and starts later.
THEOREM NegationIsGone == Spec => []NoStaleNegation
<1>1. IInv => NoStaleNegation
  BY ProgramTable DEF IInv, Negating, NoStaleNegation
<1> QED
  BY <1>1, Invariance, PTL

\* No operand line of core0 or pd0 moves from the cycle of a request to its
\* finish cycle, although sequ writes a register on every edge of the list.
THEOREM StableOperands == Spec => OperandsStable
<1>1. IInv /\ [Next]_vars =>
        [rst_n' => /\ core0!InFlight => core_op' = core_op
                   /\ pd0!InFlight => pd_op' = pd_op]_vars
  <2> SUFFICES ASSUME IInv, Next, rst_n'
               PROVE  /\ core0!InFlight => core_op' = core_op
                      /\ pd0!InFlight => pd_op' = pd_op
    OBVIOUS
  <2>1. fsm /\ sequ /\ rst_n' = TRUE
    BY InputsTyped
  <2>2. StepStates = 2 .. 14 /\ LastState = 15 /\ DoubleState = 16
    BY ProgramTable
  <2>3. ASSUME core0!InFlight
        PROVE  core_op' = core_op
    <3>1. state \in StepStates /\ core_phase # "done"
      BY <2>3 DEF core0!InFlight, core_start, IInv, Computing
    <3>2. req' = req
      BY <2>1, <3>1, PhaseIs, EdgeHolds DEF PhaseParts
    <3>3. state' = state
      BY <2>1, <2>2, <3>1 DEF fsm, core_finish
    <3> PICK k \in Entries : state = k + 1
      <4>1. state - 1 \in Entries /\ state = (state - 1) + 1
        BY <3>1, ProgramTable
      <4> QED
        BY <4>1
    <3>4. OpAt(k)' = OpAt(k)
      <4>1. k + 1 <= state
        BY <2>2, <3>1
      <4> QED
        BY <2>1, <3>2, <4>1, SequKeeps DEF IInv
    <3>5. core_op = OpAt(k) /\ StepOf(state) = PaProgram[k]
      BY CoreOpIs
    <3>6. core_op' = OpAt(k)'
      BY <3>1, <3>3, <3>5 DEF core_op, core_start, OpAt, StepOf
    <3> QED
      BY <3>4, <3>5, <3>6
  <2>4. ASSUME pd0!InFlight
        PROVE  pd_op' = pd_op
    <3>1. state = DoubleState /\ pd_phase # "done"
      BY <2>4 DEF pd0!InFlight, pd_start, IInv, Doubling
    <3>2. req' = req
      BY <2>1, <3>1, PhaseIs, EdgeHolds DEF PhaseParts
    <3> QED
      BY <3>2 DEF pd_op
  <2> QED
    BY <2>3, <2>4
<1> QED
  BY <1>1, Invariance, PTL DEF Spec, OperandsStable

-----------------------------------------------------------------------------
\* When the list has run, the last two registers are the chord construction.
LEMMA ListComputes ==
    ASSUME IInv, state = LastState
    PROVE  Affine(reg["P_ox"], reg["P_oy"]) = Chord(req.P, req.Q, req.a, req.p)
<1>1. \A j \in Entries : reg[PaProgram[j].dst] = CoreResult(OpAt(j))
  <2>1. \A j \in Entries : state <= LastState /\ j + 1 < state
    BY ProgramTable
  <2> QED
    BY <2>1 DEF IInv, Computed, Entries
<1>2. reg["Px_Qx"] = Add(req.P.x, req.Q.x)
  BY <1>1, ProgramTable DEF Op, OpAt, Line, CoreResult
<1>3. reg["Py_Qy"] = Add(req.P.y, req.Q.y)
  BY <1>1, ProgramTable DEF Op, OpAt, Line, CoreResult
<1>4. reg["inv_Px_Qx"] = Inv(reg["Px_Qx"], req.p)
  BY <1>1, ProgramTable DEF Op, OpAt, Line, CoreResult
<1>5. reg["lamb"] = Mul(reg["Py_Qy"], reg["inv_Px_Qx"], req.p)
  BY <1>1, ProgramTable DEF Op, OpAt, Line, CoreResult
<1>6. reg["lamb_2"] = Mul(reg["lamb"], reg["lamb"], req.p)
  BY <1>1, ProgramTable DEF Op, OpAt, Line, CoreResult
<1>7. reg["tempx0"] = Add(reg["lamb_2"], reg["lamb"])
  BY <1>1, ProgramTable DEF Op, OpAt, Line, CoreResult
<1>8. reg["tempx1"] = Add(req.P.x, req.Q.x)
  BY <1>1, ProgramTable DEF Op, OpAt, Line, CoreResult
<1>9. reg["tempx2"] = Add(reg["tempx0"], reg["tempx1"])
  BY <1>1, ProgramTable DEF Op, OpAt, Line, CoreResult
<1>10. reg["P_ox"] = Add(reg["tempx2"], req.a)
  BY <1>1, ProgramTable DEF Op, OpAt, Line, CoreResult
<1>11. reg["Px_X"] = Add(req.P.x, reg["P_ox"])
  BY <1>1, ProgramTable DEF Op, OpAt, Line, CoreResult
<1>12. reg["lamb_Px_X"] = Mul(reg["lamb"], reg["Px_X"], req.p)
  BY <1>1, ProgramTable DEF Op, OpAt, Line, CoreResult
<1>13. reg["tempy0"] = Add(reg["lamb_Px_X"], reg["P_ox"])
  BY <1>1, ProgramTable DEF Op, OpAt, Line, CoreResult
<1>14. reg["P_oy"] = Add(reg["tempy0"], req.P.y)
  BY <1>1, ProgramTable DEF Op, OpAt, Line, CoreResult
<1> QED
  BY <1>2, <1>3, <1>4, <1>5, <1>6, <1>7, <1>8, <1>9, <1>10, <1>11, <1>12, <1>13,
     <1>14 DEF Chord

\* The output in the finish cycle, and in every other cycle.
OutputParts == (finish => P_o = PaResult(req)) /\ (~finish => P_o = Origin)

\* The output shows the result while finish is high and else the zero vector.
LEMMA OutputIs == IInv => OutputParts
<1> SUFFICES ASSUME IInv
             PROVE  OutputParts
  OBVIOUS
<1>1. LastState = 15 /\ DoubleState = 16
  BY ProgramTable
<1>2. CASE finish /\ state = 1
  <2>1. pn_phase = "done" /\ PaShortcut(req) /\ ~equal(req.P, req.Q)
    <3>1. pa_phase = "done"
      BY <1>2 DEF pa_phase
    <3>2. ~equal(req.P, req.Q)
      BY <1>1, <1>2 DEF IInv, Passing
    <3> QED
      BY <1>2, <3>1, <3>2, PhaseIs DEF PhaseParts
  <2>2. eq <=> equal(req.P, Origin)
    BY <1>2 DEF eq, IInv, Negating
  <2>3. P_o = IF equal(req.P, Origin) THEN AtInfinity(req.P)
              ELSE IF req.P.inf THEN req.Q ELSE req.P
    BY <1>1, <1>2, <2>2 DEF P_o
  <2> QED
    BY <1>2, <2>1, <2>3 DEF OutputParts, PaResult, PaShortcut
<1>3. CASE finish /\ state = LastState
  <2>1. ~equal(req.P, req.Q) /\ ~PaShortcut(req)
    BY <1>1, <1>3 DEF IInv, Passing
  <2>2. P_o = Chord(req.P, req.Q, req.a, req.p)
    BY <1>1, <1>3, ListComputes DEF P_o
  <2>3. ~equal(req.P, Origin) /\ ~req.P.inf /\ ~req.Q.inf
    BY <2>1 DEF PaShortcut
  <2>4. PaResult(req) = Chord(req.P, req.Q, req.a, req.p)
    BY <2>1, <2>3 DEF PaResult
  <2> QED
    BY <1>3, <2>2, <2>4 DEF OutputParts
<1>4. CASE finish /\ state = DoubleState
  <2>1. pd_phase = "done" /\ equal(req.P, req.Q)
    BY <1>1, <1>4 DEF finish, pd_finish, IInv, Passing
  <2>2. P_o = PdResult(pd_op)
    BY <1>1, <1>4, <2>1 DEF P_o, IInv, Doubling
  <2> QED
    BY <1>4, <2>1, <2>2 DEF OutputParts, PaResult, pd_op
<1>5. CASE ~finish
  BY <1>5 DEF P_o, OutputParts
<1> QED
  BY <1>2, <1>3, <1>4, <1>5 DEF finish

\* The same in the next state.
LEMMA OutputWillBe == IInv' => OutputParts'
  BY OutputIs, PTL

\* Where comparing P with the all-zero vector and with the negative of Q say
\* the same, the missing negation makes no difference.
LEMMA ResultIsGolden ==
    ASSUME TypeOK, ~NegationMatters
    PROVE  PaResult(req) = point_addition(req.P, req.Q, req.a, req.p)
<1>1. equal(req.P, point_negation(req.Q)) <=> equal(req.P, Origin)
  BY DEF NegationMatters, equal
<1>2. CASE equal(req.P, req.Q)
  <2>1. equal(req.P, Origin) \/ req.P.inf
           <=> equal(req.P, point_negation(req.P)) \/ req.P.inf
    <3>1. CASE req.P.inf
      BY <3>1
    <3>2. CASE ~req.P.inf
      <4>1. req.P.x = req.Q.x /\ req.P.y = req.Q.y
        BY <1>2, <3>2 DEF equal
      <4>2. point_negation(req.P) = point_negation(req.Q)
        BY <4>1 DEF point_negation
      <4> QED
        BY <1>1, <4>2
    <3> QED
      BY <3>1, <3>2
  <2> DEFINE r == [P |-> req.P, a |-> req.a, p |-> req.p]
  <2>2. r.P = req.P /\ r.a = req.a /\ r.p = req.p
    OBVIOUS
  <2>3. PdResult(r) = point_doubling(req.P, req.a, req.p)
    BY <2>1, <2>2 DEF PdResult, point_doubling
  <2>4. PaResult(req) = PdResult(r)
    BY <1>2 DEF PaResult
  <2>5. point_addition(req.P, req.Q, req.a, req.p)
          = point_doubling(req.P, req.a, req.p)
    BY <1>2 DEF point_addition
  <2> QED
    BY <2>3, <2>4, <2>5
<1>3. CASE ~equal(req.P, req.Q)
  BY <1>1, <1>3 DEF PaResult, point_addition
<1> QED
  BY <1>2, <1>3

\* PA computes the golden model's point_addition.
THEOREM AddsAsGolden == Spec => []GoldenAddition
<1>1. IInv => GoldenAddition
  BY OutputIs, ResultIsGolden DEF OutputParts, GoldenAddition, IInv
<1> QED
  BY <1>1, Invariance, PTL

-----------------------------------------------------------------------------
(***************************************************************************)
(* The handshake: every step of PA is a step of UnitSpec or a stutter.     *)
(***************************************************************************)
\* The edges from an entry of the list to its end.
LEMMA ListEdges ==
    /\ \A k \in 1 .. 14 : EdgesFrom(PaProgram, k) \in Nat
    /\ EdgesFrom(PaProgram, 14) = 0
    /\ \A k \in Entries : EdgesFrom(PaProgram, k)
                            = CoreLatency(OpAt(k)) + 2 + EdgesFrom(PaProgram, k + 1)
<1>1. /\ Len(PaProgram) = 13 /\ Entries = 1 .. 13
      /\ \A k \in 1 .. Len(PaProgram) : PaProgram[k].mode \in Modes
  BY ProgramTable, ProgramTyped
<1>2. /\ \A k \in 1 .. 14 : EdgesFrom(PaProgram, k) \in Nat
      /\ EdgesFrom(PaProgram, 14) = 0
      /\ \A k \in Entries : EdgesFrom(PaProgram, k)
                              = CostOf(PaProgram[k]) + EdgesFrom(PaProgram, k + 1)
  <2>1. Len(PaProgram) \in Nat
    BY <1>1
  <2>2. /\ \A k \in 1 .. Len(PaProgram) + 1 : EdgesFrom(PaProgram, k) \in Nat
        /\ EdgesFrom(PaProgram, Len(PaProgram) + 1) = 0
        /\ \A k \in 1 .. Len(PaProgram) : EdgesFrom(PaProgram, k)
              = CostOf(PaProgram[k]) + EdgesFrom(PaProgram, k + 1)
    BY <1>1, <2>1, EdgesUnfold, Zenon
  <2> QED
    BY <1>1, <2>2
<1>3. ASSUME NEW k \in Entries
      PROVE  CostOf(PaProgram[k]) = CoreLatency(OpAt(k)) + 2
  <2>1. PaProgram[k].mode \in Modes
    BY ProgramTyped
  <2>2. /\ OpAt(k).mode = PaProgram[k].mode
        /\ [Idle EXCEPT !.mode = PaProgram[k].mode].mode = PaProgram[k].mode
    BY DEF OpAt, Idle
  <2> QED
    BY <2>1, <2>2 DEF CostOf, CoreLatency, Modes
<1> QED
  BY <1>2, <1>3

\* The latency of a request by the path it takes.
LEMMA LatencyIs ==
    /\ PnLatency(req.P) = 3
    /\ equal(req.P, req.Q) => PaLatency(req) = 1 + PdLatency(pd_op)
    /\ ~equal(req.P, req.Q) => PaLatency(req) =
          3 + (IF PaShortcut(req) THEN 0 ELSE 1 + EdgesFrom(PaProgram, 1))
<1>1. PnLatency(req.P) = 3
  BY DEF PnLatency, CoreLatency, Idle
<1> QED
  BY <1>1 DEF PaLatency, pd_op

\* The edges PA still needs, by where it is.
EdgesLeftParts ==
    /\ pa_phase # "busy" => EdgesLeft = 0
    /\ pa_phase = "busy" /\ state = 1 =>
         EdgesLeft = pn_left + (IF PaShortcut(req) THEN 0
                                ELSE 1 + EdgesFrom(PaProgram, 1))
    /\ pa_phase = "busy" /\ state = DoubleState =>
         EdgesLeft = IF pd_phase = "idle" THEN 1 + PdLatency(pd_op) ELSE pd_left
    /\ \A k \in Entries : state = k + 1 =>
         EdgesLeft = CASE core_phase = "idle" -> EdgesFrom(PaProgram, k)
                       [] core_phase = "busy" -> core_left + 1
                                                 + EdgesFrom(PaProgram, k + 1)
                       [] core_phase = "done" -> 1 + EdgesFrom(PaProgram, k + 1)

\* PointAdd's EdgesLeft, spelled out by the state PA is in.
LEMMA EdgesLeftIs == IInv => EdgesLeftParts
<1> SUFFICES ASSUME IInv
             PROVE  EdgesLeftParts
  OBVIOUS
<1>1. pa_phase # "busy" => EdgesLeft = 0
  BY DEF EdgesLeft
<1>2. ASSUME pa_phase = "busy", state = 1
      PROVE  EdgesLeft = pn_left + (IF PaShortcut(req) THEN 0
                                    ELSE 1 + EdgesFrom(PaProgram, 1))
  <2>1. EdgesLeft = pn_left + PaLatency(req) - PnLatency(req.P)
    BY <1>2, ProgramTable DEF EdgesLeft
  <2>2. pn_left \in Nat /\ EdgesFrom(PaProgram, 1) \in Nat
    BY ListEdges DEF IInv, TypeOK
  <2>3. ~equal(req.P, req.Q)
    BY <1>2, ProgramTable DEF IInv, Passing
  <2> QED
    BY <2>1, <2>2, <2>3, LatencyIs
<1>3. ASSUME pa_phase = "busy", state = DoubleState
      PROVE  EdgesLeft = IF pd_phase = "idle" THEN 1 + PdLatency(pd_op) ELSE pd_left
  BY <1>3, ProgramTable DEF EdgesLeft
<1>4. ASSUME NEW k \in Entries, state = k + 1
      PROVE  EdgesLeft = CASE core_phase = "idle" -> EdgesFrom(PaProgram, k)
                           [] core_phase = "busy" -> core_left + 1
                                                     + EdgesFrom(PaProgram, k + 1)
                           [] core_phase = "done" -> 1 + EdgesFrom(PaProgram, k + 1)
  <2>1. /\ state \in StepStates /\ state # 1 /\ state # DoubleState
        /\ state - 1 = k /\ state = k + 1
    BY <1>4, ProgramTable
  <2>2. pa_phase = "busy"
    BY <2>1, PhaseIs DEF PhaseParts
  <2>3. EdgesLeft = CASE core_phase = "idle" -> EdgesFrom(PaProgram, state - 1)
                      [] core_phase = "busy" -> core_left + 1
                                                + EdgesFrom(PaProgram, state)
                      [] core_phase = "done" -> 1 + EdgesFrom(PaProgram, state)
    BY <2>1, <2>2 DEF EdgesLeft
  <2> QED
    BY <2>1, <2>3
<1> QED
  BY <1>1, <1>2, <1>3, <1>4 DEF EdgesLeftParts

\* The same in the next state.
LEMMA EdgesLeftWillBe == IInv' => EdgesLeftParts'
  BY EdgesLeftIs, PTL

\* What the contract says of an edge in each state, from what is known before
\* and after it.
EdgeFacts ==
    /\ TypeOK /\ Computing /\ Doubling /\ Negating /\ Passing
    /\ EdgesLeftParts /\ PhaseParts /\ OutputParts

\* They hold in every state,
LEMMA FactsAre == IInv => EdgeFacts
  BY EdgesLeftIs, PhaseIs, OutputIs DEF IInv, EdgeFacts

\* and in the next.
LEMMA FactsWillBe == IInv' => EdgeFacts'
  BY FactsAre, PTL

\* An edge in state 0: nothing to do, or a request is accepted.
LEMMA IdleRefines ==
    ASSUME IInv, IInv', Next, rst_n' = TRUE, state = 0
    PROVE  Unit!Edge
<1>1. EdgeFacts /\ EdgeFacts' /\ fsm /\ core0!Edge /\ pn0!Edge /\ pd0!Edge
  BY FactsAre, FactsWillBe, InputsTyped, EdgeHolds
<1>2. StepStates = 2 .. 14 /\ LastState = 15 /\ DoubleState = 16
  BY ProgramTable
<1>3. pa_phase = "idle" /\ P_o = Origin /\ EdgesLeft = 0 /\ pn_phase = "idle"
  BY <1>1, <1>2 DEF EdgeFacts, PhaseParts, OutputParts, EdgesLeftParts, Negating
<1>4. CASE ~start
  <2>1. state' = 0
    BY <1>1, <1>2, <1>4 DEF fsm
  <2>2. pa_phase' = "idle"
    BY <1>1, <2>1 DEF EdgeFacts, PhaseParts
  <2>3. P_o' = Origin /\ EdgesLeft' = 0
    BY <1>1, <2>2 DEF EdgeFacts, PhaseParts, OutputParts, EdgesLeftParts
  <2> QED
    BY <1>3, <1>4, <2>2, <2>3 DEF Unit!Edge, Unit!Rest
<1>5. CASE start
  <2>1. req' = req
    BY <1>1, <1>5, EdgeHolds DEF EdgeFacts, PhaseParts
  <2>2. pn_phase' = "busy" /\ pn_left' = 3
    BY <1>1, <1>3, <1>5, PnEdges DEF EdgeFacts
  <2>3. pd_phase' = "idle"
    BY <1>1, <1>2, PdRests DEF EdgeFacts
  <2>4. pd_op' = pd_op
    BY <2>1 DEF pd_op
  <2>5. CASE equal(req.P, req.Q)
    <3>1. state' = 16
      BY <1>1, <1>2, <1>5, <2>5 DEF fsm, eq
    <3>2. pa_phase' = "busy"
      BY <1>1, <1>2, <2>3, <3>1 DEF EdgeFacts, PhaseParts
    <3>3. P_o' = Origin
      BY <1>1, <3>2 DEF EdgeFacts, PhaseParts, OutputParts
    <3>4. EdgesLeft' = 1 + PdLatency(pd_op)
      BY <1>1, <1>2, <2>3, <2>4, <3>1, <3>2 DEF EdgeFacts, EdgesLeftParts
    <3>5. EdgesLeft' = PaLatency(req)
      BY <2>5, <3>4, LatencyIs
    <3> QED
      BY <1>3, <1>5, <3>2, <3>3, <3>5 DEF Unit!Edge, Unit!Accept
  <2>6. CASE ~equal(req.P, req.Q)
    <3>1. state' = 1
      BY <1>1, <1>2, <1>5, <2>6 DEF fsm, eq
    <3>2. pa_phase' = "busy"
      BY <1>1, <2>2, <3>1 DEF EdgeFacts, PhaseParts
    <3>3. P_o' = Origin
      BY <1>1, <3>2 DEF EdgeFacts, PhaseParts, OutputParts
    <3>4. EdgesLeft' = 3 + (IF PaShortcut(req) THEN 0 ELSE 1 + EdgesFrom(PaProgram, 1))
      BY <1>1, <2>1, <2>2, <3>1, <3>2 DEF EdgeFacts, EdgesLeftParts
    <3>5. EdgesLeft' = PaLatency(req)
      BY <2>6, <3>4, LatencyIs
    <3> QED
      BY <1>3, <1>5, <3>2, <3>3, <3>5 DEF Unit!Edge, Unit!Accept
  <2> QED
    BY <2>5, <2>6
<1> QED
  BY <1>4, <1>5

\* An edge in state 1: pn0 works on, is done, or its answer is taken.
LEMMA NegationRefines ==
    ASSUME IInv, IInv', Next, rst_n' = TRUE, state = 1
    PROVE  Unit!Edge
<1>1. EdgeFacts /\ EdgeFacts' /\ fsm /\ core0!Edge /\ pn0!Edge /\ pd0!Edge
  BY FactsAre, FactsWillBe, InputsTyped, EdgeHolds
<1>2. StepStates = 2 .. 14 /\ LastState = 15 /\ DoubleState = 16 /\ Entries = 1 .. 13
  BY ProgramTable
<1>3. state' = IF pn_phase # "done" THEN 1 ELSE IF PaShortcut(req) THEN 0 ELSE 2
  <2>1. Shortcut <=> PaShortcut(req)
    BY <1>1 DEF Shortcut, PaShortcut, eq, EdgeFacts, Negating
  <2> QED
    BY <1>1, <1>2, <2>1 DEF fsm, pn_finish
<1>4. /\ EdgesFrom(PaProgram, 1) \in Nat /\ EdgesFrom(PaProgram, 1) > 0
      /\ pn_left \in Nat
  <2>1. CoreLatency(OpAt(1)) \in Nat /\ 1 \in Entries
    BY <1>1, <1>2, OpTyped, LatencyPositive DEF Operation, EdgeFacts
  <2>2. EdgesFrom(PaProgram, 1) = CoreLatency(OpAt(1)) + 2 + EdgesFrom(PaProgram, 2)
        /\ EdgesFrom(PaProgram, 2) \in Nat
    BY <1>2, <2>1, ListEdges
  <2> QED
    BY <1>1, <2>1, <2>2 DEF EdgeFacts, TypeOK
<1>5. pn_phase = "busy" \/ pn_phase = "done"
  BY <1>1 DEF EdgeFacts, TypeOK, Negating
<1>6. CASE pn_phase = "busy"
  <2>1. pa_phase = "busy" /\ P_o = Origin
    BY <1>1, <1>6 DEF EdgeFacts, PhaseParts, OutputParts
  <2>2. req' = req
    BY <1>1, <2>1, EdgeHolds DEF EdgeFacts, PhaseParts
  <2>3. EdgesLeft = pn_left + (IF PaShortcut(req) THEN 0
                               ELSE 1 + EdgesFrom(PaProgram, 1))
    BY <1>1, <2>1 DEF EdgeFacts, EdgesLeftParts
  <2>4. state' = 1
    BY <1>3, <1>6
  <2>5. CASE pn_left > 1
    <3>1. pn_phase' = "busy" /\ pn_left' = pn_left - 1
      BY <1>1, <1>6, <2>5, PnEdges DEF EdgeFacts
    <3>2. pa_phase' = "busy"
      BY <1>1, <2>4, <3>1 DEF EdgeFacts, PhaseParts
    <3>3. P_o' = Origin
      BY <1>1, <3>2 DEF EdgeFacts, PhaseParts, OutputParts
    <3>4. EdgesLeft' = pn_left - 1 + (IF PaShortcut(req) THEN 0
                                      ELSE 1 + EdgesFrom(PaProgram, 1))
      BY <1>1, <2>2, <2>4, <3>1, <3>2 DEF EdgeFacts, EdgesLeftParts
    <3>5. EdgesLeft > 1 /\ EdgesLeft' = EdgesLeft - 1
      BY <1>4, <2>3, <2>5, <3>4
    <3> QED
      BY <2>1, <3>2, <3>3, <3>5 DEF Unit!Edge, Unit!Work
  <2>6. CASE pn_left = 1
    <3>1. pn_phase' = "done" /\ pn_left' = 0
      BY <1>1, <1>6, <2>6, PnEdges DEF EdgeFacts
    <3>2. CASE PaShortcut(req)
      <4>1. pa_phase' = "done"
        BY <1>1, <2>2, <2>4, <3>1, <3>2 DEF EdgeFacts, PhaseParts
      <4>2. P_o' = PaResult(req)
        BY <1>1, <2>2, <4>1 DEF EdgeFacts, PhaseParts, OutputParts
      <4>3. EdgesLeft = 1 /\ EdgesLeft' = 0
        BY <1>1, <2>3, <2>6, <3>2, <4>1 DEF EdgeFacts, EdgesLeftParts
      <4> QED
        BY <2>1, <4>1, <4>2, <4>3 DEF Unit!Edge, Unit!Complete
    <3>3. CASE ~PaShortcut(req)
      <4>1. pa_phase' = "busy"
        BY <1>1, <2>2, <2>4, <3>1, <3>3 DEF EdgeFacts, PhaseParts
      <4>2. P_o' = Origin
        BY <1>1, <4>1 DEF EdgeFacts, PhaseParts, OutputParts
      <4>3. EdgesLeft' = 0 + (1 + EdgesFrom(PaProgram, 1))
        BY <1>1, <2>2, <2>4, <3>1, <3>3, <4>1 DEF EdgeFacts, EdgesLeftParts
      <4>4. EdgesLeft > 1 /\ EdgesLeft' = EdgesLeft - 1
        BY <1>4, <2>3, <2>6, <3>3, <4>3
      <4> QED
        BY <2>1, <4>1, <4>2, <4>4 DEF Unit!Edge, Unit!Work
    <3> QED
      BY <3>2, <3>3
  <2> QED
    BY <1>1, <1>6, <2>5, <2>6, PnEdges DEF EdgeFacts
<1>7. CASE pn_phase = "done" /\ PaShortcut(req)
  <2>1. pa_phase = "done" /\ EdgesLeft = 0
    BY <1>1, <1>7 DEF EdgeFacts, PhaseParts, EdgesLeftParts
  <2>2. state' = 0
    BY <1>3, <1>7
  <2>3. pa_phase' = "idle"
    BY <1>1, <2>2 DEF EdgeFacts, PhaseParts
  <2>4. P_o' = Origin /\ EdgesLeft' = 0
    BY <1>1, <2>3 DEF EdgeFacts, PhaseParts, OutputParts, EdgesLeftParts
  <2> QED
    BY <2>1, <2>3, <2>4 DEF Unit!Edge, Unit!Release
<1>8. CASE pn_phase = "done" /\ ~PaShortcut(req)
  <2>1. pa_phase = "busy" /\ P_o = Origin
    BY <1>1, <1>8 DEF EdgeFacts, PhaseParts, OutputParts
  <2>2. state' = 2 /\ core_phase' = "idle" /\ 2 \in StepStates /\ 1 \in Entries
    BY <1>1, <1>2, <1>3, <1>8, CoreRests DEF EdgeFacts
  <2>3. pa_phase' = "busy"
    BY <1>1, <2>2 DEF EdgeFacts, PhaseParts
  <2>4. P_o' = Origin
    BY <1>1, <2>3 DEF EdgeFacts, PhaseParts, OutputParts
  <2>5. EdgesLeft = 0 + (1 + EdgesFrom(PaProgram, 1))
    BY <1>1, <1>8, <2>1 DEF EdgeFacts, EdgesLeftParts, Negating
  <2>6. EdgesLeft' = EdgesFrom(PaProgram, 1)
    <3>1. state' = 1 + 1
      BY <2>2
    <3> QED
      BY <1>1, <2>2, <3>1 DEF EdgeFacts, EdgesLeftParts
  <2>7. EdgesLeft > 1 /\ EdgesLeft' = EdgesLeft - 1
    BY <1>4, <2>5, <2>6
  <2> QED
    BY <2>1, <2>3, <2>4, <2>7 DEF Unit!Edge, Unit!Work
<1> QED
  BY <1>5, <1>6, <1>7, <1>8

\* An edge in a state of the list.
LEMMA ListRefines ==
    ASSUME IInv, IInv', Next, rst_n' = TRUE, state \in StepStates
    PROVE  Unit!Edge
<1>1. EdgeFacts /\ EdgeFacts' /\ fsm /\ core0!Edge /\ pn0!Edge /\ pd0!Edge
  BY FactsAre, FactsWillBe, InputsTyped, EdgeHolds
<1>2. StepStates = 2 .. 14 /\ LastState = 15 /\ DoubleState = 16 /\ Entries = 1 .. 13
  BY ProgramTable
<1>3. pa_phase = "busy" /\ P_o = Origin
  BY <1>1 DEF EdgeFacts, PhaseParts, OutputParts
<1>4. req' = req
  BY <1>1, EdgeHolds DEF EdgeFacts, PhaseParts
<1> PICK k \in Entries : state = k + 1
  <2>1. state - 1 \in Entries /\ state = (state - 1) + 1
    BY <1>2
  <2> QED
    BY <2>1
<1> DEFINE rest == EdgesFrom(PaProgram, k + 1)
<1>5. k \in Int /\ k + 1 \in 1 .. 14 /\ core_op = OpAt(k)
  BY <1>2, CoreOpIs
<1>6. CoreLatency(OpAt(k)) \in Nat /\ rest \in Nat /\ core_left \in Nat
      /\ EdgesFrom(PaProgram, k) = CoreLatency(OpAt(k)) + 2 + rest
  BY <1>1, <1>5, OpTyped, LatencyPositive, ListEdges DEF Operation, EdgeFacts, TypeOK
<1>7. EdgesLeft = CASE core_phase = "idle" -> EdgesFrom(PaProgram, k)
                    [] core_phase = "busy" -> core_left + 1 + rest
                    [] core_phase = "done" -> 1 + rest
  BY <1>1 DEF EdgeFacts, EdgesLeftParts
<1>8. state' = IF core_phase = "done" THEN k + 2 ELSE k + 1
  <2>1. state' = IF core_phase = "done" THEN state + 1 ELSE state
    BY <1>1, <1>2 DEF fsm, core_finish
  <2>2. state + 1 = k + 2
    BY <1>5
  <2> QED
    BY <2>1, <2>2
<1>9. core_phase \in {"idle", "busy", "done"}
  BY <1>1 DEF EdgeFacts, TypeOK
<1>10. CASE core_phase # "done"
  <2>1. state' = k + 1 /\ state' \in StepStates
    BY <1>8, <1>10
  <2>2. pa_phase' = "busy"
    BY <1>1, <2>1 DEF EdgeFacts, PhaseParts
  <2>3. P_o' = Origin
    BY <1>1, <2>2 DEF EdgeFacts, PhaseParts, OutputParts
  <2>4. EdgesLeft' = CASE core_phase' = "idle" -> EdgesFrom(PaProgram, k)
                       [] core_phase' = "busy" -> core_left' + 1 + rest
                       [] core_phase' = "done" -> 1 + rest
    BY <1>1, <2>1 DEF EdgeFacts, EdgesLeftParts
  <2> HIDE DEF rest
  <2>5. CASE core_phase = "idle"
    <3>1. core_phase' = "busy" /\ core_left' = CoreLatency(OpAt(k))
      BY <1>1, <1>5, <2>5, CoreWorks DEF EdgeFacts
    <3>2. EdgesLeft = CoreLatency(OpAt(k)) + 2 + rest
          /\ EdgesLeft' = CoreLatency(OpAt(k)) + 1 + rest
      BY <1>6, <1>7, <2>4, <2>5, <3>1
    <3> QED
      BY <1>3, <1>6, <2>2, <2>3, <3>2 DEF Unit!Edge, Unit!Work
  <2>6. CASE core_phase = "busy" /\ core_left > 1
    <3>1. core_phase' = "busy" /\ core_left' = core_left - 1
      BY <1>1, <2>6, CoreWorks DEF EdgeFacts
    <3>2. EdgesLeft = core_left + 1 + rest /\ EdgesLeft' = core_left - 1 + 1 + rest
      BY <1>7, <2>4, <2>6, <3>1
    <3> QED
      BY <1>3, <1>6, <2>2, <2>3, <2>6, <3>2 DEF Unit!Edge, Unit!Work
  <2>7. CASE core_phase = "busy" /\ core_left = 1
    <3>1. core_phase' = "done"
      BY <1>1, <2>7, CoreWorks DEF EdgeFacts
    <3>2. EdgesLeft = 1 + 1 + rest /\ EdgesLeft' = 1 + rest
      BY <1>7, <2>4, <2>7, <3>1
    <3> QED
      BY <1>3, <1>6, <2>2, <2>3, <3>2 DEF Unit!Edge, Unit!Work
  <2> QED
    BY <1>1, <1>9, <1>10, <2>5, <2>6, <2>7, CoreWorks DEF EdgeFacts
<1>11. CASE core_phase = "done" /\ k # 13
  <2>1. state' = (k + 1) + 1 /\ k + 1 \in Entries /\ state' \in StepStates
    BY <1>2, <1>5, <1>8, <1>11
  <2>2. pa_phase' = "busy" /\ core_phase' = "idle"
    BY <1>1, <1>11, <2>1, CoreWorks DEF EdgeFacts, PhaseParts
  <2>3. P_o' = Origin
    BY <1>1, <2>2 DEF EdgeFacts, PhaseParts, OutputParts
  <2>4. EdgesLeft' = rest
    BY <1>1, <2>1, <2>2 DEF EdgeFacts, EdgesLeftParts
  <2>5. rest > 0
    <3>1. CoreLatency(OpAt(k + 1)) \in Nat /\ (k + 1) + 1 \in 1 .. 14
      BY <1>1, <1>2, <2>1, OpTyped, LatencyPositive DEF Operation, EdgeFacts
    <3>2. EdgesFrom(PaProgram, k + 1) = CoreLatency(OpAt(k + 1)) + 2
                                        + EdgesFrom(PaProgram, (k + 1) + 1)
          /\ EdgesFrom(PaProgram, (k + 1) + 1) \in Nat
      BY <2>1, <3>1, ListEdges
    <3> QED
      BY <3>1, <3>2
  <2>6. EdgesLeft = 1 + rest
    BY <1>7, <1>11
  <2> HIDE DEF rest
  <2> QED
    BY <1>3, <1>6, <2>2, <2>3, <2>4, <2>5, <2>6 DEF Unit!Edge, Unit!Work
<1>12. CASE core_phase = "done" /\ k = 13
  <2>1. state' = LastState
    BY <1>2, <1>8, <1>12
  <2>2. pa_phase' = "done"
    BY <1>1, <2>1 DEF EdgeFacts, PhaseParts
  <2>3. EdgesLeft = 1 /\ EdgesLeft' = 0
    <3>1. rest = 0
      BY <1>12, ListEdges
    <3> QED
      BY <1>1, <1>7, <1>12, <2>2, <3>1 DEF EdgeFacts, EdgesLeftParts
  <2>4. P_o' = PaResult(req)
    BY <1>1, <1>4, <2>2 DEF EdgeFacts, PhaseParts, OutputParts
  <2> QED
    BY <1>3, <2>2, <2>3, <2>4 DEF Unit!Edge, Unit!Complete
<1> QED
  BY <1>10, <1>11, <1>12

\* The edge that ends the finish cycle of the list.
LEMMA LastRefines ==
    ASSUME IInv, IInv', Next, rst_n' = TRUE, state = LastState
    PROVE  Unit!Edge
<1>1. EdgeFacts /\ EdgeFacts' /\ fsm
  BY FactsAre, FactsWillBe, InputsTyped
<1>2. StepStates = 2 .. 14 /\ LastState = 15 /\ DoubleState = 16
  BY ProgramTable
<1>3. pa_phase = "done" /\ EdgesLeft = 0
  BY <1>1, <1>2 DEF EdgeFacts, PhaseParts, EdgesLeftParts
<1>4. state' = 0
  BY <1>1, <1>2 DEF fsm
<1>5. pa_phase' = "idle"
  BY <1>1, <1>4 DEF EdgeFacts, PhaseParts
<1>6. P_o' = Origin /\ EdgesLeft' = 0
  BY <1>1, <1>5 DEF EdgeFacts, PhaseParts, OutputParts, EdgesLeftParts
<1> QED
  BY <1>3, <1>5, <1>6 DEF Unit!Edge, Unit!Release

\* An edge while pd0 doubles: the contract of pd0, one edge later.
LEMMA DoublingRefines ==
    ASSUME IInv, IInv', Next, rst_n' = TRUE, state = DoubleState
    PROVE  Unit!Edge
<1>1. EdgeFacts /\ EdgeFacts' /\ fsm /\ core0!Edge /\ pn0!Edge /\ pd0!Edge
  BY FactsAre, FactsWillBe, InputsTyped, EdgeHolds
<1>2. StepStates = 2 .. 14 /\ LastState = 15 /\ DoubleState = 16
  BY ProgramTable
<1>3. state' = IF pd_phase = "done" THEN 0 ELSE 16
  BY <1>1, <1>2 DEF fsm, pd_finish
<1>4. pd_phase \in {"idle", "busy", "done"} /\ pd_left \in Nat
  BY <1>1 DEF EdgeFacts, TypeOK
<1>5. CASE pd_phase = "done"
  <2>1. pa_phase = "done" /\ EdgesLeft = 0
    BY <1>1, <1>5 DEF EdgeFacts, PhaseParts, EdgesLeftParts
  <2>2. state' = 0
    BY <1>3, <1>5
  <2>3. pa_phase' = "idle"
    BY <1>1, <2>2 DEF EdgeFacts, PhaseParts
  <2>4. P_o' = Origin /\ EdgesLeft' = 0
    BY <1>1, <2>3 DEF EdgeFacts, PhaseParts, OutputParts, EdgesLeftParts
  <2> QED
    BY <2>1, <2>3, <2>4 DEF Unit!Edge, Unit!Release
<1>6. CASE pd_phase # "done"
  <2>1. pa_phase = "busy" /\ P_o = Origin
    BY <1>1, <1>6 DEF EdgeFacts, PhaseParts, OutputParts
  <2>2. req' = req
    BY <1>1, <2>1, EdgeHolds DEF EdgeFacts, PhaseParts
  <2>3. state' = DoubleState
    BY <1>2, <1>3, <1>6
  <2>4. EdgesLeft = IF pd_phase = "idle" THEN 1 + PdLatency(pd_op) ELSE pd_left
    BY <1>1, <2>1 DEF EdgeFacts, EdgesLeftParts
  <2>5. CASE pd_phase = "idle"
    <3>1. pd_phase' = "busy" /\ pd_left' = PdLatency(pd_op)
      BY <1>1, <2>5, PdWorks DEF EdgeFacts
    <3>2. pa_phase' = "busy"
      BY <1>1, <2>3, <3>1 DEF EdgeFacts, PhaseParts
    <3>3. P_o' = Origin
      BY <1>1, <3>2 DEF EdgeFacts, PhaseParts, OutputParts
    <3>4. EdgesLeft' = PdLatency(pd_op)
      BY <1>1, <2>3, <3>1, <3>2 DEF EdgeFacts, EdgesLeftParts
    <3>5. EdgesLeft > 1 /\ EdgesLeft' = EdgesLeft - 1
      BY <1>1, <2>4, <2>5, <3>4, DoublingTyped DEF EdgeFacts
    <3> QED
      BY <2>1, <3>2, <3>3, <3>5 DEF Unit!Edge, Unit!Work
  <2>6. CASE pd_phase = "busy" /\ pd_left > 1
    <3>1. pd_phase' = "busy" /\ pd_left' = pd_left - 1
      BY <1>1, <2>6, PdWorks DEF EdgeFacts
    <3>2. pa_phase' = "busy"
      BY <1>1, <2>3, <3>1 DEF EdgeFacts, PhaseParts
    <3>3. P_o' = Origin
      BY <1>1, <3>2 DEF EdgeFacts, PhaseParts, OutputParts
    <3>4. EdgesLeft > 1 /\ EdgesLeft' = EdgesLeft - 1
      BY <1>1, <2>3, <2>4, <2>6, <3>1, <3>2 DEF EdgeFacts, EdgesLeftParts
    <3> QED
      BY <2>1, <3>2, <3>3, <3>4 DEF Unit!Edge, Unit!Work
  <2>7. CASE pd_phase = "busy" /\ pd_left = 1
    <3>1. pd_phase' = "done"
      BY <1>1, <2>7, PdWorks DEF EdgeFacts
    <3>2. pa_phase' = "done"
      BY <1>1, <2>3, <3>1 DEF EdgeFacts, PhaseParts
    <3>3. P_o' = PaResult(req)
      BY <1>1, <2>2, <3>2 DEF EdgeFacts, PhaseParts, OutputParts
    <3>4. EdgesLeft = 1 /\ EdgesLeft' = 0
      BY <1>1, <2>4, <2>7, <3>2 DEF EdgeFacts, EdgesLeftParts
    <3> QED
      BY <2>1, <3>2, <3>3, <3>4 DEF Unit!Edge, Unit!Complete
  <2> QED
    BY <1>1, <1>4, <1>6, <2>5, <2>6, <2>7, PdWorks DEF EdgeFacts
<1> QED
  BY <1>5, <1>6

\* Every edge of PA out of reset is an edge of the contract.
LEMMA EdgeRefines ==
    ASSUME IInv, IInv', Next, rst_n' = TRUE
    PROVE  Unit!Edge
<1>1. state \in 0 .. DoubleState
  BY DEF IInv, TypeOK
<1>2. state \in {0, 1, LastState, DoubleState} \/ state \in StepStates
  BY <1>1, ProgramTable
<1> QED
  BY <1>2, IdleRefines, NegationRefines, ListRefines, LastRefines, DoublingRefines

\* PA implements the contract its client is written against, for every width
\* and every history of requests and resets: an addition shows its result after
\* exactly PaLatency edges, for one cycle, and its operands cannot change under it.
THEOREM RefinesUnit == Spec => Unit!Safety
<1>1. Init => Unit!Init
  <2> SUFFICES ASSUME Init
               PROVE  Unit!Init
    OBVIOUS
  <2>1. IInv /\ state = 0 /\ ~start /\ ~rst_n
    BY InitIInv DEF Init
  <2>2. EdgeFacts
    BY <2>1, FactsAre
  <2>3. pa_phase = "idle"
    BY <2>1, <2>2 DEF EdgeFacts, PhaseParts
  <2>4. EdgesLeft = 0 /\ P_o = Origin
    BY <2>2, <2>3 DEF EdgeFacts, EdgesLeftParts, PhaseParts, OutputParts
  <2> QED
    BY <2>1, <2>3, <2>4 DEF Unit!Init, Unit!Quiet
<1>2. IInv /\ IInv' /\ [Next]_vars => [Unit!Next]_Unit!uvars
  <2> SUFFICES ASSUME IInv, IInv', [Next]_vars
               PROVE  [Unit!Next]_Unit!uvars
    OBVIOUS
  <2>1. CASE UNCHANGED vars
    BY <2>1 DEF vars, paRegs, coreVars, pnVars, pdVars, Unit!uvars, EdgesLeft,
                pa_phase, P_o, finish, pn_finish, pd_finish, Shortcut, eq, pd_op
  <2>2. CASE Posedge
    <3>1. Next /\ rst_n = TRUE /\ rst_n' = TRUE
      BY <2>2 DEF Posedge, Next, IInv, TypeOK
    <3>2. Unit!Edge
      BY <3>1, EdgeRefines
    <3>3. Unit!InFlight <=> InFlight
      BY DEF Unit!InFlight, InFlight
    <3>4. InFlight => req' = req
      BY <3>1, EdgeHolds
    <3> QED
      BY <3>1, <3>2, <3>3, <3>4 DEF Unit!Next, Unit!Clock
  <2>3. CASE Reset
    <3>1. rst_n' = FALSE /\ start' = FALSE /\ state' = 0
      BY <2>3, InputsTyped DEF Next, Reset, fsm, NoRequest
    <3>2. EdgeFacts'
      BY FactsWillBe
    <3>3. pa_phase' = "idle"
      BY <3>1, <3>2 DEF EdgeFacts, PhaseParts
    <3>4. EdgesLeft' = 0 /\ P_o' = Origin
      BY <3>2, <3>3 DEF EdgeFacts, PhaseParts, EdgesLeftParts, OutputParts
    <3> QED
      BY <3>1, <3>3, <3>4 DEF Unit!Next, Unit!Reset, Unit!Abort
  <2>4. CASE Release
    <3>1. /\ ~rst_n /\ rst_n' = TRUE /\ ~start' /\ state = 0 /\ ~start /\ fsm
      BY <2>4 DEF Release, NoRequest, IInv, Passing
    <3>2. state' = 0 /\ EdgeFacts /\ EdgeFacts'
      BY <3>1, FactsAre, FactsWillBe, ProgramTable DEF fsm
    <3>3. pa_phase = "idle" /\ pa_phase' = "idle"
      BY <3>1, <3>2 DEF EdgeFacts, PhaseParts
    <3>4. EdgesLeft' = EdgesLeft /\ P_o' = P_o
      BY <3>2, <3>3 DEF EdgeFacts, EdgesLeftParts, PhaseParts, OutputParts
    <3> QED
      BY <3>1, <3>3, <3>4 DEF Unit!Next, Unit!Rise
  <2> QED
    BY <2>1, <2>2, <2>3, <2>4 DEF Next
<1> QED
  BY <1>1, <1>2, Invariance, PTL DEF Spec, Unit!Safety
=============================================================================
