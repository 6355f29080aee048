------------------------- MODULE PointDoubleProofs -------------------------
(***************************************************************************)
(* Proofs about PointDouble for every width, every set of requests and     *)
(* every number of resets: type correctness, operands that do not move     *)
(* under core0, the result, and the handshake contract.                    *)
(***************************************************************************)
EXTENDS PointDouble, FieldProofs, TLAPS

\* The operand lines that are inputs.
Inputs == {"Px", "Py", "a", "0"}

\* The list of operations, one by one.
LEMMA ProgramTable ==
    /\ Steps = 1 .. 10 /\ LastState = 11 /\ Len(PdProgram) = 10
    /\ PdProgram[1] = Op("inv", "Px", "0", "inv_x")
    /\ PdProgram[2] = Op("mul", "Py", "inv_x", "temp_lamb")
    /\ PdProgram[3] = Op("add", "Px", "temp_lamb", "lamb")
    /\ PdProgram[4] = Op("mul", "lamb", "lamb", "lamb_2")
    /\ PdProgram[5] = Op("mul", "Px", "Px", "x_2")
    /\ PdProgram[6] = Op("add", "lamb_2", "lamb", "tempx0")
    /\ PdProgram[7] = Op("add", "tempx0", "a", "P_ox")
    /\ PdProgram[8] = Op("mul", "lamb", "P_ox", "lamb_X")
    /\ PdProgram[9] = Op("add", "x_2", "lamb_X", "tempy0")
    /\ PdProgram[10] = Op("add", "tempy0", "P_ox", "P_oy")
  BY DEF PdProgram, Steps, LastState

\* The list asks core0 for operations it has.
LEMMA ProgramTyped == \A k \in Steps : PdProgram[k].mode \in Modes
<1> SUFFICES ASSUME NEW k \in Steps
             PROVE  PdProgram[k].mode \in Modes
  OBVIOUS
<1>1. k \in {1, 2, 3, 4, 5, 6, 7, 8, 9, 10}
  BY ProgramTable
<1> QED
  BY <1>1, ProgramTable DEF Modes, Op

\* No operation writes a register that it or an earlier one reads, or that
\* an earlier one has written.
LEMMA SingleAssignment ==
    ASSUME NEW j \in Steps, NEW k \in Steps
    PROVE  /\ j <= k => PdProgram[j].u # PdProgram[k].dst
                        /\ PdProgram[j].v # PdProgram[k].dst
           /\ j # k => PdProgram[j].dst # PdProgram[k].dst
           /\ PdProgram[k].dst \in Registers \ Inputs
           /\ PdProgram[k].u \in Registers \cup Inputs
           /\ PdProgram[k].v \in Registers \cup Inputs
<1>1. j \in {1, 2, 3, 4, 5, 6, 7, 8, 9, 10} /\ k \in {1, 2, 3, 4, 5, 6, 7, 8, 9, 10}
  BY ProgramTable
<1>2. PdProgram[k].dst \in Registers \ Inputs
  BY <1>1, ProgramTable DEF Op, Inputs, Registers
<1>3. j <= k => PdProgram[j].u # PdProgram[k].dst /\ PdProgram[j].v # PdProgram[k].dst
  BY <1>1, ProgramTable DEF Op
<1>4. j # k => PdProgram[j].dst # PdProgram[k].dst
  BY <1>1, ProgramTable DEF Op
<1>5. PdProgram[k].u \in Registers \cup Inputs /\ PdProgram[k].v \in Registers \cup Inputs
  BY <1>1, ProgramTable DEF Op, Inputs, Registers
<1> QED
  BY <1>2, <1>3, <1>4, <1>5

-----------------------------------------------------------------------------
\* What core0 is asked to do in state k.
OpAt(k) == [mode |-> PdProgram[k].mode,
            a |-> Line(PdProgram[k].u), b |-> Line(PdProgram[k].v),
            p |-> IF PdProgram[k].mode = "add" THEN Zero ELSE req.p]

\* core0 works in the states of the list only, and shows what it was asked for.
Computing ==
    /\ core_phase # "idle" => state \in Steps
    /\ core_phase # "busy" => core_left = 0
    /\ core_phase = "busy" => core_left >= 1
    /\ core_out = IF core_phase = "done" THEN CoreResult(core_op) ELSE Zero

\* pn0 works in state 0 only, under a request, and its output never changes.
Negating ==
    /\ pn_phase # "idle" => state = 0 /\ start
    /\ pn_phase # "busy" => pn_left = 0
    /\ pn_phase = "busy" => pn_left >= 1
    /\ pn_P_o = Origin

\* Only an operand with a tangent passes state 0; reset finds no request.
Passing ==
    /\ state # 0 => ~Degenerate
    /\ ~rst_n => state = 0 /\ ~start

\* Every state that has been left has put its result in its register.
Computed ==
    \A j \in Steps :
        j < state => reg[PdProgram[j].dst] = CoreResult(OpAt(j))

IInv == TypeOK /\ Computing /\ Negating /\ Passing /\ Computed

-----------------------------------------------------------------------------
\* The operands of a request have their widths.
LEMMA RequestTyped ==
    ASSUME TypeOK
    PROVE  req.P \in Point /\ req.a \in Elem /\ req.p \in Elem
  BY RequestsAssumption DEF TypeOK

\* Every operand line carries M bits.
LEMMA OpTyped ==
    ASSUME TypeOK, NEW k \in Steps
    PROVE  OpAt(k) \in Operation
<1>1. \A name \in Registers \cup Inputs : Line(name) \in Elem
  BY RequestTyped, ElemClosed DEF TypeOK, Line, Inputs, Point
<1>2. PdProgram[k].mode \in Modes
  BY ProgramTyped
<1>3. Line(PdProgram[k].u) \in Elem /\ Line(PdProgram[k].v) \in Elem
  BY <1>1, SingleAssignment
<1>4. (IF PdProgram[k].mode = "add" THEN Zero ELSE req.p) \in Elem
  BY RequestTyped, ElemClosed
<1> QED
  BY <1>2, <1>3, <1>4 DEF OpAt, Operation

\* In a state of the list core0 is asked for its entry.
LEMMA CoreOpIs == state \in Steps => core_op = OpAt(state)
  BY DEF core_op, core_start, OpAt

\* sequ overwrites the register of its own state only, and with it no operand
\* line of this state or of an earlier one.
LEMMA SequKeeps ==
    ASSUME TypeOK, sequ, req' = req, NEW j \in Steps, state \in Steps => j <= state
    PROVE  /\ OpAt(j)' = OpAt(j)
           /\ j # state => reg'[PdProgram[j].dst] = reg[PdProgram[j].dst]
           /\ j = state => reg'[PdProgram[j].dst] = core_out
<1>1. CASE state \notin Steps
  <2>1. reg' = reg
    BY <1>1 DEF sequ
  <2>2. OpAt(j)' = OpAt(j)
    BY <2>1 DEF OpAt, Line
  <2> QED
    BY <1>1, <2>1, <2>2
<1>2. CASE state \in Steps
  <2> DEFINE dst == PdProgram[state].dst
  <2>1. /\ dst \in Registers \ Inputs
        /\ PdProgram[j].u # dst /\ PdProgram[j].v # dst
        /\ PdProgram[j].u \in Registers \cup Inputs
        /\ PdProgram[j].v \in Registers \cup Inputs
        /\ PdProgram[j].dst \in Registers
        /\ j # state => PdProgram[j].dst # dst
    BY <1>2, SingleAssignment
  <2>2. reg' = [reg EXCEPT ![dst] = core_out] /\ reg \in [Registers -> Elem]
    BY <1>2 DEF sequ, TypeOK
  <2> HIDE DEF dst
  <2>3. ASSUME NEW name \in Registers \cup Inputs, name # dst
        PROVE  Line(name)' = Line(name)
    <3>1. CASE name \in Inputs
      BY <3>1 DEF Line, Inputs
    <3>2. CASE name \in Registers
      BY <2>2, <2>3, <3>2 DEF Line
    <3> QED
      BY <3>1, <3>2
  <2>4. /\ Line(PdProgram[j].u)' = Line(PdProgram[j].u)
        /\ Line(PdProgram[j].v)' = Line(PdProgram[j].v)
    BY <2>1, <2>3
  <2>5. OpAt(j)' = OpAt(j)
    BY <2>4 DEF OpAt
  <2>6. j # state => reg'[PdProgram[j].dst] = reg[PdProgram[j].dst]
    BY <2>1, <2>2
  <2>7. reg'[dst] = core_out
    BY <2>1, <2>2
  <2> QED
    BY <2>5, <2>6, <2>7 DEF dst
<1> QED
  BY <1>1, <1>2

\* sequ keeps the registers M bits wide.
LEMMA RegTyped ==
    ASSUME TypeOK, sequ
    PROVE  reg' \in [Registers -> Elem]
  BY SingleAssignment DEF TypeOK, sequ

\* An edge of core0 outside the list.
LEMMA CoreRests ==
    ASSUME TypeOK, Computing, core0!Edge, state \notin Steps
    PROVE  /\ core_phase = "idle" /\ core_phase' = "idle"
           /\ core_left' = 0 /\ core_out' = Zero
<1>1. core_phase = "idle" /\ core_left = 0 /\ core_out = Zero
  BY DEF Computing
<1> QED
  BY <1>1 DEF core0!Edge, core0!Rest, core0!Accept, core0!Work, core0!Complete,
              core0!Release, core_start

\* An edge of core0 in a state of the list: it accepts, counts, answers, rests.
LEMMA CoreWorks ==
    ASSUME TypeOK, Computing, core0!Edge, state \in Steps
    PROVE  /\ core_phase = "idle" =>
                core_phase' = "busy" /\ core_left' = CoreLatency(core_op)
                /\ core_out' = Zero
           /\ core_phase = "busy" /\ core_left > 1 =>
                core_phase' = "busy" /\ core_left' = core_left - 1
                /\ core_out' = Zero
           /\ core_phase = "busy" /\ core_left = 1 =>
                core_phase' = "done" /\ core_left' = 0
                /\ core_out' = CoreResult(core_op)
           /\ core_phase = "done" =>
                core_phase' = "idle" /\ core_left' = 0 /\ core_out' = Zero
           /\ core_phase = "busy" => core_left > 1 \/ core_left = 1
<1>1. core_phase = "busy" => core_left > 1 \/ core_left = 1
  BY DEF TypeOK, Computing
<1>2. core_phase = "idle" =>
        core_phase' = "busy" /\ core_left' = CoreLatency(core_op) /\ core_out' = Zero
  BY DEF core0!Edge, core0!Rest, core0!Accept, core0!Work, core0!Complete,
         core0!Release, core_start, Computing
<1>3. core_phase = "busy" /\ core_left > 1 =>
        core_phase' = "busy" /\ core_left' = core_left - 1 /\ core_out' = Zero
  BY DEF core0!Edge, core0!Rest, core0!Accept, core0!Work, core0!Complete,
         core0!Release, Computing, TypeOK
<1>4. core_phase = "busy" /\ core_left = 1 =>
        core_phase' = "done" /\ core_left' = 0 /\ core_out' = CoreResult(core_op)
  BY DEF core0!Edge, core0!Rest, core0!Accept, core0!Work, core0!Complete,
         core0!Release
<1>5. core_phase = "done" =>
        core_phase' = "idle" /\ core_left' = 0 /\ core_out' = Zero
  BY DEF core0!Edge, core0!Rest, core0!Accept, core0!Work, core0!Complete,
         core0!Release, Computing
<1> QED
  BY <1>1, <1>2, <1>3, <1>4, <1>5

\* An edge of pn0.
LEMMA NegationIsOrigin == PnResult(pn_P) = Origin /\ PnLatency(pn_P) = 3
  BY DEF PnResult, pn_P, Origin, Affine, Add, Zero, PnLatency, CoreLatency, Idle

\* pn0 on an edge: outside state 0 it rests, and in state 0 it counts to its
\* answer.
LEMMA PnRests ==
    ASSUME TypeOK, Negating, pn0!Edge, ~(state = 0 /\ start)
    PROVE  /\ pn_phase = "idle" /\ pn_phase' = "idle"
           /\ pn_left' = 0 /\ pn_P_o' = Origin
<1>1. pn_phase = "idle" /\ pn_left = 0 /\ pn_P_o = Origin
  BY DEF Negating
<1> QED
  BY <1>1 DEF pn0!Edge, pn0!Rest, pn0!Accept, pn0!Work, pn0!Complete,
              pn0!Release, pn_start

\* The edges of pn0 while PD waits for it in state 0.
LEMMA PnWorks ==
    ASSUME TypeOK, Negating, pn0!Edge, state = 0, start
    PROVE  /\ pn_P_o' = Origin
           /\ pn_phase = "idle" => pn_phase' = "busy" /\ pn_left' = 3
           /\ pn_phase = "busy" /\ pn_left > 1 =>
                pn_phase' = "busy" /\ pn_left' = pn_left - 1
           /\ pn_phase = "busy" /\ pn_left = 1 =>
                pn_phase' = "done" /\ pn_left' = 0
           /\ pn_phase = "done" => pn_phase' = "idle" /\ pn_left' = 0
           /\ pn_phase = "busy" => pn_left > 1 \/ pn_left = 1
<1>1. pn_phase = "busy" => pn_left > 1 \/ pn_left = 1
  BY DEF TypeOK, Negating
<1>2. pn_P_o' = Origin
  BY NegationIsOrigin DEF pn0!Edge, pn0!Rest, pn0!Accept, pn0!Work, pn0!Complete,
         pn0!Release, pn_start, Negating
<1>3. pn_phase = "idle" => pn_phase' = "busy" /\ pn_left' = 3
  BY NegationIsOrigin DEF pn0!Edge, pn0!Rest, pn0!Accept, pn0!Work, pn0!Complete,
         pn0!Release, pn_start
<1>4. pn_phase = "busy" /\ pn_left > 1 =>
        pn_phase' = "busy" /\ pn_left' = pn_left - 1
  BY DEF pn0!Edge, pn0!Rest, pn0!Accept, pn0!Work, pn0!Complete,
         pn0!Release, TypeOK
<1>5. pn_phase = "busy" /\ pn_left = 1 => pn_phase' = "done" /\ pn_left' = 0
  BY DEF pn0!Edge, pn0!Rest, pn0!Accept, pn0!Work, pn0!Complete, pn0!Release
<1>6. pn_phase = "done" => pn_phase' = "idle" /\ pn_left' = 0
  BY DEF pn0!Edge, pn0!Rest, pn0!Accept, pn0!Work, pn0!Complete,
         pn0!Release, Negating
<1> QED
  BY <1>1, <1>2, <1>3, <1>4, <1>5, <1>6

-----------------------------------------------------------------------------
\* The inputs, whatever the step.
LEMMA InputsTyped ==
    ASSUME IInv, Next
    PROVE  /\ rst_n' \in BOOLEAN /\ start' \in BOOLEAN /\ req' \in Requests
           /\ resets' \in 0 .. MaxResets
           /\ rst_n' = FALSE => start' = FALSE
           /\ fsm /\ sequ
<1>1. /\ rst_n \in BOOLEAN /\ start \in BOOLEAN /\ req \in Requests
      /\ resets \in 0 .. MaxResets /\ MaxResets \in Nat
  BY RequestsAssumption DEF IInv, TypeOK
<1>2. CASE Posedge
  BY <1>1, <1>2 DEF Posedge, ClientHolds, ClientMoves, NoRequest
<1>3. CASE Release
  BY <1>1, <1>3 DEF Release, NoRequest
<1>4. CASE Reset
  <2>1. resets' = resets + (IF rst_n THEN 1 ELSE 0) /\ resets' <= MaxResets
    BY <1>4 DEF Reset
  <2>2. resets' = resets + 1 \/ resets' = resets
    BY <1>1, <2>1
  <2>3. resets' \in 0 .. MaxResets
    BY <1>1, <2>1, <2>2
  <2> QED
    BY <1>1, <1>4, <2>3 DEF Reset, NoRequest
<1> QED
  BY <1>2, <1>3, <1>4 DEF Next

\* In state 0 pn0 idles or waits; the request is in flight until pn0 has
\* answered, and for as long as the list runs.
LEMMA WhenInFlight ==
    ASSUME IInv
    PROVE  /\ state \in Steps => InFlight /\ pd_phase = "busy" /\ ~finish
           /\ state = 0 /\ start /\ pn_phase # "done" =>
                 InFlight /\ ~finish
                 /\ pd_phase = (IF pn_phase = "idle" THEN "idle" ELSE "busy")
           /\ state = 0 /\ start /\ pn_phase = "done" /\ ~Degenerate =>
                 InFlight /\ pd_phase = "busy" /\ ~finish
           /\ state = 0 /\ pn_phase = "done" /\ Degenerate =>
                 finish /\ pd_phase = "done" /\ ~InFlight
           /\ state = 0 /\ ~start =>
                 pn_phase = "idle" /\ ~finish /\ pd_phase = "idle" /\ ~InFlight
           /\ state = LastState => finish /\ pd_phase = "done" /\ ~InFlight
<1>1. state \in Steps => state # 0 /\ state # LastState
  BY ProgramTable
<1>2. state \in Steps => InFlight /\ pd_phase = "busy" /\ ~finish
  BY <1>1 DEF InFlight, pd_phase, finish
<1>3. state = 0 => state # LastState
  BY ProgramTable
<1>4. state = 0 /\ start /\ pn_phase # "done" =>
         InFlight /\ ~finish
         /\ pd_phase = (IF pn_phase = "idle" THEN "idle" ELSE "busy")
  BY <1>3 DEF InFlight, pd_phase, finish, pn_finish
<1>5. state = 0 /\ start /\ pn_phase = "done" /\ ~Degenerate =>
         InFlight /\ pd_phase = "busy" /\ ~finish
  BY <1>3 DEF InFlight, pd_phase, finish, pn_finish
<1>6. state = 0 /\ pn_phase = "done" /\ Degenerate =>
         finish /\ pd_phase = "done" /\ ~InFlight
  BY DEF InFlight, pd_phase, finish, pn_finish
<1>7. state = 0 /\ ~start =>
         pn_phase = "idle" /\ ~finish /\ pd_phase = "idle" /\ ~InFlight
  <2>1. state = 0 /\ ~start => pn_phase = "idle"
    BY DEF IInv, Negating
  <2> QED
    BY <1>3, <2>1 DEF InFlight, pd_phase, finish, pn_finish
<1>8. state = LastState => finish /\ pd_phase = "done" /\ ~InFlight
  BY DEF InFlight, pd_phase, finish
<1> QED
  BY <1>2, <1>4, <1>5, <1>6, <1>7, <1>8

\* A request in flight stays; sub-units and state machine take an edge.
LEMMA EdgeHolds ==
    ASSUME IInv, Next, rst_n' = TRUE
    PROVE  /\ core0!Edge /\ pn0!Edge
           /\ InFlight => req' = req /\ start' = start
<1>1. CASE Posedge
  BY <1>1 DEF Posedge, ClientHolds, ClientMoves
<1>2. CASE Release
  <2>1. state = 0 /\ ~start
    BY <1>2 DEF Release, IInv, Passing
  <2>2. ~InFlight
    BY <2>1, WhenInFlight
  <2> QED
    BY <1>2, <2>2 DEF Release
<1>3. ~Reset
  BY DEF Reset
<1> QED
  BY <1>1, <1>2, <1>3 DEF Next

\* Every step keeps the inductive invariant.
LEMMA StepIInv ==
    ASSUME IInv, Next
    PROVE  IInv'
<1>1. /\ rst_n' \in BOOLEAN /\ start' \in BOOLEAN /\ req' \in Requests
      /\ resets' \in 0 .. MaxResets /\ (rst_n' = FALSE => start' = FALSE)
      /\ fsm /\ sequ
  BY InputsTyped
<1>2. TypeOK /\ Computing /\ Negating /\ Passing /\ Computed
  BY DEF IInv
<1>3. reg' \in [Registers -> Elem]
  BY <1>1, <1>2, RegTyped
<1>4. Zero \in Elem /\ Origin \in Point
  BY ElemClosed DEF Origin, Affine, Point
<1>5. state \in 0 .. 11 /\ Steps = 1 .. 10 /\ LastState = 11
  BY <1>2, ProgramTable DEF TypeOK
<1>6. CASE rst_n' = FALSE
  <2>1. core0!Abort /\ pn0!Abort
    BY <1>6 DEF Next, Posedge, Release, Reset
  <2>2. state' = 0
    BY <1>1, <1>6 DEF fsm
  <2>3. /\ core_phase' = "idle" /\ core_left' = 0 /\ core_out' = Zero
        /\ pn_phase' = "idle" /\ pn_left' = 0 /\ pn_P_o' = Origin
    BY <2>1 DEF core0!Abort, pn0!Abort
  <2>4. TypeOK'
    BY <1>1, <1>3, <1>4, <1>5, <2>2, <2>3 DEF TypeOK
  <2>5. Computing' /\ Negating'
    BY <2>2, <2>3 DEF Computing, Negating
  <2>6. Passing'
    BY <1>1, <1>6, <2>2 DEF Passing
  <2>7. Computed'
    BY <1>5, <2>2 DEF Computed
  <2> QED
    BY <2>4, <2>5, <2>6, <2>7 DEF IInv
<1>7. CASE rst_n' = TRUE /\ state = 0
  <2>1. core0!Edge /\ pn0!Edge /\ (InFlight => req' = req /\ start' = start)
    BY <1>7, EdgeHolds
  <2>2. core_phase' = "idle" /\ core_left' = 0 /\ core_out' = Zero
    BY <1>2, <1>5, <1>7, <2>1, CoreRests
  <2>3. state' = IF start /\ pn_phase = "done" /\ ~Degenerate THEN 1 ELSE 0
    BY <1>1, <1>5, <1>7 DEF fsm, pn_finish
  <2>4. Computed'
    BY <1>5, <2>3 DEF Computed
  <2>5. Computing'
    BY <2>2 DEF Computing
  <2>6. /\ pn_P_o' = Origin /\ pn_phase' \in {"idle", "busy", "done"}
        /\ pn_left' \in Nat
        /\ pn_phase' # "busy" => pn_left' = 0
        /\ pn_phase' = "busy" => pn_left' >= 1
        /\ pn_phase' # "idle" => start = TRUE /\ pn_phase # "done"
    <3>1. CASE start
      BY <1>2, <1>7, <2>1, <3>1, PnWorks DEF TypeOK
    <3>2. CASE ~start
      BY <1>2, <1>7, <2>1, <3>2, PnRests DEF TypeOK
    <3> QED
      BY <3>1, <3>2
  <2>7. Negating'
    <3>1. ASSUME pn_phase' # "idle"
          PROVE  state' = 0 /\ start' = TRUE
      <4>1. start = TRUE /\ pn_phase # "done"
        BY <2>6, <3>1
      <4>2. InFlight
        BY <1>7, <4>1, WhenInFlight
      <4> QED
        BY <2>1, <2>3, <4>1, <4>2
    <3> QED
      BY <2>6, <3>1 DEF Negating
  <2>8. Passing'
    <3>1. ASSUME state' # 0
          PROVE  ~Degenerate'
      <4>1. start /\ pn_phase = "done" /\ ~Degenerate
        BY <2>3, <3>1
      <4>2. InFlight
        BY <1>7, <4>1, WhenInFlight
      <4>3. req' = req /\ pn_P_o' = pn_P_o
        BY <1>2, <2>1, <2>6, <4>2 DEF Negating
      <4> QED
        BY <4>1, <4>3 DEF Degenerate, eq
    <3> QED
      BY <1>7, <3>1 DEF Passing
  <2>9. TypeOK'
    BY <1>1, <1>3, <1>4, <1>5, <2>2, <2>3, <2>6 DEF TypeOK
  <2> QED
    BY <2>4, <2>5, <2>7, <2>8, <2>9 DEF IInv
<1>8. CASE rst_n' = TRUE /\ state \in Steps
  <2>1. core0!Edge /\ pn0!Edge /\ req' = req
    BY <1>8, EdgeHolds, WhenInFlight
  <2>2. /\ pn_phase' = "idle" /\ pn_left' = 0 /\ pn_P_o' = Origin
    BY <1>2, <1>5, <1>8, <2>1, PnRests
  <2>3. state' = IF core_phase = "done" THEN state + 1 ELSE state
    BY <1>1, <1>5, <1>8 DEF fsm, core_finish
  <2> PICK k \in Steps : k = state
    BY <1>8
  <2>4. OpAt(k)' = OpAt(k)
    BY <1>1, <1>2, <1>5, <2>1, SequKeeps
  <2>5. core_op = OpAt(state) /\ OpAt(state) \in Operation
    BY <1>2, <1>8, CoreOpIs, OpTyped
  <2>6. CoreLatency(core_op) \in Nat /\ CoreLatency(core_op) >= 3
    BY <2>5, LatencyPositive DEF Operation
  <2>7. CoreResult(core_op) \in Elem
    BY <2>5, ResultClosed
  <2>8. /\ core_phase' \in {"idle", "busy", "done"} /\ core_left' \in Nat
        /\ core_out' \in Elem
        /\ core_phase' # "busy" => core_left' = 0
        /\ core_phase' = "busy" => core_left' >= 1
        /\ core_phase' # "idle" => core_phase # "done"
        /\ core_out' = IF core_phase' = "done" THEN CoreResult(core_op) ELSE Zero
    BY <1>2, <1>4, <1>8, <2>1, <2>6, <2>7, CoreWorks DEF TypeOK
  <2>9. Computing'
    <3>1. ASSUME core_phase' # "idle"
          PROVE  state' = state /\ state' \in Steps
      BY <1>8, <2>3, <2>8, <3>1
    <3>2. ASSUME core_phase' = "done"
          PROVE  core_out' = CoreResult(core_op')
      <4>1. state' = state /\ state' \in Steps
        BY <3>1, <3>2
      <4>2. core_op' = OpAt(k)'
        BY <4>1 DEF core_op, core_start, OpAt
      <4> QED
        BY <2>4, <2>5, <2>8, <3>2, <4>2
    <3> QED
      BY <2>8, <3>1, <3>2 DEF Computing
  <2>10. Negating'
    BY <2>2 DEF Negating
  <2>11. Passing'
    <3>1. ~Degenerate
      BY <1>2, <1>5, <1>8 DEF Passing
    <3>2. pn_P_o' = pn_P_o
      BY <1>2, <2>2 DEF Negating
    <3> QED
      BY <1>8, <2>1, <3>1, <3>2 DEF Passing, Degenerate, eq
  <2>12. Computed'
    <3> SUFFICES ASSUME NEW j \in Steps, j < state'
                 PROVE  reg'[PdProgram[j].dst] = CoreResult(OpAt(j)')
      BY DEF Computed
    <3>1. j <= state
      BY <1>5, <1>8, <2>3
    <3>2. /\ OpAt(j)' = OpAt(j)
          /\ j # state => reg'[PdProgram[j].dst] = reg[PdProgram[j].dst]
          /\ j = state => reg'[PdProgram[j].dst] = core_out
      BY <1>1, <1>2, <2>1, <3>1, SequKeeps
    <3>3. CASE j = state
      <4>1. core_phase = "done"
        BY <1>5, <1>8, <2>3, <3>3
      <4> QED
        BY <1>2, <2>5, <3>2, <3>3, <4>1 DEF Computing
    <3>4. CASE j # state
      <4>1. j < state
        BY <1>5, <1>8, <3>1, <3>4
      <4> QED
        BY <1>2, <3>2, <3>4, <4>1 DEF Computed
    <3> QED
      BY <3>3, <3>4
  <2>13. TypeOK'
    <3>1. state' \in 0 .. LastState
      BY <1>5, <1>8, <2>3
    <3> QED
      BY <1>1, <1>3, <1>4, <2>2, <2>8, <3>1 DEF TypeOK
  <2> QED
    BY <2>9, <2>10, <2>11, <2>12, <2>13 DEF IInv
<1>9. CASE rst_n' = TRUE /\ state = LastState
  <2>1. core0!Edge /\ pn0!Edge
    BY <1>9, EdgeHolds
  <2>2. /\ core_phase' = "idle" /\ core_left' = 0 /\ core_out' = Zero
        /\ pn_phase' = "idle" /\ pn_left' = 0 /\ pn_P_o' = Origin
    BY <1>2, <1>5, <1>9, <2>1, CoreRests, PnRests
  <2>3. state' = 0
    BY <1>1, <1>5, <1>9 DEF fsm
  <2>4. Computing' /\ Negating' /\ Passing'
    BY <1>9, <2>2, <2>3 DEF Computing, Negating, Passing
  <2>5. Computed'
    BY <1>5, <2>3 DEF Computed
  <2>6. TypeOK'
    BY <1>1, <1>3, <1>4, <1>5, <2>2, <2>3 DEF TypeOK
  <2> QED
    BY <2>4, <2>5, <2>6 DEF IInv
<1>10. state = 0 \/ state \in Steps \/ state = LastState
  BY <1>5
<1>11. rst_n' = TRUE \/ rst_n' = FALSE
  BY <1>1
<1> QED
  BY <1>6, <1>7, <1>8, <1>9, <1>10, <1>11

\* It holds at power-on,
LEMMA InitIInv == Init => IInv
<1> SUFFICES ASSUME Init
             PROVE  IInv
  OBVIOUS
<1>1. /\ core_phase = "idle" /\ core_left = 0 /\ core_out = Zero
      /\ pn_phase = "idle" /\ pn_left = 0 /\ pn_P_o = Origin
  BY DEF Init, core0!Quiet, pn0!Quiet
<1>2. Zero \in Elem /\ Origin \in Point /\ 0 \in 0 .. LastState /\ 0 \in 0 .. MaxResets
  BY ElemClosed, ProgramTable, RequestsAssumption DEF Origin, Affine, Point
<1>3. TypeOK
  BY <1>1, <1>2 DEF Init, TypeOK
<1>4. Computing /\ Negating /\ Passing
  BY <1>1 DEF Init, Computing, Negating, Passing
<1>5. Computed
  BY ProgramTable DEF Init, Computed
<1> QED
  BY <1>3, <1>4, <1>5 DEF IInv

\* when nothing changes,
LEMMA StutterIInv ==
    ASSUME IInv, UNCHANGED vars
    PROVE  IInv'
  BY DEF vars, pdRegs, coreVars, pnVars, IInv, TypeOK, Computing, Negating,
         Passing, Computed, OpAt, Line, Degenerate, eq, core_op, core_start

\* and so in every reachable state.
THEOREM Invariance == Spec => []IInv
<1>1. IInv /\ [Next]_vars => IInv'
  BY StepIInv, StutterIInv
<1> QED
  BY <1>1, InitIInv, PTL DEF Spec

\* Every register keeps its width and the state machine its range.
THEOREM Typed == Spec => []TypeOK
<1>1. IInv => TypeOK
  BY DEF IInv
<1> QED
  BY <1>1, Invariance, PTL

\* No operand line of core0 moves from the cycle of a request to its finish
\* cycle, although sequ writes a register on every edge.
THEOREM StableOperands == Spec => OperandsStable
<1>1. IInv /\ [Next]_vars => [rst_n' /\ core0!InFlight => core_op' = core_op]_vars
  <2> SUFFICES ASSUME IInv, Next, rst_n', core0!InFlight
               PROVE  core_op' = core_op
    OBVIOUS
  <2>1. state \in Steps /\ core_phase # "done"
    BY DEF core0!InFlight, core_start, IInv, Computing
  <2>2. fsm /\ sequ /\ rst_n' = TRUE
    BY InputsTyped
  <2>3. req' = req
    BY <2>1, <2>2, WhenInFlight, EdgeHolds
  <2>4. state' = state
    BY <2>1, <2>2, ProgramTable DEF fsm, core_finish
  <2> PICK k \in Steps : k = state
    BY <2>1
  <2>5. OpAt(k)' = OpAt(k)
    BY <2>2, <2>3, ProgramTable, SequKeeps DEF IInv
  <2> QED
    BY <2>1, <2>4, <2>5 DEF core_op, core_start, OpAt
<1> QED
  BY <1>1, Invariance, PTL DEF Spec, OperandsStable

-----------------------------------------------------------------------------
\* When the list has run, the last two registers are the tangent construction.
LEMMA ListComputes ==
    ASSUME IInv, state = LastState
    PROVE  Affine(reg["P_ox"], reg["P_oy"]) = Tangent(req.P, req.a, req.p)
<1>1. \A j \in Steps : reg[PdProgram[j].dst] = CoreResult(OpAt(j))
  BY ProgramTable DEF IInv, Computed
<1>2. reg["inv_x"] = Inv(req.P.x, req.p)
  BY <1>1, ProgramTable DEF Op, OpAt, Line, CoreResult
<1>3. reg["temp_lamb"] = Mul(req.P.y, reg["inv_x"], req.p)
  BY <1>1, ProgramTable DEF Op, OpAt, Line, CoreResult
<1>4. reg["lamb"] = Add(req.P.x, reg["temp_lamb"])
  BY <1>1, ProgramTable DEF Op, OpAt, Line, CoreResult
<1>5. reg["lamb_2"] = Mul(reg["lamb"], reg["lamb"], req.p)
  BY <1>1, ProgramTable DEF Op, OpAt, Line, CoreResult
<1>6. reg["x_2"] = Mul(req.P.x, req.P.x, req.p)
  BY <1>1, ProgramTable DEF Op, OpAt, Line, CoreResult
<1>7. reg["tempx0"] = Add(reg["lamb_2"], reg["lamb"])
  BY <1>1, ProgramTable DEF Op, OpAt, Line, CoreResult
<1>8. reg["P_ox"] = Add(reg["tempx0"], req.a)
  BY <1>1, ProgramTable DEF Op, OpAt, Line, CoreResult
<1>9. reg["lamb_X"] = Mul(reg["lamb"], reg["P_ox"], req.p)
  BY <1>1, ProgramTable DEF Op, OpAt, Line, CoreResult
<1>10. reg["tempy0"] = Add(reg["x_2"], reg["lamb_X"])
  BY <1>1, ProgramTable DEF Op, OpAt, Line, CoreResult
<1>11. reg["P_oy"] = Add(reg["tempy0"], reg["P_ox"])
  BY <1>1, ProgramTable DEF Op, OpAt, Line, CoreResult
<1> QED
  BY <1>2, <1>3, <1>4, <1>5, <1>6, <1>7, <1>8, <1>9, <1>10, <1>11 DEF Tangent

\* The output in the finish cycle, and in every other cycle.
LEMMA OutputIs ==
    ASSUME IInv
    PROVE  /\ finish => P_o = PdResult(req)
           /\ ~finish => P_o = Origin
<1>1. eq <=> equal(req.P, Origin)
  BY DEF eq, IInv, Negating
<1>2. LastState = 11
  BY ProgramTable
<1>3. CASE finish /\ state = 0
  <2>1. Degenerate
    BY <1>2, <1>3 DEF finish
  <2> QED
    BY <1>1, <1>2, <1>3, <2>1 DEF P_o, PdResult, Degenerate
<1>4. CASE finish /\ state # 0
  <2>1. state = LastState
    BY <1>4 DEF finish
  <2>2. ~Degenerate
    BY <1>4 DEF IInv, Passing
  <2>3. P_o = Tangent(req.P, req.a, req.p)
    BY <1>4, <2>1, ListComputes DEF P_o
  <2> QED
    BY <1>1, <1>4, <2>2, <2>3 DEF PdResult, Degenerate
<1>5. CASE ~finish
  BY <1>5 DEF P_o, finish
<1> QED
  BY <1>3, <1>4, <1>5

\* A point equals its negative only on the line x = 0, where it is the all-zero
\* vector or one of the points PD does not recognise.
LEMMA ResultIsGolden ==
    ASSUME TypeOK, ~SelfInverse
    PROVE  PdResult(req) = point_doubling(req.P, req.a, req.p)
<1>1. req.P.x \in Elem /\ req.P.y \in Elem /\ req.P.inf \in BOOLEAN
  BY RequestTyped DEF Point
<1>2. req.P.y = Add(req.P.x, req.P.y) <=> req.P.x = Zero
  BY <1>1 DEF Add, Zero
<1>3. ~req.P.inf =>
        (equal(req.P, point_negation(req.P)) <=> req.P.x = Zero)
  BY <1>1, <1>2 DEF equal, point_negation, Affine
<1>4. ~req.P.inf =>
        (equal(req.P, Origin) <=> req.P.x = Zero /\ req.P.y = Zero)
  BY <1>1 DEF equal, Origin, Affine
<1>5. ~req.P.inf /\ req.P.x = Zero => req.P.y = Zero
  BY DEF SelfInverse
<1>6. equal(req.P, Origin) \/ req.P.inf
        <=> equal(req.P, point_negation(req.P)) \/ req.P.inf
  BY <1>3, <1>4, <1>5
<1> QED
  BY <1>6 DEF PdResult, point_doubling

\* PD computes the golden model's point_doubling.
THEOREM DoublesAsGolden == Spec => []GoldenDoubling
<1>1. IInv => GoldenDoubling
  BY OutputIs, ResultIsGolden DEF GoldenDoubling, IInv
<1> QED
  BY <1>1, Invariance, PTL

-----------------------------------------------------------------------------
(***************************************************************************)
(* The handshake: every step of PD is a step of UnitSpec or a stutter.     *)
(***************************************************************************)
\* The edges from a state of the list to its end.
LEMMA ListEdges ==
    /\ \A k \in 1 .. 11 : EdgesFrom(PdProgram, k) \in Nat
    /\ EdgesFrom(PdProgram, 11) = 0
    /\ \A k \in Steps : EdgesFrom(PdProgram, k)
                          = CoreLatency(OpAt(k)) + 2 + EdgesFrom(PdProgram, k + 1)
<1>1. /\ Len(PdProgram) = 10 /\ Steps = 1 .. 10
      /\ \A k \in 1 .. Len(PdProgram) : PdProgram[k].mode \in Modes
  BY ProgramTable, ProgramTyped
<1>2. /\ \A k \in 1 .. 11 : EdgesFrom(PdProgram, k) \in Nat
      /\ EdgesFrom(PdProgram, 11) = 0
      /\ \A k \in Steps : EdgesFrom(PdProgram, k)
                            = CostOf(PdProgram[k]) + EdgesFrom(PdProgram, k + 1)
  <2>1. Len(PdProgram) \in Nat
    BY <1>1
  <2>2. /\ \A k \in 1 .. Len(PdProgram) + 1 : EdgesFrom(PdProgram, k) \in Nat
        /\ EdgesFrom(PdProgram, Len(PdProgram) + 1) = 0
        /\ \A k \in 1 .. Len(PdProgram) : EdgesFrom(PdProgram, k)
              = CostOf(PdProgram[k]) + EdgesFrom(PdProgram, k + 1)
    BY <1>1, <2>1, EdgesUnfold, Zenon
  <2> QED
    BY <1>1, <2>2
<1>3. ASSUME NEW k \in Steps
      PROVE  CostOf(PdProgram[k]) = CoreLatency(OpAt(k)) + 2
  <2>1. PdProgram[k].mode \in Modes
    BY ProgramTyped
  <2>2. /\ OpAt(k).mode = PdProgram[k].mode
        /\ [Idle EXCEPT !.mode = PdProgram[k].mode].mode = PdProgram[k].mode
    BY DEF OpAt, Idle
  <2> QED
    BY <2>1, <2>2 DEF CostOf, CoreLatency, Modes
<1> QED
  BY <1>2, <1>3

\* The latency of a request by the path it takes.
LEMMA LatencyIs ==
    ASSUME IInv
    PROVE  /\ PnLatency(req.P) = 3
           /\ Degenerate => PdLatency(req) = 3
           /\ ~Degenerate => PdLatency(req) = 3 + (1 + EdgesFrom(PdProgram, 1))
<1>1. PnLatency(req.P) = 3
  BY DEF PnLatency, CoreLatency, Idle
<1>2. Degenerate <=> (equal(req.P, Origin) \/ req.P.inf)
  BY DEF Degenerate, eq, IInv, Negating
<1> QED
  BY <1>1, <1>2 DEF PdLatency

\* The edges PD still needs, by where it is.
EdgesLeftParts ==
    /\ pd_phase # "busy" => EdgesLeft = 0
    /\ pd_phase = "busy" /\ state = 0 =>
         EdgesLeft = pn_left + (IF Degenerate THEN 0
                                ELSE 1 + EdgesFrom(PdProgram, 1))
    /\ \A k \in Steps : state = k =>
         EdgesLeft = CASE core_phase = "idle" -> EdgesFrom(PdProgram, k)
                       [] core_phase = "busy" -> core_left + 1
                                                 + EdgesFrom(PdProgram, k + 1)
                       [] core_phase = "done" -> 1 + EdgesFrom(PdProgram, k + 1)

\* PointDouble's EdgesLeft, spelled out by the state PD is in.
LEMMA EdgesLeftIs == IInv => EdgesLeftParts
<1> SUFFICES ASSUME IInv
             PROVE  EdgesLeftParts
  OBVIOUS
<1>1. pd_phase # "busy" => EdgesLeft = 0
  BY DEF EdgesLeft
<1>2. ASSUME pd_phase = "busy", state = 0
      PROVE  EdgesLeft = pn_left + (IF Degenerate THEN 0
                                    ELSE 1 + EdgesFrom(PdProgram, 1))
  <2>1. EdgesLeft = pn_left + PdLatency(req) - PnLatency(req.P)
    BY <1>2 DEF EdgesLeft
  <2>2. pn_left \in Nat /\ EdgesFrom(PdProgram, 1) \in Nat
    BY ListEdges DEF IInv, TypeOK
  <2> QED
    BY <2>1, <2>2, LatencyIs
<1>3. ASSUME NEW k \in Steps, state = k
      PROVE  EdgesLeft = CASE core_phase = "idle" -> EdgesFrom(PdProgram, k)
                           [] core_phase = "busy" -> core_left + 1
                                                     + EdgesFrom(PdProgram, k + 1)
                           [] core_phase = "done" -> 1 + EdgesFrom(PdProgram, k + 1)
  <2>1. pd_phase = "busy" /\ state # 0
    BY <1>3, WhenInFlight, ProgramTable
  <2> QED
    BY <1>3, <2>1 DEF EdgesLeft
<1> QED
  BY <1>1, <1>2, <1>3 DEF EdgesLeftParts

\* The same in the next state.
LEMMA EdgesLeftWillBe == IInv' => EdgesLeftParts'
  BY EdgesLeftIs, PTL

\* The phase the client sees, by where PD is.
PhaseParts ==
    /\ state \in Steps => pd_phase = "busy"
    /\ state = 0 /\ pn_phase # "done" => pd_phase = pn_phase
    /\ state = 0 /\ pn_phase = "done" =>
          pd_phase = IF Degenerate THEN "done" ELSE "busy"
    /\ state = LastState => pd_phase = "done"
    /\ finish <=> pd_phase = "done"

\* PointDouble's pd_phase is what these parts say.
LEMMA PhaseIs == IInv => PhaseParts
<1> SUFFICES ASSUME IInv
             PROVE  PhaseParts
  OBVIOUS
<1>1. finish <=> pd_phase = "done"
  BY DEF pd_phase
<1>2. state = 0 => (start /\ pn_phase # "idle") \/ pn_phase = "idle"
  BY DEF IInv, Negating
<1>3. state = 0 /\ pn_phase = "idle" => pd_phase = "idle"
  BY ProgramTable DEF pd_phase, finish, pn_finish
<1>4. state = 0 /\ pn_phase = "busy" => pd_phase = "busy"
  BY ProgramTable DEF pd_phase, finish, pn_finish
<1>5. pn_phase \in {"idle", "busy", "done"}
  BY DEF IInv, TypeOK
<1>6. state = 0 /\ pn_phase = "done" => pd_phase = IF Degenerate THEN "done" ELSE "busy"
  BY <1>2, WhenInFlight
<1> QED
  BY <1>1, <1>3, <1>4, <1>5, <1>6, WhenInFlight DEF PhaseParts

\* The same in the next state.
LEMMA PhaseWillBe == IInv' => PhaseParts'
  BY PhaseIs, PTL

OutputParts == (finish => P_o = PdResult(req)) /\ (~finish => P_o = Origin)

\* What the output shows in the next state.
LEMMA OutputWillBe == IInv' => OutputParts'
<1>1. IInv => OutputParts
  BY OutputIs DEF OutputParts
<1> QED
  BY <1>1, PTL

\* Every edge of PD out of reset is an edge of the contract.
LEMMA EdgeRefines ==
    ASSUME IInv, IInv', Next, rst_n' = TRUE
    PROVE  Unit!Edge
<1>1. /\ EdgesLeftParts /\ EdgesLeftParts' /\ PhaseParts /\ PhaseParts'
      /\ TypeOK /\ TypeOK' /\ Computing /\ Negating /\ Negating' /\ fsm /\ sequ
      /\ core0!Edge /\ pn0!Edge
  BY EdgesLeftIs, EdgesLeftWillBe, PhaseIs, PhaseWillBe, InputsTyped, EdgeHolds
  DEF IInv
<1>2. /\ (finish => P_o = PdResult(req)) /\ (~finish => P_o = Origin)
      /\ (finish' => P_o' = PdResult(req)') /\ (~finish' => P_o' = Origin)
  BY OutputIs, OutputWillBe DEF OutputParts
<1>3. state \in 0 .. 11 /\ Steps = 1 .. 10 /\ LastState = 11
  BY <1>1, ProgramTable DEF TypeOK
<1>4. /\ \A k \in 1 .. 11 : EdgesFrom(PdProgram, k) \in Nat
      /\ EdgesFrom(PdProgram, 11) = 0
      /\ pn_left \in Nat /\ core_left \in Nat
  BY <1>1, ListEdges DEF TypeOK
<1>5. CASE state = 0 /\ ~start
  <2>1. pn_phase = "idle" /\ pn_phase' = "idle"
    BY <1>1, <1>5, PnRests
  <2>2. state' = 0
    BY <1>1, <1>3, <1>5 DEF fsm
  <2>3. pd_phase = "idle" /\ pd_phase' = "idle"
    BY <1>1, <1>5, <2>1, <2>2 DEF PhaseParts
  <2>4. P_o' = P_o
    BY <1>1, <1>2, <2>3 DEF PhaseParts
  <2>5. EdgesLeft' = EdgesLeft
    BY <1>1, <2>3 DEF EdgesLeftParts
  <2> QED
    BY <1>5, <2>3, <2>4, <2>5 DEF Unit!Edge, Unit!Rest
<1>6. CASE state = 0 /\ start /\ pn_phase = "idle"
  <2>1. pn_phase' = "busy" /\ pn_left' = 3
    BY <1>1, <1>6, PnWorks
  <2>2. state' = 0
    BY <1>1, <1>3, <1>6 DEF fsm, pn_finish
  <2>3. pd_phase = "idle" /\ pd_phase' = "busy"
    BY <1>1, <1>6, <2>1, <2>2 DEF PhaseParts
  <2>4. P_o' = P_o
    BY <1>1, <1>2, <2>3 DEF PhaseParts
  <2>5. req' = req /\ pn_P_o' = pn_P_o
    BY <1>1, <1>6, WhenInFlight, EdgeHolds DEF Negating
  <2>6. Degenerate' <=> Degenerate
    BY <2>5 DEF Degenerate, eq
  <2>7. EdgesLeft' = 3 + (IF Degenerate THEN 0 ELSE 1 + EdgesFrom(PdProgram, 1))
    BY <1>1, <2>1, <2>2, <2>3, <2>6 DEF EdgesLeftParts
  <2>8. EdgesLeft' = PdLatency(req)
    BY <1>4, <2>7, LatencyIs
  <2> QED
    BY <1>6, <2>3, <2>4, <2>8 DEF Unit!Edge, Unit!Accept
<1>7. CASE state = 0 /\ start /\ pn_phase = "busy"
  <2>1. state' = 0
    BY <1>1, <1>3, <1>7 DEF fsm, pn_finish
  <2>2. pd_phase = "busy"
    BY <1>1, <1>7 DEF PhaseParts
  <2>3. req' = req /\ pn_P_o' = pn_P_o
    BY <1>1, <1>7, WhenInFlight, EdgeHolds DEF Negating
  <2>4. Degenerate' <=> Degenerate
    BY <2>3 DEF Degenerate, eq
  <2>5. EdgesLeft = pn_left + (IF Degenerate THEN 0 ELSE 1 + EdgesFrom(PdProgram, 1))
    BY <1>1, <1>7, <2>2 DEF EdgesLeftParts
  <2>6. P_o = Origin
    BY <1>1, <1>2, <2>2 DEF PhaseParts
  <2>7. CASE pn_left > 1
    <3>1. pn_phase' = "busy" /\ pn_left' = pn_left - 1
      BY <1>1, <1>7, <2>7, PnWorks
    <3>2. pd_phase' = "busy"
      BY <1>1, <2>1, <3>1 DEF PhaseParts
    <3>3. EdgesLeft' = pn_left - 1 + (IF Degenerate THEN 0
                                      ELSE 1 + EdgesFrom(PdProgram, 1))
      BY <1>1, <2>1, <2>4, <3>1, <3>2 DEF EdgesLeftParts
    <3>4. EdgesLeft > 1 /\ EdgesLeft' = EdgesLeft - 1
      BY <1>4, <2>5, <2>7, <3>3
    <3>5. P_o' = P_o
      BY <1>1, <1>2, <2>6, <3>2 DEF PhaseParts
    <3> QED
      BY <2>2, <3>2, <3>4, <3>5 DEF Unit!Edge, Unit!Work
  <2>8. CASE pn_left = 1
    <3>1. pn_phase' = "done" /\ pn_left' = 0
      BY <1>1, <1>7, <2>8, PnWorks
    <3>2. CASE Degenerate
      <4>1. pd_phase' = "done"
        BY <1>1, <2>1, <2>4, <3>1, <3>2 DEF PhaseParts
      <4>2. EdgesLeft = 1 /\ EdgesLeft' = 0
        BY <1>1, <2>5, <2>8, <3>2, <4>1 DEF EdgesLeftParts
      <4>3. P_o' = PdResult(req)
        BY <1>1, <1>2, <2>3, <4>1 DEF PhaseParts
      <4> QED
        BY <2>2, <4>1, <4>2, <4>3 DEF Unit!Edge, Unit!Complete
    <3>3. CASE ~Degenerate
      <4>1. pd_phase' = "busy"
        BY <1>1, <2>1, <2>4, <3>1, <3>3 DEF PhaseParts
      <4>2. EdgesLeft' = 0 + (1 + EdgesFrom(PdProgram, 1))
        BY <1>1, <2>1, <2>4, <3>1, <3>3, <4>1 DEF EdgesLeftParts
      <4>3. EdgesLeft > 1 /\ EdgesLeft' = EdgesLeft - 1
        BY <1>4, <2>5, <2>8, <3>3, <4>2
      <4>4. P_o' = P_o
        BY <1>1, <1>2, <2>6, <4>1 DEF PhaseParts
      <4> QED
        BY <2>2, <4>1, <4>3, <4>4 DEF Unit!Edge, Unit!Work
    <3> QED
      BY <3>2, <3>3
  <2> QED
    BY <1>1, <1>7, <2>7, <2>8, PnWorks
<1>8. CASE state = 0 /\ start /\ pn_phase = "done" /\ ~Degenerate
  <2>1. state' = 1
    BY <1>1, <1>3, <1>8 DEF fsm, pn_finish
  <2>2. core_phase' = "idle"
    BY <1>1, <1>3, <1>8, CoreRests
  <2>3. pd_phase = "busy" /\ pd_phase' = "busy"
    BY <1>1, <1>3, <1>8, <2>1 DEF PhaseParts
  <2>4. P_o' = P_o
    BY <1>1, <1>2, <2>3 DEF PhaseParts
  <2>5. EdgesLeft = 0 + (1 + EdgesFrom(PdProgram, 1))
    BY <1>1, <1>8, <2>3 DEF EdgesLeftParts, Negating
  <2>6. EdgesLeft' = EdgesFrom(PdProgram, 1)
    <3>1. 1 \in Steps
      BY <1>3
    <3> QED
      BY <1>1, <2>1, <2>2, <3>1 DEF EdgesLeftParts
  <2>7. EdgesFrom(PdProgram, 1) > 0
    <3>1. CoreLatency(OpAt(1)) \in Nat /\ 1 \in Steps
      BY <1>1, <1>3, OpTyped, LatencyPositive DEF Operation
    <3> QED
      BY <1>4, <3>1, ListEdges
  <2>8. EdgesLeft > 1 /\ EdgesLeft' = EdgesLeft - 1
    BY <1>4, <2>5, <2>6, <2>7
  <2> QED
    BY <2>3, <2>4, <2>8 DEF Unit!Edge, Unit!Work
<1>9. CASE state = 0 /\ start /\ pn_phase = "done" /\ Degenerate
  <2>1. state' = 0
    BY <1>1, <1>3, <1>9 DEF fsm, pn_finish
  <2>2. pn_phase' = "idle"
    BY <1>1, <1>9, PnWorks
  <2>3. pd_phase = "done" /\ pd_phase' = "idle"
    BY <1>1, <1>9, <2>1, <2>2 DEF PhaseParts
  <2>4. P_o' = Origin
    BY <1>1, <1>2, <2>3 DEF PhaseParts
  <2>5. EdgesLeft' = EdgesLeft
    BY <1>1, <2>3 DEF EdgesLeftParts
  <2> QED
    BY <2>3, <2>4, <2>5 DEF Unit!Edge, Unit!Release
<1>10. ASSUME NEW k \in Steps, state = k
       PROVE  Unit!Edge
  <2> DEFINE rest == EdgesFrom(PdProgram, k + 1)
  <2>1. /\ pd_phase = "busy" /\ P_o = Origin /\ k \in Int /\ k + 1 \in 1 .. 11
    BY <1>1, <1>2, <1>3, <1>10 DEF PhaseParts
  <2>2. req' = req /\ core_op = OpAt(k) /\ core_phase \in {"idle", "busy", "done"}
    BY <1>1, <1>10, WhenInFlight, EdgeHolds, CoreOpIs DEF TypeOK
  <2>3. CoreLatency(OpAt(k)) \in Nat /\ rest \in Nat
        /\ EdgesFrom(PdProgram, k) = CoreLatency(OpAt(k)) + 2 + rest
    BY <1>1, <1>4, <2>1, OpTyped, LatencyPositive, ListEdges DEF Operation
  <2>4. EdgesLeft = CASE core_phase = "idle" -> EdgesFrom(PdProgram, k)
                      [] core_phase = "busy" -> core_left + 1 + rest
                      [] core_phase = "done" -> 1 + rest
    BY <1>1, <1>10 DEF EdgesLeftParts
  <2>5. state' = IF core_phase = "done" THEN k + 1 ELSE k
    BY <1>1, <1>3, <1>10 DEF fsm, core_finish
  <2> HIDE DEF rest
  <2>6. CASE core_phase # "done"
    <3>1. state' = k
      BY <2>5, <2>6
    <3>2. pd_phase' = "busy"
      BY <1>1, <3>1 DEF PhaseParts
    <3>3. P_o' = P_o
      BY <1>1, <1>2, <2>1, <3>2 DEF PhaseParts
    <3>4. EdgesLeft' = CASE core_phase' = "idle" -> EdgesFrom(PdProgram, k)
                         [] core_phase' = "busy" -> core_left' + 1 + rest
                         [] core_phase' = "done" -> 1 + rest
      BY <1>1, <3>1 DEF EdgesLeftParts, rest
    <3>5. CASE core_phase = "idle"
      <4>1. core_phase' = "busy" /\ core_left' = CoreLatency(OpAt(k))
        BY <1>1, <1>10, <2>2, <3>5, CoreWorks
      <4>2. EdgesLeft = CoreLatency(OpAt(k)) + 2 + rest
            /\ EdgesLeft' = CoreLatency(OpAt(k)) + 1 + rest
        BY <2>3, <2>4, <3>4, <3>5, <4>1
      <4> QED
        BY <2>1, <2>3, <3>2, <3>3, <4>2 DEF Unit!Edge, Unit!Work
    <3>6. CASE core_phase = "busy" /\ core_left > 1
      <4>1. core_phase' = "busy" /\ core_left' = core_left - 1
        BY <1>1, <1>10, <3>6, CoreWorks
      <4>2. EdgesLeft = core_left + 1 + rest /\ EdgesLeft' = core_left - 1 + 1 + rest
        BY <2>4, <3>4, <3>6, <4>1
      <4> QED
        BY <1>4, <2>1, <2>3, <3>2, <3>3, <3>6, <4>2 DEF Unit!Edge, Unit!Work
    <3>7. CASE core_phase = "busy" /\ core_left = 1
      <4>1. core_phase' = "done"
        BY <1>1, <1>10, <3>7, CoreWorks
      <4>2. EdgesLeft = 1 + 1 + rest /\ EdgesLeft' = 1 + rest
        BY <2>4, <3>4, <3>7, <4>1
      <4> QED
        BY <2>1, <2>3, <3>2, <3>3, <4>2 DEF Unit!Edge, Unit!Work
    <3> QED
      BY <1>1, <1>10, <2>2, <2>6, <3>5, <3>6, <3>7, CoreWorks
  <2>7. CASE core_phase = "done" /\ k # 10
    <3>1. state' = k + 1 /\ k + 1 \in Steps
      BY <1>3, <2>1, <2>5, <2>7
    <3>2. pd_phase' = "busy" /\ core_phase' = "idle"
      BY <1>1, <1>10, <2>7, <3>1, CoreWorks DEF PhaseParts
    <3>3. P_o' = P_o
      BY <1>1, <1>2, <2>1, <3>2 DEF PhaseParts
    <3>4. EdgesLeft' = rest
      BY <1>1, <3>1, <3>2 DEF EdgesLeftParts, rest
    <3>5. rest > 0
      <4>1. CoreLatency(OpAt(k + 1)) \in Nat /\ (k + 1) + 1 \in 1 .. 11
        BY <1>1, <1>3, <3>1, OpTyped, LatencyPositive DEF Operation
      <4> QED
        BY <1>4, <3>1, <4>1, ListEdges DEF rest
    <3>6. EdgesLeft = 1 + rest
      BY <2>4, <2>7
    <3> QED
      BY <2>1, <2>3, <3>2, <3>3, <3>4, <3>5, <3>6 DEF Unit!Edge, Unit!Work
  <2>8. CASE core_phase = "done" /\ k = 10
    <3>1. state' = LastState
      BY <1>3, <2>5, <2>8
    <3>2. pd_phase' = "done"
      BY <1>1, <3>1 DEF PhaseParts
    <3>3. EdgesLeft = 1 /\ EdgesLeft' = 0
      BY <1>1, <1>4, <2>4, <2>8, <3>2 DEF EdgesLeftParts, rest
    <3>4. P_o' = PdResult(req)
      BY <1>1, <1>2, <2>2, <3>2 DEF PhaseParts
    <3> QED
      BY <2>1, <3>2, <3>3, <3>4 DEF Unit!Edge, Unit!Complete
  <2> QED
    BY <2>6, <2>7, <2>8
<1>11. CASE state = LastState
  <2>1. state' = 0 /\ pn_phase' = "idle"
    BY <1>1, <1>3, <1>11, PnRests DEF fsm
  <2>2. pd_phase = "done" /\ pd_phase' = "idle"
    BY <1>1, <1>11, <2>1 DEF PhaseParts
  <2>3. P_o' = Origin
    BY <1>1, <1>2, <2>2 DEF PhaseParts
  <2>4. EdgesLeft' = EdgesLeft
    BY <1>1, <2>2 DEF EdgesLeftParts
  <2> QED
    BY <2>2, <2>3, <2>4 DEF Unit!Edge, Unit!Release
<1>12. pn_phase \in {"idle", "busy", "done"}
  BY <1>1 DEF TypeOK
<1> QED
  BY <1>3, <1>5, <1>6, <1>7, <1>8, <1>9, <1>10, <1>11, <1>12

\* PD implements the contract its clients are written against, for every width
\* and every history of requests and resets: a doubling shows its result after
\* exactly PdLatency edges, for one cycle, and its operands cannot change under it.
THEOREM RefinesUnit == Spec => Unit!Safety
<1>1. Init => Unit!Init
  <2> SUFFICES ASSUME Init
               PROVE  Unit!Init
    OBVIOUS
  <2>1. IInv /\ state = 0 /\ ~start /\ ~rst_n
    BY InitIInv DEF Init
  <2>2. pd_phase = "idle"
    BY <2>1, WhenInFlight
  <2>3. EdgesLeft = 0 /\ P_o = Origin
    BY <2>1, <2>2, EdgesLeftIs, PhaseIs, OutputIs DEF EdgesLeftParts, PhaseParts
  <2> QED
    BY <2>1, <2>2, <2>3 DEF Unit!Init, Unit!Quiet
<1>2. IInv /\ IInv' /\ [Next]_vars => [Unit!Next]_Unit!uvars
  <2> SUFFICES ASSUME IInv, IInv', [Next]_vars
               PROVE  [Unit!Next]_Unit!uvars
    OBVIOUS
  <2>1. CASE UNCHANGED vars
    BY <2>1 DEF vars, pdRegs, coreVars, pnVars, Unit!uvars, EdgesLeft, pd_phase,
                P_o, finish, pn_finish, Degenerate, eq
  <2>2. CASE Posedge
    <3>1. Next /\ rst_n = TRUE /\ rst_n' = TRUE
      BY <2>2 DEF Posedge, Next, IInv, TypeOK
    <3>2. Unit!Edge
      BY <3>1, EdgeRefines
    <3>3. Unit!InFlight <=> InFlight
      BY DEF Unit!InFlight, InFlight
    <3>4. InFlight => req' = req
      BY <3>1, EdgeHolds
    <3> QED
      BY <3>1, <3>2, <3>3, <3>4 DEF Unit!Next, Unit!Clock
  <2>3. CASE Reset
    <3>1. rst_n' = FALSE /\ start' = FALSE /\ state' = 0 /\ pn_phase' = "idle"
      BY <2>3, InputsTyped DEF Next, Reset, fsm, pn0!Abort, NoRequest
    <3>2. pd_phase' = "idle" /\ EdgesLeft' = 0 /\ P_o' = Origin
      BY <3>1, PhaseWillBe, EdgesLeftWillBe, OutputWillBe
      DEF PhaseParts, EdgesLeftParts, OutputParts
    <3> QED
      BY <3>1, <3>2 DEF Unit!Next, Unit!Reset, Unit!Abort
  <2>4. CASE Release
    <3>1. /\ ~rst_n /\ rst_n' = TRUE /\ ~start' /\ state = 0 /\ ~start
          /\ fsm /\ pn0!Edge
      BY <2>4 DEF Release, NoRequest, IInv, Passing
    <3>2. state' = 0 /\ pn_phase = "idle" /\ pn_phase' = "idle"
      BY <3>1, PnRests, ProgramTable DEF fsm, IInv
    <3>3. pd_phase = "idle" /\ pd_phase' = "idle"
      BY <3>1, <3>2, PhaseIs, PhaseWillBe DEF PhaseParts
    <3>4. EdgesLeft' = EdgesLeft /\ P_o' = P_o
      BY <3>3, EdgesLeftIs, EdgesLeftWillBe, OutputIs, OutputWillBe, PhaseIs,
         PhaseWillBe DEF EdgesLeftParts, PhaseParts, OutputParts
    <3> QED
      BY <3>1, <3>3, <3>4 DEF Unit!Next, Unit!Rise
  <2> QED
    BY <2>1, <2>2, <2>3, <2>4 DEF Next
<1> QED
  BY <1>1, <1>2, Invariance, PTL DEF Spec, Unit!Safety
=============================================================================
