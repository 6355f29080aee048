--------------------------- MODULE EccPortProofs ---------------------------
(***************************************************************************)
(* For every width of a byte, every set of frames and every function that  *)
(* SCALAR_MULT may compute: without any handshake on the ports the frame   *)
(* is received, ECC and SCALAR_MULT meet, the bytes that leave are those   *)
(* of the result, and the monitor beside ECC prints exactly these.         *)
(***************************************************************************)
EXTENDS EccMonitor, TLAPS

\* The six bytes ECC reads, and the fields of sm_op after k of them.
Frame == IF again THEN [k \in 1 .. 6 |-> frame[6]] ELSE frame

Received(k) ==
    /\ k >= 1 => sm_n = Frame[1]
    /\ k >= 2 => sm_P.inf = Frame[2] % 2
    /\ k >= 3 => sm_P.x = Frame[3]
    /\ k >= 4 => sm_P.y = Frame[4]
    /\ k >= 5 => sm_a = Frame[5]

\* The firmware is one byte ahead of ECC, or long done.
InStep ==
    /\ P0 = IF sent = 0 THEN 0 ELSE 1
    /\ sent >= 2 => P1 = frame[sent - 1]
    /\ again => sent = 7
    /\ ~again => /\ state = 0 => sent \in {0, 1}
                 /\ state = 1 => sent = read_cnt + 2
                 /\ state \in {2, 3} => sent = 7

Reading == /\ state = 1 => Received(read_cnt)
           /\ state # 1 => read_cnt = 0

\* The result from its finish cycle to the last byte.
Writing ==
    /\ sm_phase = "done" => sm_P_o = Compute(sm_op)
    /\ state = 3 => P_o_r = Compute(sm_op)
    /\ state = 3 /\ write_cnt = 0 => result = 0
    /\ state # 3 => write_cnt = 0

IInv == /\ TypeOK /\ InStep /\ Reading /\ Writing
        /\ FrameReceived /\ Rendezvous /\ ValidBytes

\* The least frames and vectors.
LEMMA Smallest == 0 \in Byte /\ 1 \in Byte /\ Blank \in Vector
  BY FramesAssumption DEF Byte, Blank, Vector

\* Append lengthens a sequence by its last element.
LEMMA AppendProperties ==
    ASSUME NEW S, NEW seq \in Seq(S), NEW elt \in S
    PROVE  /\ Append(seq, elt) \in Seq(S)
           /\ Len(Append(seq, elt)) = Len(seq) + 1
           /\ \A i \in 1 .. Len(seq) : Append(seq, elt)[i] = seq[i]
           /\ Append(seq, elt)[Len(seq) + 1] = elt
  OBVIOUS

\* Concatenation puts the second sequence after the first.
LEMMA ConcatProperties ==
    ASSUME NEW S, NEW s1 \in Seq(S), NEW s2 \in Seq(S)
    PROVE  /\ s1 \o s2 \in Seq(S)
           /\ Len(s1 \o s2) = Len(s1) + Len(s2)
           /\ \A i \in 1 .. Len(s1) + Len(s2) : (s1 \o s2)[i] =
                 IF i <= Len(s1) THEN s1[i] ELSE s2[i - Len(s1)]
  OBVIOUS

\* The indices of a sequence.
LEMMA LenProperties ==
    ASSUME NEW S, NEW seq \in Seq(S)
    PROVE  Len(seq) \in Nat /\ seq \in [1 .. Len(seq) -> S]
  OBVIOUS

\* Sequences of the same elements are the same.
LEMMA SeqEqual ==
    ASSUME NEW S, NEW s \in Seq(S), NEW t \in Seq(S),
           Len(s) = Len(t), \A i \in 1 .. Len(s) : s[i] = t[i]
    PROVE  s = t
<1>1. /\ s \in [1 .. Len(s) -> S]
      /\ t \in [1 .. Len(t) -> S]
  OBVIOUS
<1> QED
  BY <1>1

\* The inductive invariant holds at power-on.
LEMMA InitIInv == Init => IInv
<1> SUFFICES ASSUME Init PROVE IInv
  OBVIOUS
<1>1. TypeOK
  <2>1. rst_n \in BOOLEAN /\ again \in BOOLEAN /\ sm_start \in BOOLEAN
    BY DEF Init
  <2>2. /\ frame \in Frames /\ sent \in 0 .. 7 /\ P0 \in {0, 1} /\ P1 \in Byte
        /\ state \in 0 .. 3 /\ read_cnt \in 0 .. 5 /\ write_cnt \in 0 .. 2
    BY Smallest DEF Init
  <2>3. /\ sm_n \in Byte /\ sm_P \in Vector /\ sm_a \in Byte /\ sm_p \in Byte
        /\ sm_phase \in {"idle", "busy", "done"} /\ sm_P_o \in Vector
        /\ P_o_r \in Vector /\ result \in Byte /\ valid \in {0, 1}
    BY Smallest DEF Init, sm0!Quiet
  <2> QED
    BY <2>1, <2>2, <2>3 DEF TypeOK
<1>2. InStep
  BY DEF Init, InStep
<1>3. Reading
  BY DEF Init, Reading
<1>4. Writing
  BY DEF Init, Writing, sm0!Quiet
<1>5. FrameReceived /\ Rendezvous /\ ValidBytes
  BY DEF Init, FrameReceived, Rendezvous, ValidBytes, sm0!Quiet
<1> QED
  BY <1>1, <1>2, <1>3, <1>4, <1>5 DEF IInv

-----------------------------------------------------------------------------
(***************************************************************************)
(* A clock edge, conjunct by conjunct.                                     *)
(***************************************************************************)
\* A byte that is sent is a byte.
LEMMA FrameBytes == ASSUME TypeOK, NEW k \in 1 .. 6 PROVE frame[k] \in Byte
  BY FramesAssumption DEF TypeOK

\* The firmware sends bytes.
LEMMA FirmwareTyped ==
    ASSUME TypeOK, Firmware
    PROVE  /\ frame' = frame /\ sent' \in 0 .. 7
           /\ P0' \in {0, 1} /\ P1' \in Byte
<1>1. CASE Boot
  BY <1>1 DEF TypeOK, Boot, cpuVars
<1>2. CASE Announce
  BY <1>2 DEF TypeOK, Announce
<1>3. CASE SendByte
  BY <1>3, FrameBytes DEF TypeOK, SendByte
<1>4. CASE Exit
  BY <1>4 DEF TypeOK, Exit, cpuVars
<1> QED
  BY <1>1, <1>2, <1>3, <1>4 DEF Firmware

\* SCALAR_MULT shows vectors only.
LEMMA UnitTyped ==
    ASSUME TypeOK, sm0!Edge
    PROVE  sm_phase' \in {"idle", "busy", "done"} /\ sm_P_o' \in Vector
<1>1. sm_op \in Operands
  BY DEF TypeOK, sm_op, Operands
<1>2. Compute(sm_op) \in Vector
  BY <1>1, FramesAssumption
<1> QED
  BY <1>2, Smallest DEF TypeOK, sm0!Edge, sm0!Accept, sm0!Rest, sm0!Work,
                        sm0!Complete, sm0!Release

\* read_data keeps its registers one byte wide.
LEMMA ReadTyped ==
    ASSUME TypeOK, read_data
    PROVE  /\ sm_start' \in BOOLEAN
           /\ sm_n' \in Byte /\ sm_P' \in Vector /\ sm_a' \in Byte /\ sm_p' \in Byte
<1>1. sm_start' \in BOOLEAN
  BY DEF read_data
<1>2. P1 % 2 \in {0, 1}
  BY FramesAssumption DEF TypeOK, Byte
<1>3. sm_P' \in Vector
  BY <1>2 DEF TypeOK, read_data, Vector
<1>4. sm_n' \in Byte /\ sm_a' \in Byte /\ sm_p' \in Byte
  BY DEF TypeOK, read_data
<1> QED
  BY <1>1, <1>3, <1>4

\* A clock edge keeps every register in its range,
LEMMA EdgeTyped == ASSUME IInv, Posedge PROVE TypeOK'
<1> USE DEF IInv
<1>1. rst_n' \in BOOLEAN /\ again' \in BOOLEAN
  BY DEF TypeOK, Posedge
<1>2. /\ frame' \in Frames /\ sent' \in 0 .. 7 /\ P0' \in {0, 1} /\ P1' \in Byte
  BY FirmwareTyped DEF Posedge, TypeOK
<1>3. state' \in 0 .. 3 /\ read_cnt' \in 0 .. 5 /\ write_cnt' \in 0 .. 2
  BY DEF TypeOK, Posedge, Ecc, fsm, counter
<1>4. /\ sm_phase' \in {"idle", "busy", "done"} /\ sm_P_o' \in Vector
      /\ P_o_r' \in Vector
  BY UnitTyped DEF TypeOK, Posedge, Ecc, sm_out
<1>5. result' \in Byte /\ valid' \in {0, 1}
  <2>1. P_o_r.inf \in {0, 1} /\ P_o_r.x \in Byte /\ P_o_r.y \in Byte
    BY DEF TypeOK, Vector
  <2>2. state = 3 /\ write_cnt = 0 => 2 * (result \div 2) = 0
    BY DEF Writing
  <2> QED
    BY <2>1, <2>2, Smallest DEF TypeOK, Posedge, Ecc, write_data
<1> QED
  BY <1>1, <1>2, <1>3, <1>4, <1>5, ReadTyped DEF TypeOK, Posedge, Ecc

\* ECC is never ahead of the firmware: the byte after the one on P1 is sent on
\* the edge that reads the one on P1.
LEMMA EdgeInStep == ASSUME IInv, Posedge PROVE InStep'
<1> USE DEF IInv
<1>1. CASE Boot
  BY <1>1 DEF TypeOK, InStep, Posedge, Ecc, fsm, Boot, cpuVars
<1>2. CASE Announce
  BY <1>2 DEF TypeOK, InStep, Posedge, Ecc, fsm, Announce
<1>3. CASE SendByte
  <2>1. sent \in 1 .. 6 /\ sent' = sent + 1 /\ P1' = frame[sent]
        /\ frame' = frame /\ P0' = P0
    BY <1>3 DEF SendByte
  <2>2. ~again
    <3>1. sent # 7
      BY <2>1
    <3> QED
      BY <3>1 DEF InStep
  <2>3. state \in {0, 1}
    <3>1. state \in {2, 3} => sent = 7
      BY <2>2 DEF InStep
    <3> QED
      BY <2>1, <3>1 DEF TypeOK
  <2>4. ~again'
    <3>1. state # 3
      BY <2>3
    <3> QED
      BY <2>2, <3>1 DEF Posedge
  <2>5. CASE state = 0
    BY <2>1, <2>4, <2>5 DEF TypeOK, InStep, Reading, Posedge, Ecc, fsm, counter
  <2>6. CASE state = 1
    <3>1. sent = read_cnt + 2 /\ read_cnt # 5
      BY <2>1, <2>2, <2>6 DEF TypeOK, InStep
    <3>2. state' = 1 /\ read_cnt' = read_cnt + 1
      BY <2>6, <3>1 DEF Posedge, Ecc, fsm, counter
    <3> QED
      BY <2>1, <2>4, <3>1, <3>2 DEF TypeOK, InStep
  <2> QED
    BY <2>3, <2>5, <2>6
<1>4. CASE Exit
  <2>1. sent = 7 /\ sent' = 7 /\ P1' = P1 /\ frame' = frame /\ P0' = P0 /\ P0 = 1
    BY <1>4 DEF InStep, Exit, cpuVars
  <2>2. ASSUME ~again' PROVE state' \in {2, 3}
    <3>1. ~again /\ state # 3
      BY <2>2 DEF Posedge
    <3>2. state # 0
      BY <2>1, <3>1 DEF InStep
    <3>3. state = 1 => read_cnt = 5
      <4>1. state = 1 => sent = read_cnt + 2
        BY <3>1 DEF InStep
      <4> QED
        BY <2>1, <4>1 DEF TypeOK
    <3>4. state \in {1, 2}
      BY <3>1, <3>2 DEF TypeOK
    <3> QED
      BY <3>3, <3>4 DEF Posedge, Ecc, fsm
  <2>3. sent' >= 2 => P1' = frame'[sent' - 1]
    BY <2>1 DEF InStep
  <2> QED
    BY <2>1, <2>2, <2>3 DEF InStep
<1> QED
  BY <1>1, <1>2, <1>3, <1>4 DEF Posedge, Firmware

\* The byte on P1 while ECC reads the k-th is the k-th of the frame it is due.
LEMMA NextByte ==
    ASSUME IInv, state = 1
    PROVE  P1 = Frame[read_cnt + 1]
  BY DEF IInv, TypeOK, InStep, Frame

\* While ECC reads, and on the edge after, the frame it is due does not change.
LEMMA SameFrame ==
    ASSUME IInv, Posedge, state = 1
    PROVE  Frame' = Frame
<1>1. again' = again
  BY DEF IInv, TypeOK, Posedge
<1>2. frame' = frame
  BY FirmwareTyped DEF IInv, Posedge
<1> QED
  BY <1>1, <1>2 DEF Frame

\* the reader in step with the firmware,
LEMMA EdgeReading == ASSUME IInv, Posedge PROVE Reading'
<1>1. state' # 1 => read_cnt' = 0
  BY DEF IInv, TypeOK, Reading, Posedge, Ecc, fsm, counter
<1>2. ASSUME state' = 1 PROVE Received(read_cnt)'
  <2>1. CASE state # 1
    <3>1. read_cnt' = 0
      BY <2>1 DEF Posedge, Ecc, counter
    <3> QED
      BY <3>1 DEF Received
  <2>2. CASE state = 1
    <3>1. read_cnt' = read_cnt + 1 /\ read_cnt \in 0 .. 4
      BY <1>2, <2>2 DEF IInv, TypeOK, Posedge, Ecc, fsm, counter
    <3>2. P1 = Frame[read_cnt + 1] /\ Frame' = Frame /\ Received(read_cnt)
      BY <2>2, NextByte, SameFrame DEF IInv, Reading
    <3> QED
      BY <2>2, <3>1, <3>2 DEF Received, Posedge, Ecc, read_data
  <2> QED
    BY <2>1, <2>2
<1> QED
  BY <1>1, <1>2 DEF Reading

\* the frame as it was sent,
LEMMA EdgeFrameReceived == ASSUME IInv, Posedge PROVE FrameReceived'
<1> SUFFICES ASSUME sm_start' PROVE sm_op' = Decode(Frame)'
  BY DEF FrameReceived, Frame
<1>1. state = 1 /\ read_cnt = 5
  BY DEF Posedge, Ecc, read_data
<1>2. P1 = Frame[6] /\ Frame' = Frame /\ Received(5)
  BY <1>1, NextByte, SameFrame DEF IInv, Reading
<1>3. /\ sm_n' = Frame[1] /\ sm_a' = Frame[5] /\ sm_p' = Frame[6]
      /\ sm_P' = [inf |-> Frame[2] % 2, x |-> Frame[3], y |-> Frame[4]]
  BY <1>1, <1>2 DEF Received, Posedge, Ecc, read_data
<1> QED
  BY <1>2, <1>3 DEF Decode, sm_op

\* ECC and SCALAR_MULT in agreement about who waits,
LEMMA EdgeRendezvous == ASSUME IInv, Posedge PROVE Rendezvous'
<1>1. state \in 0 .. 3 /\ read_cnt \in 0 .. 5
  BY DEF IInv, TypeOK
<1>2. Rendezvous
  BY DEF IInv
<1>3. sm_start' <=> state = 1 /\ read_cnt = 5
  BY DEF Posedge, Ecc, read_data
<1>4. state' = 2 <=> (state = 1 /\ read_cnt = 5) \/ (state = 2 /\ ~sm_finish)
  BY <1>1 DEF Posedge, Ecc, fsm
<1>5. sm_phase \in {"idle", "busy", "done"}
  BY DEF IInv, TypeOK
<1>6. sm_phase' # "idle" <=> (sm_phase = "idle" /\ sm_start) \/ sm_phase = "busy"
  BY <1>5 DEF Posedge, sm0!Edge, sm0!Accept, sm0!Rest, sm0!Work, sm0!Complete,
              sm0!Release
<1> QED
  BY <1>1, <1>2, <1>3, <1>4, <1>5, <1>6 DEF Rendezvous, sm_finish

\* What sm0 computes on does not change under it.
LEMMA SameOperands ==
    ASSUME IInv, Posedge, state # 1 PROVE sm_op' = sm_op
<1>1. sm_n' = sm_n /\ sm_a' = sm_a /\ sm_p' = sm_p
  BY DEF Posedge, Ecc, read_data
<1>2. sm_P' = [inf |-> sm_P.inf, x |-> sm_P.x, y |-> sm_P.y]
  BY DEF Posedge, Ecc, read_data
<1>3. sm_P' = sm_P
  BY <1>2 DEF IInv, TypeOK, Vector
<1> QED
  BY <1>1, <1>3 DEF sm_op

\* the writer at the part its counter shows,
LEMMA EdgeWriting == ASSUME IInv, Posedge PROVE Writing'
<1> USE DEF IInv
<1>1. ASSUME sm_phase' = "done" PROVE sm_P_o' = Compute(sm_op)'
  <2>1. sm_phase = "busy" /\ sm_P_o' = Compute(sm_op)
    BY <1>1 DEF TypeOK, Posedge, sm0!Edge, sm0!Accept, sm0!Rest, sm0!Work,
                sm0!Complete, sm0!Release
  <2>2. state = 2
    BY <2>1 DEF Rendezvous
  <2> QED
    BY <2>1, <2>2, SameOperands
<1>2. ASSUME state' = 3 PROVE P_o_r' = Compute(sm_op)'
  <2>1. state \in {2, 3}
    BY <1>2 DEF TypeOK, Posedge, Ecc, fsm
  <2>2. CASE state = 2
    <3>1. sm_finish
      BY <1>2, <2>2 DEF Posedge, Ecc, fsm
    <3>2. P_o_r' = Compute(sm_op)
      BY <3>1 DEF Writing, Posedge, Ecc, sm_out, sm_finish
    <3> QED
      BY <2>2, <3>2, SameOperands
  <2>3. CASE state = 3
    <3>1. ~sm_finish
      BY <2>3 DEF Rendezvous, sm_finish
    <3>2. P_o_r' = Compute(sm_op)
      BY <2>3, <3>1 DEF Writing, Posedge, Ecc, sm_out
    <3> QED
      BY <2>3, <3>2, SameOperands
  <2> QED
    BY <2>1, <2>2, <2>3
<1>3. state' = 3 /\ write_cnt' = 0 => result' = 0
  BY DEF TypeOK, Posedge, Ecc, fsm, counter, write_data
<1>4. state' # 3 => write_cnt' = 0
  BY DEF TypeOK, Writing, Posedge, Ecc, fsm, counter
<1> QED
  BY <1>1, <1>2, <1>3, <1>4 DEF Writing

\* and the bytes those of the result.
LEMMA EdgeValidBytes == ASSUME IInv, Posedge PROVE ValidBytes'
<1> USE DEF IInv
<1> SUFFICES ASSUME valid' = 1
             PROVE  result' = Part(Compute(sm_op)',
                                   IF state' = 3 THEN write_cnt' ELSE 3)
  BY DEF ValidBytes
<1>1. state = 3
  BY DEF Posedge, Ecc, write_data
<1>2. Compute(sm_op)' = P_o_r
  BY <1>1, SameOperands DEF Writing
<1>3. result' = Part(P_o_r, write_cnt + 1)
  <2>1. write_cnt \in 0 .. 2 /\ P_o_r.inf \in {0, 1}
    BY DEF TypeOK, Vector
  <2>2. write_cnt = 0 => 2 * (result \div 2) + P_o_r.inf = P_o_r.inf
    BY <1>1, <2>1 DEF Writing
  <2> QED
    BY <1>1, <2>1, <2>2 DEF Posedge, Ecc, write_data, Part
<1>4. (IF state' = 3 THEN write_cnt' ELSE 3) = write_cnt + 1
  BY <1>1 DEF TypeOK, Posedge, Ecc, fsm, counter
<1> QED
  BY <1>2, <1>3, <1>4

-----------------------------------------------------------------------------
\* The end of the reset, and a step of nothing, change none of it.
LEMMA StandStill ==
    ASSUME IInv, UNCHANGED <<cpuVars, eccRegs, sm_phase, sm_P_o, again>>,
           rst_n' \in BOOLEAN
    PROVE  IInv'
<1> USE DEF IInv, cpuVars, eccRegs, smInputs
<1>1. TypeOK'
  BY DEF TypeOK
<1>2. InStep' /\ Reading' /\ Writing'
  BY DEF InStep, Reading, Received, Frame, Writing, sm_op
<1>3. FrameReceived' /\ Rendezvous' /\ ValidBytes'
  BY DEF FrameReceived, Rendezvous, ValidBytes, Part, sm_op
<1> QED
  BY <1>1, <1>2, <1>3

\* Every step keeps the inductive invariant.
LEMMA StepIInv == ASSUME IInv, [Next]_vars PROVE IInv'
<1>1. CASE UNCHANGED vars
  BY <1>1, StandStill DEF IInv, TypeOK, vars
<1>2. CASE Release
  BY <1>2, StandStill DEF Release, Boot
<1>3. CASE Posedge
  BY <1>3, EdgeTyped, EdgeInStep, EdgeReading, EdgeWriting, EdgeFrameReceived,
     EdgeRendezvous, EdgeValidBytes DEF IInv
<1> QED
  BY <1>1, <1>2, <1>3 DEF Next

\* So it holds in every reachable state.
LEMMA Invariance == Spec => []IInv
  BY InitIInv, StepIInv, PTL DEF Spec

\* The registers of ECC keep their width, whatever frame is sent and whatever
\* SCALAR_MULT computes.
THEOREM Typed == Spec => []TypeOK
<1>1. IInv => TypeOK
  BY DEF IInv
<1> QED
  BY Invariance, <1>1, PTL

\* read_data of ECC falls into step with the firmware for every frame and every
\* duration of the start-up code: a computation is begun on the six bytes that
\* were sent, or, when P0 is still high afterwards, on six times the last.
THEOREM Framing == Spec => []FrameReceived
<1>1. IInv => FrameReceived
  BY DEF IInv
<1> QED
  BY Invariance, <1>1, PTL

\* fsm of ECC waits for SCALAR_MULT exactly while that has something to answer.
THEOREM Meeting == Spec => []Rendezvous
<1>1. IInv => Rendezvous
  BY DEF IInv
<1> QED
  BY Invariance, <1>1, PTL

\* write_data of ECC sends the three parts of the result in order, for every
\* function SCALAR_MULT may compute.
THEOREM Bytes == Spec => []ValidBytes
<1>1. IInv => ValidBytes
  BY DEF IInv
<1> QED
  BY Invariance, <1>1, PTL

\* The operands stay from the request to the finish cycle, as SCALAR_MULT needs.
THEOREM Stable == Spec => OperandsStable
<1>1. IInv /\ [Next]_vars => [rst_n /\ sm0!InFlight => sm_op' = sm_op]_vars
  <2> SUFFICES ASSUME IInv, Next, rst_n, sm0!InFlight PROVE sm_op' = sm_op
    OBVIOUS
  <2>1. Posedge
    BY DEF Next, Release
  <2>2. state = 2
    BY DEF IInv, Rendezvous, sm0!InFlight
  <2> QED
    BY <2>1, <2>2, SameOperands
<1> QED
  BY Invariance, <1>1, PTL DEF Spec, OperandsStable
-----------------------------------------------------------------------------
(***************************************************************************)
(* The monitor beside ECC: what it prints is the frame and its result.     *)
(***************************************************************************)

\* Until the firmware announces its frame P1 is as reset left it, and nothing
\* of ECC has moved before rst_n is up.
Untouched ==
    /\ sent <= 1 => P1 = 0
    /\ ~rst_n => sent = 0 /\ state = 0 /\ ~again

\* The monitor counts one line for every edge on which ECC reads or writes:
\* it and ECC see the same ports on the same edges.
Counted ==
    /\ ~again => /\ cnt = CASE state = 0 -> 0
                            [] state = 1 -> read_cnt + 1
                            [] OTHER     -> 7
                 /\ valid = 0 /\ write_cnt = 0 /\ ~stopped
    /\ again /\ ~stopped => /\ valid = 1
                            /\ \/ state = 3 /\ write_cnt \in 1 .. 2 /\ cnt = 6 + write_cnt
                               \/ state = 0 /\ cnt = 9
    /\ stopped => again /\ cnt = 10

\* What the lines show.
Printed ==
    /\ inputs \in Seq(Byte) /\ outputs \in Seq(Byte)
    /\ Len(inputs) = IF cnt <= 7 THEN cnt ELSE 7
    /\ Len(outputs) = IF cnt <= 7 THEN 0 ELSE cnt - 7
    /\ \A k \in 1 .. Len(inputs) :
          inputs[k] = IF k = 1 THEN 0 ELSE frame[k - 1]
    /\ \A k \in 1 .. Len(outputs) :
          outputs[k] = Part(Compute(Decode(frame)), k)

\* SCALAR_MULT works on the frame until the monitor has printed the result.
Asked == ~stopped /\ (state \in {2, 3} \/ again) => sm_op = Decode(frame)

MonIInv == /\ Untouched
           /\ watched => Counted /\ Printed /\ Asked
           /\ ~watched => ~stopped

\* The six bytes of a frame are a sequence.
LEMMA FrameIsSeq ==
    ASSUME TypeOK
    PROVE  frame \in Seq(Byte) /\ Len(frame) = 6
<1>1. frame \in [1 .. 6 -> Byte]
  BY FramesAssumption DEF TypeOK
<1> QED
  BY <1>1

\* The three parts of what SCALAR_MULT returns are bytes.
LEMMA PartIsByte ==
    ASSUME TypeOK, NEW k \in 1 .. 3
    PROVE  Part(Compute(Decode(frame)), k) \in Byte
<1>1. \A j \in 1 .. 6 : frame[j] \in Byte
  BY FrameBytes
<1>2. \A b \in Byte : b % 2 \in {0, 1}
  BY FramesAssumption DEF Byte
<1>3. Decode(frame) \in Operands
  BY <1>1, <1>2 DEF Decode, Operands, Vector
<1>4. Compute(Decode(frame)) \in Vector
  BY <1>3, FramesAssumption
<1>5. k = 1 \/ k = 2 \/ k = 3
  OBVIOUS
<1> QED
  BY <1>4, <1>5, Smallest DEF Part, Vector

\* Both invariants hold at power-on.
LEMMA InitMonIInv == MonInit => IInv /\ MonIInv
<1> SUFFICES ASSUME MonInit
             PROVE  IInv /\ MonIInv
  OBVIOUS
<1>1. Init /\ cnt = 0 /\ inputs = <<>> /\ outputs = <<>> /\ stopped = FALSE
  BY DEF MonInit
<1>2. IInv
  BY <1>1, InitIInv
<1>3. Untouched
  BY <1>1 DEF Init, Untouched
<1>4. Counted /\ Asked
  BY <1>1 DEF Init, Counted, Asked
<1>5. Printed
  BY <1>1 DEF Printed
<1> QED
  BY <1>1, <1>2, <1>3, <1>4, <1>5 DEF MonIInv

\* A clock edge leaves P1 alone until the frame is announced,
LEMMA EdgeUntouched ==
    ASSUME IInv, Untouched, Next
    PROVE  Untouched'
<1>1. CASE Release
  BY <1>1 DEF Release, Boot, cpuVars, Untouched
<1>2. CASE Posedge
  <2>1. rst_n' = TRUE \/ rst_n'
    BY <1>2 DEF Posedge
  <2>2. sent' <= 1 => P1' = 0
    <3>1. sent \in 0 .. 7
      BY DEF IInv, TypeOK
    <3> QED
      BY <1>2, <3>1 DEF Posedge, Firmware, Boot, Announce, SendByte, Exit, cpuVars,
                        Untouched
  <2> QED
    BY <2>1, <2>2 DEF Untouched
<1> QED
  BY <1>1, <1>2 DEF Next

\* The edge that releases the reset: the monitor sees low ports.
LEMMA ReleaseKeeps ==
    ASSUME IInv, Untouched, Counted, Printed, Asked, Release, monitor
    PROVE  Counted' /\ Printed' /\ Asked'
<1>1. P0 = 0 /\ valid = 0
  BY DEF Release, Untouched, IInv, InStep, Counted
<1>2. UNCHANGED monVars
  BY <1>1 DEF monitor, P3
<1>3. UNCHANGED <<cpuVars, eccRegs, sm_phase, sm_P_o, again>>
  BY DEF Release, Boot
<1> QED
  BY <1>2, <1>3 DEF monVars, cpuVars, eccRegs, smInputs, Counted, Printed, Asked,
                    Part, Decode, sm_op

\* Which line the monitor prints on an edge.
LEMMA MonitorLine ==
    ASSUME IInv, Counted, ~stopped, monitor
    PROVE  /\ ~again /\ P0 = 0 => UNCHANGED monVars
           /\ ~again /\ P0 = 1 /\ cnt <= 6 =>
                 /\ inputs' = Append(inputs, P1) /\ cnt' = cnt + 1
                 /\ outputs' = outputs /\ stopped' = stopped
           /\ ~again /\ cnt = 7 => UNCHANGED monVars
           /\ again => /\ outputs' = Append(outputs, P2) /\ cnt' = cnt + 1
                       /\ inputs' = inputs /\ (stopped' <=> cnt = 9)
<1>1. ~again => P3 # 1
  BY DEF Counted, P3
<1>2. again => P3 = 1 /\ ~(cnt <= 6)
  BY DEF Counted, P3
<1>3. ~again /\ P0 = 0 => UNCHANGED monVars
  BY <1>1 DEF monitor
<1>4. ~again /\ P0 = 1 /\ cnt <= 6 =>
        /\ inputs' = Append(inputs, P1) /\ cnt' = cnt + 1
        /\ outputs' = outputs /\ stopped' = stopped
  BY DEF monitor
<1>5. ~again /\ cnt = 7 => UNCHANGED monVars
  BY <1>1 DEF monitor
<1>6. again => /\ outputs' = Append(outputs, P2) /\ cnt' = cnt + 1
               /\ inputs' = inputs /\ (stopped' <=> cnt = 9)
  BY <1>2 DEF monitor
<1> QED
  BY <1>3, <1>4, <1>5, <1>6

\* What a clock edge of ECC does to the registers the count depends on.
LEMMA EdgeMoves ==
    ASSUME IInv, Posedge
    PROVE  /\ state \in 0 .. 3 /\ read_cnt \in 0 .. 5 /\ write_cnt \in 0 .. 2
           /\ frame' = frame /\ again' = (again \/ state = 3)
           /\ valid' = IF state = 3 THEN 1 ELSE 0
           /\ state = 0 => state' = (IF P0 = 1 THEN 1 ELSE 0) /\ read_cnt' = 0
                           /\ write_cnt' = 0
           /\ state = 1 /\ read_cnt # 5 => state' = 1 /\ read_cnt' = read_cnt + 1
                                           /\ write_cnt' = 0
           /\ state = 1 /\ read_cnt = 5 => state' = 2 /\ write_cnt' = 0
           /\ state = 2 => state' \in {2, 3} /\ write_cnt' = 0
           /\ state = 3 /\ write_cnt # 2 => state' = 3 /\ write_cnt' = write_cnt + 1
           /\ state = 3 /\ write_cnt = 2 => state' = 0 /\ write_cnt' = 0
<1>1. state \in 0 .. 3 /\ read_cnt \in 0 .. 5 /\ write_cnt \in 0 .. 2
  BY DEF IInv, TypeOK
<1>2. frame' = frame
  BY FirmwareTyped DEF IInv, Posedge
<1>3. again' = (again \/ state = 3)
  BY DEF Posedge
<1>4. fsm /\ counter /\ write_data
  BY DEF Posedge, Ecc
<1>5. valid' = IF state = 3 THEN 1 ELSE 0
  BY <1>4 DEF write_data
<1>6. state = 0 => state' = (IF P0 = 1 THEN 1 ELSE 0) /\ read_cnt' = 0 /\ write_cnt' = 0
  BY <1>4 DEF fsm, counter
<1>7. state = 1 => /\ read_cnt # 5 => state' = 1 /\ read_cnt' = read_cnt + 1
                   /\ read_cnt = 5 => state' = 2
                   /\ write_cnt' = 0
  BY <1>4 DEF fsm, counter
<1>8. state = 2 => state' \in {2, 3} /\ write_cnt' = 0
  BY <1>4 DEF fsm, counter
<1>9. state = 3 => /\ write_cnt # 2 => state' = 3 /\ write_cnt' = write_cnt + 1
                   /\ write_cnt = 2 => state' = 0 /\ write_cnt' = 0
  BY <1>4 DEF fsm, counter
<1> QED
  BY <1>1, <1>2, <1>3, <1>5, <1>6, <1>7, <1>8, <1>9

\* A result is written in state 3 only.
LEMMA EdgeAgain ==
    ASSUME IInv, Posedge
    PROVE  /\ ~again /\ state # 3 => ~again'
           /\ again \/ state = 3 => again'
  BY DEF Posedge

\* the line count where the counters of ECC say it is,
LEMMA EdgeCounted ==
    ASSUME IInv, Counted, ~stopped, Posedge, monitor
    PROVE  Counted'
<1>1. state \in 0 .. 3 /\ read_cnt \in 0 .. 5 /\ write_cnt \in 0 .. 2
  BY EdgeMoves
<1>2. CASE ~again /\ state = 0
  <2>1. ~again' /\ valid' = 0 /\ write_cnt' = 0 /\ cnt = 0
    <3>1. ~again'
      BY <1>2, EdgeAgain
    <3>2. cnt = 0
      BY <1>2 DEF Counted
    <3>3. valid' = 0 /\ write_cnt' = 0
      BY <1>2, EdgeMoves
    <3> QED
      BY <3>1, <3>2, <3>3
  <2>2. CASE P0 = 1
    <3>1. state' = 1 /\ read_cnt' = 0 /\ cnt' = 1 /\ stopped' = stopped
      BY <1>2, <2>1, <2>2, EdgeMoves, MonitorLine
    <3> QED
      BY <2>1, <3>1 DEF Counted
  <2>3. CASE P0 # 1
    <3>1. P0 = 0
      BY <2>3 DEF IInv, TypeOK
    <3>2. state' = 0 /\ cnt' = 0 /\ stopped' = stopped
      BY <1>2, <2>1, <3>1, EdgeMoves, MonitorLine DEF monVars
    <3> QED
      BY <2>1, <3>2 DEF Counted
  <2> QED
    BY <2>2, <2>3
<1>3. CASE ~again /\ state = 1
  <2>1. ~again' /\ valid' = 0 /\ write_cnt' = 0 /\ cnt = read_cnt + 1
    <3>1. ~again'
      BY <1>3, EdgeAgain
    <3>2. cnt = read_cnt + 1
      BY <1>3 DEF Counted
    <3>3. valid' = 0 /\ write_cnt' = 0
      BY <1>3, EdgeMoves
    <3> QED
      BY <3>1, <3>2, <3>3
  <2>2. P0 = 1 /\ cnt <= 6
    BY <1>1, <1>3, <2>1 DEF IInv, InStep
  <2>3. cnt' = cnt + 1 /\ stopped' = stopped
    BY <1>3, <2>2, MonitorLine
  <2>4. CASE read_cnt # 5
    <3>1. state' = 1 /\ read_cnt' = read_cnt + 1 /\ cnt' = read_cnt' + 1
      BY <1>1, <1>3, <2>1, <2>3, <2>4, EdgeMoves
    <3> QED
      BY <2>1, <2>3, <3>1 DEF Counted
  <2>5. CASE read_cnt = 5
    <3>1. state' = 2 /\ cnt' = 7
      BY <1>1, <1>3, <2>1, <2>3, <2>5, EdgeMoves
    <3> QED
      BY <2>1, <2>3, <3>1 DEF Counted
  <2> QED
    BY <2>4, <2>5
<1>4. CASE ~again /\ state = 2
  <2>1. ~again' /\ valid' = 0 /\ write_cnt' = 0 /\ cnt = 7 /\ state' \in {2, 3}
    <3>1. ~again'
      BY <1>4, EdgeAgain
    <3>2. cnt = 7
      BY <1>4 DEF Counted
    <3>3. valid' = 0 /\ write_cnt' = 0 /\ state' \in {2, 3}
      BY <1>4, EdgeMoves
    <3> QED
      BY <3>1, <3>2, <3>3
  <2>2. cnt' = 7 /\ stopped' = stopped
    BY <1>4, <2>1, MonitorLine DEF monVars
  <2> QED
    BY <2>1, <2>2 DEF Counted
<1>5. CASE ~again /\ state = 3
  <2>1. write_cnt = 0 /\ cnt = 7
    BY <1>5 DEF Counted
  <2>2. again' /\ valid' = 1 /\ state' = 3 /\ write_cnt' = 1
    <3>1. again'
      BY <1>5, EdgeAgain
    <3>2. valid' = 1 /\ state' = 3 /\ write_cnt' = 1
      BY <1>5, <2>1, EdgeMoves
    <3> QED
      BY <3>1, <3>2
  <2>3. cnt' = 7 /\ stopped' = stopped
    BY <1>5, <2>1, MonitorLine DEF monVars
  <2> QED
    BY <2>2, <2>3 DEF Counted
<1>6. CASE again /\ state = 3
  <2>1. write_cnt \in 1 .. 2 /\ cnt = 6 + write_cnt
    BY <1>6 DEF Counted
  <2>2. again' /\ valid' = 1
    BY <1>6, EdgeAgain, EdgeMoves
  <2>3. cnt' = cnt + 1 /\ ~stopped'
    <3>1. cnt' = cnt + 1 /\ (stopped' <=> cnt = 9)
      BY <1>6, MonitorLine
    <3>2. cnt # 9
      BY <2>1
    <3> QED
      BY <3>1, <3>2
  <2>4. CASE write_cnt = 1
    <3>1. state' = 3 /\ write_cnt' = 2 /\ cnt' = 8
      BY <1>6, <2>1, <2>3, <2>4, EdgeMoves
    <3> QED
      BY <2>2, <2>3, <3>1 DEF Counted
  <2>5. CASE write_cnt = 2
    <3>1. state' = 0 /\ cnt' = 9
      BY <1>6, <2>1, <2>3, <2>5, EdgeMoves
    <3> QED
      BY <2>2, <2>3, <3>1 DEF Counted
  <2> QED
    BY <2>1, <2>4, <2>5
<1>7. CASE again /\ state # 3
  <2>1. cnt = 9
    BY <1>7 DEF Counted
  <2>2. again' /\ cnt' = 10 /\ stopped'
    <3>1. again'
      BY <1>7, EdgeAgain
    <3>2. cnt' = cnt + 1 /\ (stopped' <=> cnt = 9)
      BY <1>7, MonitorLine
    <3>3. cnt' = 10
      BY <2>1, <3>2
    <3> QED
      BY <2>1, <3>1, <3>2, <3>3
  <2> QED
    BY <2>2 DEF Counted
<1> QED
  BY <1>1, <1>2, <1>3, <1>4, <1>5, <1>6, <1>7

\* the operands of SCALAR_MULT as the frame has them,
LEMMA EdgeAsked ==
    ASSUME IInv, Counted, Asked, ~stopped, Posedge, IInv'
    PROVE  Asked'
<1> SUFFICES ASSUME ~stopped', state' \in {2, 3} \/ again'
             PROVE  sm_op' = Decode(frame)'
  BY DEF Asked
<1>1. /\ frame' = frame /\ state \in 0 .. 3
      /\ again' = (again \/ state = 3)
  BY EdgeMoves
<1>2. CASE state # 1 /\ (state \in {2, 3} \/ again)
  <2>1. sm_op = Decode(frame)
    BY <1>2 DEF Asked
  <2>2. sm_op' = sm_op
    BY <1>2, SameOperands
  <2> QED
    BY <1>1, <2>1, <2>2
<1>3. CASE state = 1
  <2>1. ~again /\ ~again'
    <3>1. ~again
      BY <1>3 DEF Counted
    <3> QED
      BY <1>3, <3>1, EdgeAgain
  <2>2. read_cnt = 5
    BY <1>3, <2>1, EdgeMoves
  <2>3. sm_start'
    BY <1>3, <2>2 DEF Posedge, Ecc, read_data
  <2> QED
    BY <2>1, <2>3 DEF IInv, FrameReceived
<1>4. CASE state = 0 /\ ~again
  <2>1. ~again'
    BY <1>4, EdgeAgain
  <2>2. state' \in 0 .. 1
    BY <1>4, EdgeMoves
  <2> QED
    BY <2>1, <2>2
<1> QED
  BY <1>1, <1>2, <1>3, <1>4

\* and the lines true to the frame and to its result.
LEMMA EdgePrinted ==
    ASSUME IInv, Untouched, Counted, Printed, Asked, ~stopped, Posedge, monitor
    PROVE  Printed'
<1>1. /\ state \in 0 .. 3 /\ read_cnt \in 0 .. 5 /\ write_cnt \in 0 .. 2
      /\ frame' = frame
  BY EdgeMoves
<1>2. CASE UNCHANGED monVars
  BY <1>1, <1>2 DEF monVars, Printed, Part
<1>3. CASE ~again /\ P0 = 1 /\ cnt <= 6
  <2>1. /\ inputs' = Append(inputs, P1) /\ cnt' = cnt + 1
        /\ outputs' = outputs
    BY <1>3, MonitorLine
  <2>2. /\ cnt \in 0 .. 6
        /\ P1 = IF cnt + 1 = 1 THEN 0 ELSE frame[cnt]
    <3>1. sent \in 0 .. 7 /\ sent # 0
      BY <1>3 DEF IInv, TypeOK, InStep
    <3>2. CASE state = 0
      <4>1. sent = 1 /\ cnt = 0
        BY <1>3, <3>1, <3>2 DEF IInv, InStep, Counted
      <4> QED
        BY <4>1 DEF Untouched
    <3>3. CASE state = 1
      <4>1. sent = read_cnt + 2 /\ cnt = read_cnt + 1 /\ P1 = frame[sent - 1]
        BY <1>1, <1>3, <3>3 DEF IInv, InStep, Counted
      <4>2. sent - 1 = cnt /\ cnt \in 1 .. 6 /\ cnt + 1 # 1
        BY <1>1, <4>1
      <4> QED
        BY <4>1, <4>2
    <3>4. state \notin {2, 3}
      BY <1>3 DEF Counted
    <3> QED
      BY <1>1, <3>2, <3>3, <3>4
  <2>3. P1 \in Byte
    BY DEF IInv, TypeOK
  <2>4. inputs \in Seq(Byte) /\ Len(inputs) = cnt
    BY <2>2 DEF Printed
  <2>5. /\ inputs' \in Seq(Byte) /\ Len(inputs') = cnt + 1
        /\ \A k \in 1 .. cnt : inputs'[k] = inputs[k]
        /\ inputs'[cnt + 1] = P1
    BY <2>1, <2>3, <2>4, AppendProperties
  <2>6. \A k \in 1 .. Len(inputs') :
           inputs'[k] = IF k = 1 THEN 0 ELSE frame[k - 1]
    <3> SUFFICES ASSUME NEW k \in 1 .. cnt + 1
                 PROVE  inputs'[k] = IF k = 1 THEN 0 ELSE frame[k - 1]
      BY <2>5
    <3>1. CASE k = cnt + 1
      <4>1. k - 1 = cnt
        BY <2>2, <3>1
      <4> QED
        BY <2>2, <2>5, <3>1, <4>1
    <3>2. CASE k # cnt + 1
      <4>1. k \in 1 .. cnt
        BY <2>2, <3>2
      <4>2. inputs[k] = IF k = 1 THEN 0 ELSE frame[k - 1]
        BY <2>4, <4>1 DEF Printed
      <4> QED
        BY <2>5, <4>1, <4>2
    <3> QED
      BY <3>1, <3>2
  <2>7. /\ Len(outputs) = 0 /\ outputs \in Seq(Byte)
        /\ Len(inputs') = IF cnt' <= 7 THEN cnt' ELSE 7
        /\ cnt' <= 7
    BY <2>1, <2>2, <2>5 DEF Printed
  <2> QED
    BY <1>1, <2>1, <2>5, <2>6, <2>7 DEF Printed
<1>4. CASE again
  <2>1. /\ outputs' = Append(outputs, result) /\ cnt' = cnt + 1
        /\ inputs' = inputs
    BY <1>4, MonitorLine DEF P2
  <2>2. /\ cnt \in 7 .. 9 /\ result \in Byte
        /\ result = Part(Compute(Decode(frame)), cnt - 6)
    <3>1. sm_op = Decode(frame) /\ valid = 1
      BY <1>4 DEF Asked, Counted
    <3>2. result = Part(Compute(sm_op), IF state = 3 THEN write_cnt ELSE 3)
      BY <3>1 DEF IInv, ValidBytes
    <3>3. cnt \in 7 .. 9 /\ cnt - 6 = IF state = 3 THEN write_cnt ELSE 3
      BY <1>1, <1>4 DEF Counted
    <3> QED
      BY <3>1, <3>2, <3>3 DEF IInv, TypeOK
  <2>3. outputs \in Seq(Byte) /\ Len(outputs) = cnt - 7
    BY <2>2 DEF Printed
  <2>4. /\ outputs' \in Seq(Byte) /\ Len(outputs') = cnt - 7 + 1
        /\ \A k \in 1 .. cnt - 7 : outputs'[k] = outputs[k]
        /\ outputs'[cnt - 7 + 1] = result
    BY <2>1, <2>2, <2>3, AppendProperties
  <2>5. \A k \in 1 .. Len(outputs') :
           outputs'[k] = Part(Compute(Decode(frame)), k)
    <3> SUFFICES ASSUME NEW k \in 1 .. cnt - 7 + 1
                 PROVE  outputs'[k] = Part(Compute(Decode(frame)), k)
      BY <2>4
    <3>1. CASE k = cnt - 6
      <4>1. cnt - 7 + 1 = cnt - 6
        BY <2>2
      <4> QED
        BY <2>2, <2>4, <3>1, <4>1
    <3>2. CASE k # cnt - 6
      <4>1. k \in 1 .. cnt - 7
        BY <2>2, <3>2
      <4> QED
        BY <2>3, <2>4, <4>1 DEF Printed
    <3> QED
      BY <3>1, <3>2
  <2>6. /\ Len(outputs') = IF cnt' <= 7 THEN 0 ELSE cnt' - 7
        /\ Len(inputs) = IF cnt' <= 7 THEN cnt' ELSE 7
    BY <2>1, <2>2, <2>4 DEF Printed
  <2>7. inputs' \in Seq(Byte) /\ \A k \in 1 .. Len(inputs') :
           inputs'[k] = IF k = 1 THEN 0 ELSE frame[k - 1]
    BY <2>1 DEF Printed
  <2> QED
    BY <1>1, <2>1, <2>4, <2>5, <2>6, <2>7 DEF Printed
<1>5. ~again => (P0 = 1 /\ cnt <= 6) \/ UNCHANGED monVars
  <2>1. P0 \in {0, 1}
    BY DEF IInv, TypeOK
  <2>2. ~again => cnt <= 6 \/ cnt = 7
    BY <1>1 DEF Counted
  <2> QED
    BY <2>1, <2>2, MonitorLine
<1> QED
  BY <1>2, <1>3, <1>4, <1>5

\* Every step of ECC and of the monitor keeps both invariants.
LEMMA StepMonIInv ==
    ASSUME IInv, MonIInv, [MonNext]_<<vars, monVars>>
    PROVE  IInv' /\ MonIInv'
<1>1. CASE UNCHANGED <<vars, monVars>>
  <2>1. IInv'
    BY <1>1, StepIInv
  <2>2. MonIInv'
    BY <1>1 DEF vars, monVars, cpuVars, eccRegs, smInputs, MonIInv, Untouched,
                Counted, Printed, Asked, Part, Decode, sm_op
  <2> QED
    BY <2>1, <2>2
<1>2. CASE MonNext
  <2>1. Next /\ ~stopped /\ IInv'
    BY <1>2, StepIInv DEF MonNext
  <2>2. Untouched'
    BY <2>1, EdgeUntouched DEF MonIInv
  <2>3. watched' = watched
    BY <1>2 DEF MonNext, monitor, monVars
  <2>4. ASSUME watched
        PROVE  Counted' /\ Printed' /\ Asked'
    <3>1. Untouched /\ Counted /\ Printed /\ Asked /\ monitor
      BY <1>2, <2>4 DEF MonIInv, MonNext
    <3>2. CASE Release
      BY <3>1, <3>2, ReleaseKeeps
    <3>3. CASE Posedge
      BY <2>1, <3>1, <3>3, EdgeCounted, EdgePrinted, EdgeAsked
    <3> QED
      BY <2>1, <3>2, <3>3 DEF Next
  <2>5. ~watched => ~stopped'
    BY <1>2, <2>1 DEF MonNext, monVars
  <2> QED
    BY <2>1, <2>2, <2>3, <2>4, <2>5 DEF MonIInv
<1> QED
  BY <1>1, <1>2

\* The demonstration prints what it should, for every width of a byte, every
\* frame and every function SCALAR_MULT may compute: when ECC_mon stops the
\* simulation it has shown the seven bytes that were on P1, and the result for
\* the frame and not for the computation ECC begins on its own afterwards.
THEOREM Reporting == MonSpec => []Report
<1>1. IInv /\ MonIInv => Report
  <2> SUFFICES ASSUME IInv, MonIInv, stopped
               PROVE  /\ inputs = <<0>> \o frame
                      /\ outputs = [k \in 1 .. 3 |-> Part(Compute(Decode(frame)), k)]
    BY DEF Report
  <2>1. cnt = 10 /\ Printed
    BY DEF MonIInv, Counted
  <2>2. inputs \in Seq(Byte) /\ outputs \in Seq(Byte) /\ Len(inputs) = 7 /\ Len(outputs) = 3
    BY <2>1 DEF Printed
  <2>3. frame \in Seq(Byte) /\ Len(frame) = 6
    BY FrameIsSeq DEF IInv
  <2>4. <<0>> \in Seq(Byte) /\ Len(<<0>>) = 1 /\ <<0>>[1] = 0
    BY Smallest
  <2>5. inputs = <<0>> \o frame
    <3>1. /\ <<0>> \o frame \in Seq(Byte) /\ Len(<<0>> \o frame) = 7
          /\ \A k \in 1 .. 7 : (<<0>> \o frame)[k]
                                 = IF k <= 1 THEN <<0>>[k] ELSE frame[k - 1]
      <4>1. /\ <<0>> \o frame \in Seq(Byte)
            /\ Len(<<0>> \o frame) = Len(<<0>>) + Len(frame)
            /\ \A k \in 1 .. Len(<<0>>) + Len(frame) :
                  (<<0>> \o frame)[k] = IF k <= Len(<<0>>) THEN <<0>>[k]
                                        ELSE frame[k - Len(<<0>>)]
        BY <2>3, <2>4, ConcatProperties
      <4>2. Len(<<0>>) = 1 /\ Len(<<0>>) + Len(frame) = 7
        BY <2>3, <2>4
      <4> QED
        BY <4>1, <4>2
    <3>2. \A k \in 1 .. 7 : inputs[k] = (<<0>> \o frame)[k]
      BY <2>1, <2>2, <2>4, <3>1 DEF Printed
    <3> QED
      BY <2>2, <3>1, <3>2, SeqEqual
  <2>6. outputs = [k \in 1 .. 3 |-> Part(Compute(Decode(frame)), k)]
    <3>1. outputs \in [1 .. 3 -> Byte]
      BY <2>2, LenProperties
    <3> QED
      BY <2>1, <2>2, <3>1 DEF Printed
  <2> QED
    BY <2>5, <2>6
<1> QED
  BY <1>1, InitMonIInv, StepMonIInv, PTL DEF MonSpec
=============================================================================
