------------------------------ MODULE CpuProofs ------------------------------
(***************************************************************************)
(* Proofs about core_8051.  Its interrupt system, for every set of         *)
(* sources, program, reload value and choice of enables and priorities:    *)
(* the registers keep their range and service routines nest.  Its          *)
(* arithmetic, for every byte: what add, sub and da compute, and what      *)
(* their flags say.                                                        *)
(***************************************************************************)
EXTENDS Interrupts, Alu, SequenceTheorems, TLAPS

\* The vectors and address 0, where a reset sends the program, are addresses.
LEMMA Addresses ==
    /\ 0 \in Address /\ Program \subseteq Address
    /\ \A s \in Sources : Vector(s) \in Address
BY InterruptAssumption DEF Address

\* A request that is taken is that of one source in use.
LEMMA TakenInUse ==
    ASSUME TypeOK PROVE check_interrupt \subseteq Sources
BY DEF TypeOK, check_interrupt, First, Asking

\* Whatever set_interrupt takes and the lines are, its three registers stay
\* in range.
LEMMA SetInterruptTyped ==
    ASSUME TypeOK, NEW taken, NEW lines \in SUBSET External
    PROVE  /\ Pending(taken, lines) \subseteq Sources
           /\ Counted \in [Timers -> 0 .. Reload]
           /\ lines \subseteq External
<1>1. Pending(taken, lines) \subseteq Sources
  BY DEF TypeOK, Pending, Latched, Overflown, External, Timers
<1>2. Counted \in [Timers -> 0 .. Reload]
  <2>1. ASSUME NEW s \in Timers
        PROVE (IF s \notin running THEN timer[s]
               ELSE IF timer[s] = 0 THEN Reload ELSE timer[s] - 1) \in 0 .. Reload
    <3>1. timer[s] \in 0 .. Reload /\ Reload \in Nat
      BY <2>1, InterruptAssumption DEF TypeOK
    <3> QED BY <3>1
  <2> QED BY <2>1 DEF Counted
<1> QED BY <1>1, <1>2

\* The timers before the first edge and after a reset.
LEMMA StoppedTyped == [s \in Timers |-> 0] \in [Timers -> 0 .. Reload]
<1>1. 0 \in 0 .. Reload
  BY InterruptAssumption
<1> QED BY <1>1

\* TypeOK is inductive: it holds at first,
LEMMA TypedInit == Init => TypeOK
BY Addresses, StoppedTyped DEF Init, TypeOK

\* and every edge preserves it, whatever it does.
LEMMA TypedStep ==
    ASSUME TypeOK, [Next]_vars PROVE TypeOK'
<1> USE Addresses
<1>1. CASE UNCHANGED vars
  BY <1>1 DEF TypeOK, vars, cpu, control, service
<1>2. ASSUME NEW lines \in SUBSET External, Stall(lines) PROVE TypeOK'
  BY <1>2, SetInterruptTyped
     DEF TypeOK, Stall, SetInterrupt, cpu, control, service
<1>3. ASSUME NEW lines \in SUBSET External, NEW s \in Sources, Take(s, lines)
      PROVE TypeOK'
  <2>1. /\ flag' \subseteq Sources /\ timer' \in [Timers -> 0 .. Reload]
        /\ bextint' \subseteq External
    BY <1>3, SetInterruptTyped DEF Take, SetInterrupt
  <2>2. iret_high' \in Address /\ iret_low' \in Address
    BY <1>3 DEF Take, TypeOK
  <2> QED BY <1>3, <2>1, <2>2 DEF TypeOK, Take, control
<1>4. ASSUME NEW lines \in SUBSET External, Sleep(lines) PROVE TypeOK'
  BY <1>4, SetInterruptTyped DEF TypeOK, Sleep, SetInterrupt, control, service
<1>5. ASSUME NEW lines \in SUBSET External, NEW memory \in BOOLEAN,
             Plain(lines, memory)
      PROVE TypeOK'
  BY <1>5, SetInterruptTyped DEF TypeOK, Plain, SetInterrupt, control, service
<1>6. ASSUME NEW lines \in SUBSET External, WriteIdle(lines) PROVE TypeOK'
  BY <1>6, SetInterruptTyped DEF TypeOK, WriteIdle, SetInterrupt, control, service
<1>7. ASSUME NEW lines \in SUBSET External, WriteIE(lines) PROVE TypeOK'
  BY <1>7, SetInterruptTyped, InterruptAssumption
     DEF TypeOK, WriteIE, SetInterrupt, service
<1>8. ASSUME NEW lines \in SUBSET External, WriteIP(lines) PROVE TypeOK'
  BY <1>8, SetInterruptTyped, InterruptAssumption
     DEF TypeOK, WriteIP, SetInterrupt, service
<1>9. ASSUME NEW lines \in SUBSET External, WriteTCON(lines) PROVE TypeOK'
  BY <1>9, SetInterruptTyped DEF TypeOK, WriteTCON, service
<1>10. ASSUME NEW lines \in SUBSET External, WriteTimer(lines) PROVE TypeOK'
  BY <1>10, SetInterruptTyped DEF TypeOK, WriteTimer, control, service
<1>11. ASSUME NEW lines \in SUBSET External, Reti(lines) PROVE TypeOK'
  BY <1>11, SetInterruptTyped DEF TypeOK, Reti, SetInterrupt, control
<1>12. CASE Reset
  BY <1>12, StoppedTyped DEF TypeOK, Reset
<1> QED BY <1>1, <1>2, <1>3, <1>4, <1>5, <1>6, <1>7, <1>8, <1>9, <1>10, <1>11,
           <1>12 DEF Next, Run, Execute

\* For every choice of the constants, no register of the interrupt system
\* leaves its range: set_interrupt, entry and RETI of core_8051.
THEOREM Typed == Spec => []TypeOK
BY TypedInit, TypedStep, PTL DEF Spec

-----------------------------------------------------------------------------
(***************************************************************************)
(* Nesting.  A step that touches neither intack nor IP nor a return        *)
(* register in use leaves Frames alone; Take appends a frame and Reti      *)
(* removes the last one.                                                   *)
(***************************************************************************)
\* The two frames there can be are the inner one appended to the outer one.
LEMMA AppendToOne ==
    ASSUME NEW a, NEW b PROVE Append(<<a>>, b) = <<a, b>>
<1> DEFINE s == Append(<<a>>, b)
           t == <<a, b>>
           S == {a, b}
<1>1. <<a>> \in Seq(S) /\ Len(<<a>>) = 1 /\ <<a>>[1] = a
  OBVIOUS
<1>2. s \in Seq(S) /\ Len(s) = 2 /\ s[1] = a /\ s[2] = b
  BY <1>1, AppendProperties
<1>3. t \in Seq(S) /\ Len(t) = 2 /\ t[1] = a /\ t[2] = b
  OBVIOUS
<1>4. \A i \in 1 .. 2 : i = 1 \/ i = 2
  OBVIOUS
<1> HIDE DEF s, t, S
<1>5. s = t
  BY <1>2, <1>3, <1>4, SeqEqual
<1> QED BY <1>5 DEF s, t

\* No frame changes while what Frames reads does not.
LEMMA FramesKept ==
    ASSUME UNCHANGED <<intack, IP, iret_high, iret_low>>
    PROVE  UNCHANGED Frames
BY DEF Frames, LowFrame, HighFrame

\* IP may change while no routine is in progress.
LEMMA FramesEmpty ==
    ASSUME intack = {}, intack' = {} PROVE Frames = <<>> /\ Frames' = <<>>
BY DEF Frames

\* An interrupt is a call, at a level nothing in progress keeps out.
LEMMA TakeCalls ==
    ASSUME TypeOK, TypeOK', NEW lines, NEW s \in Sources, Take(s, lines)
    PROVE  \E level \in Nested!Levels : Nested!Call(level)
<1>1. intack \cap IP = {} /\ s \notin intack \cap IP
  BY DEF Take, check_interrupt
<1>2. IP' = IP /\ intack' = intack \cup {s} /\ PC' \in Address
  BY DEF Take, control, TypeOK
<1>3. CASE s \in IP
  <2>1. iret_high' = PC /\ iret_low' = iret_low
    BY <1>3 DEF Take
  <2>2. Frames = IF intack = {} THEN <<>> ELSE <<LowFrame>>
    BY <1>1 DEF Frames
  <2>3. Frames' = IF intack = {} THEN <<HighFrame'>>
                                 ELSE <<LowFrame, HighFrame'>>
    BY <1>1, <1>2, <1>3, <2>1 DEF Frames, LowFrame
  <2>4. HighFrame' = [level |-> "high", ret |-> PC]
    BY <2>1 DEF HighFrame
  <2>5. Frames' = Append(Frames, [level |-> "high", ret |-> PC])
    <3>1. CASE intack = {}
      BY <2>2, <2>3, <2>4, <3>1
    <3>2. CASE intack # {}
      <4>1. Frames = <<LowFrame>> /\ Frames' = <<LowFrame, HighFrame'>>
        BY <2>2, <2>3, <3>2
      <4> QED BY <2>4, <4>1, AppendToOne
    <3> QED BY <3>1, <3>2
  <2>6. Nested!MayCall("high")
    BY <2>2 DEF Nested!MayCall, LowFrame
  <2>7. Nested!Call("high")
    BY <1>2, <2>5, <2>6 DEF Nested!Call
  <2> QED BY <2>7 DEF Nested!Levels
<1>4. CASE s \notin IP
  <2>1. iret_low' = PC
    BY <1>4 DEF Take
  <2>2. intack = {}
    BY <1>4 DEF Take, check_interrupt, First
  <2>3. Frames = <<>> /\ Frames' = <<LowFrame'>>
    BY <1>2, <1>4, <2>2 DEF Frames
  <2>4. LowFrame' = [level |-> "low", ret |-> PC]
    BY <2>1 DEF LowFrame
  <2>5. Frames' = Append(Frames, [level |-> "low", ret |-> PC])
    BY <2>3, <2>4
  <2>6. Nested!MayCall("low")
    BY <2>3 DEF Nested!MayCall
  <2>7. Nested!Call("low")
    BY <1>2, <2>5, <2>6 DEF Nested!Call
  <2> QED BY <2>7 DEF Nested!Levels
<1> QED BY <1>3, <1>4

\* RETI is a return from the innermost routine.
LEMMA RetiReturns ==
    ASSUME TypeOK, NEW lines, Reti(lines)
    PROVE  Nested!Return
<1>1. /\ intack # {} /\ IP' = IP
      /\ iret_high' = iret_high /\ iret_low' = iret_low
  BY DEF Reti, control
<1>2. HighFrame \in Nested!Frame /\ LowFrame \in Nested!Frame
  BY DEF TypeOK, HighFrame, LowFrame, Nested!Frame, Nested!Levels
<1>3. LowFrame' = LowFrame
  BY <1>1 DEF LowFrame
<1>4. CASE intack \cap IP = {}
  <2>1. intack' = {} /\ PC' = iret_low
    BY <1>4 DEF Reti
  <2>2. Frames = <<LowFrame>> /\ Frames' = <<>>
    BY <1>1, <1>4, <2>1 DEF Frames
  <2>3. Frames = Append(Frames', LowFrame) /\ PC' = LowFrame.ret
    BY <2>1, <2>2 DEF LowFrame
  <2> QED BY <1>2, <2>3 DEF Nested!Return
<1>5. CASE intack \cap IP # {}
  <2>1. intack' = intack \ IP /\ PC' = iret_high
    BY <1>5 DEF Reti
  <2>2. Frames' = IF intack \subseteq IP THEN <<>> ELSE <<LowFrame>>
    BY <1>1, <1>3, <2>1 DEF Frames
  <2>3. Frames = IF intack \subseteq IP THEN <<HighFrame>>
                                        ELSE <<LowFrame, HighFrame>>
    BY <1>1, <1>5 DEF Frames
  <2>4. PC' = HighFrame.ret
    BY <2>1 DEF HighFrame
  <2>5. Frames = Append(Frames', HighFrame)
    <3>1. /\ Append(<<>>, HighFrame) = <<HighFrame>>
          /\ Append(<<LowFrame>>, HighFrame) = <<LowFrame, HighFrame>>
      BY AppendToOne
    <3> QED BY <2>2, <2>3, <3>1
  <2> QED BY <1>2, <2>4, <2>5 DEF Nested!Return
<1> QED BY <1>4, <1>5

\* Every edge is a step of the abstract specification or leaves it alone.
LEMMA NestedStep ==
    ASSUME TypeOK, TypeOK', [Next]_vars
    PROVE  [Nested!Next]_Nested!nvars
<1> USE DEF Nested!Next
<1>0. PC' \in Address
  BY DEF TypeOK
<1>1. ASSUME UNCHANGED <<intack, IP, iret_high, iret_low>> PROVE Nested!Step
  BY <1>0, <1>1, FramesKept DEF Nested!Step
<1>2. CASE UNCHANGED vars
  BY <1>1, <1>2 DEF vars, service, control
<1>3. ASSUME NEW lines, Stall(lines) PROVE Nested!Next
  BY <1>1, <1>3 DEF Stall, service, control
<1>4. ASSUME NEW lines, NEW s \in Sources, Take(s, lines) PROVE Nested!Next
  BY <1>4, TakeCalls
<1>5. ASSUME NEW lines, Sleep(lines) PROVE Nested!Next
  BY <1>1, <1>5 DEF Sleep, service, control
<1>6. ASSUME NEW lines, NEW memory \in BOOLEAN, Plain(lines, memory)
      PROVE Nested!Next
  BY <1>1, <1>6 DEF Plain, service, control
<1>7. ASSUME NEW lines, WriteIdle(lines) PROVE Nested!Next
  BY <1>1, <1>7 DEF WriteIdle, service, control
<1>8. ASSUME NEW lines, WriteIE(lines) PROVE Nested!Next
  BY <1>1, <1>8 DEF WriteIE, service
<1>9. ASSUME NEW lines, WriteIP(lines) PROVE Nested!Next
  BY <1>0, <1>9, FramesEmpty DEF WriteIP, service, Nested!Step
<1>10. ASSUME NEW lines, WriteTCON(lines) PROVE Nested!Next
  BY <1>1, <1>10 DEF WriteTCON, service
<1>11. ASSUME NEW lines, WriteTimer(lines) PROVE Nested!Next
  BY <1>1, <1>11 DEF WriteTimer, service, control
<1>12. ASSUME NEW lines, Reti(lines) PROVE Nested!Next
  BY <1>12, RetiReturns
<1>13. CASE Reset
  BY <1>13 DEF Reset, Frames, Nested!Reset
<1> QED BY <1>2, <1>3, <1>4, <1>5, <1>6, <1>7, <1>8, <1>9, <1>10, <1>11, <1>12,
           <1>13 DEF Next, Run, Execute

\* Service routines nest for every program, every set of sources and every
\* choice of priorities: check_interrupt, entry and RETI of core_8051 keep two
\* return registers as a stack of two.
THEOREM Nesting == Spec => RoutinesNest
<1>1. Init => Nested!Init
  BY DEF Init, Nested!Init, Frames
<1>2. TypeOK /\ TypeOK' /\ [Next]_vars => [Nested!Next]_Nested!nvars
  BY NestedStep
<1> QED BY Typed, <1>1, <1>2, PTL DEF Spec, RoutinesNest, Nested!Spec

-----------------------------------------------------------------------------
Bit == 0 .. 1

\* A byte read as a signed number.
Signed(a) == IF a < 128 THEN a ELSE a - 256

\* Every byte is the join of its slices.
LEMMA Slices ==
    ASSUME NEW a \in Byte
    PROVE  \E t \in Bit, m \in 0 .. 7, l \in 0 .. 15 :
              /\ a = 128 * t + 16 * m + l
              /\ Top(a) = t /\ Middle(a) = m /\ Low(a) = l
              /\ Signed(a) = a - 256 * t
  BY DEF Byte, Bit, Low, Middle, Top, Signed

\* A slice and what it carries.
LEMMA Carry ==
    /\ \A n \in 0 .. 31 : \E q \in Bit, r \in 0 .. 15 :
          n = 16 * q + r /\ n \div 16 = q /\ n % 16 = r
    /\ \A n \in 0 .. 15 : \E q \in Bit, r \in 0 .. 7 :
          n = 8 * q + r /\ n \div 8 = q /\ n % 8 = r
    /\ \A n \in 0 .. 3 : \E q \in Bit, r \in Bit :
          n = 2 * q + r /\ n \div 2 = q /\ n % 2 = r
  BY DEF Bit

\* add is addition modulo 256; CF is the carry out of it, AC the carry out of
\* the lower digit, and OV says that the signed sum does not fit a byte.
THEOREM AddCorrect ==
    ASSUME NEW a \in Byte, NEW b \in Byte, NEW c \in Bit
    PROVE  LET s == add(a, b, c) IN
           /\ s.res = (a + b + c) % 256
           /\ s.CF = IF a + b + c > 255 THEN 1 ELSE 0
           /\ s.AC = IF Low(a) + Low(b) + c > 15 THEN 1 ELSE 0
           /\ s.OV = IF Signed(a) + Signed(b) + c \in -128 .. 127 THEN 0 ELSE 1
<1>1. PICK at \in Bit, am \in 0 .. 7, al \in 0 .. 15 :
         /\ a = 128 * at + 16 * am + al
         /\ Top(a) = at /\ Middle(a) = am /\ Low(a) = al
         /\ Signed(a) = a - 256 * at
  BY Slices
<1>2. PICK bt \in Bit, bm \in 0 .. 7, bl \in 0 .. 15 :
         /\ b = 128 * bt + 16 * bm + bl
         /\ Top(b) = bt /\ Middle(b) = bm /\ Low(b) = bl
         /\ Signed(b) = b - 256 * bt
  BY Slices
<1>3. PICK q1 \in Bit, r1 \in 0 .. 15 :
         LET n == al + bl + c IN n = 16 * q1 + r1 /\ n \div 16 = q1 /\ n % 16 = r1
  <2>1. al + bl + c \in 0 .. 31
    BY DEF Bit
  <2> QED
    BY <2>1, Carry
<1>4. PICK q2 \in Bit, r2 \in 0 .. 7 :
         LET n == am + bm + q1 IN n = 8 * q2 + r2 /\ n \div 8 = q2 /\ n % 8 = r2
  <2>1. am + bm + q1 \in 0 .. 15
    BY DEF Bit
  <2> QED
    BY <2>1, Carry
<1>5. PICK q3 \in Bit, r3 \in Bit :
         LET n == at + bt + q2 IN n = 2 * q3 + r3 /\ n \div 2 = q3 /\ n % 2 = r3
  <2>1. at + bt + q2 \in 0 .. 3
    BY DEF Bit
  <2> QED
    BY <2>1, Carry
<1>6. add(a, b, c) = [res |-> 128 * r3 + 16 * r2 + r1,
                      AC |-> q1, CF |-> q3, OV |-> Xor(q3, q2)]
  BY <1>1, <1>2, <1>3, <1>4, <1>5 DEF add, Join
<1>7. a + b + c = 256 * q3 + (128 * r3 + 16 * r2 + r1)
  BY <1>1, <1>2, <1>3, <1>4, <1>5 DEF Bit
<1>8. 128 * r3 + 16 * r2 + r1 \in Byte
  BY DEF Bit, Byte
<1>9. 128 * r3 + 16 * r2 + r1 = (a + b + c) % 256
  BY <1>7, <1>8 DEF Bit, Byte
<1>10. q3 = IF a + b + c > 255 THEN 1 ELSE 0
  BY <1>7, <1>8 DEF Bit, Byte
<1>11. q1 = IF Low(a) + Low(b) + c > 15 THEN 1 ELSE 0
  <2>1. Low(a) + Low(b) + c = 16 * q1 + r1
    BY <1>1, <1>2, <1>3
  <2> QED
    BY <2>1 DEF Bit
<1>12. Xor(q3, q2) = IF Signed(a) + Signed(b) + c \in -128 .. 127 THEN 0 ELSE 1
  <2>1. Signed(a) + Signed(b) + c = 128 * r3 + 16 * r2 + r1 + 256 * (q2 - q3 - r3)
    <3>1. Signed(a) + Signed(b) + c = (a + b + c) - 256 * (at + bt)
      BY <1>1, <1>2 DEF Bit, Byte
    <3>2. at + bt = 2 * q3 + r3 - q2
      BY <1>5 DEF Bit
    <3> QED
      BY <3>1, <3>2, <1>7 DEF Bit, Byte
  <2> QED
    BY <2>1, <1>5 DEF Bit, Xor
<1> QED
  BY <1>6, <1>9, <1>10, <1>11, <1>12

\* sub is subtraction modulo 256; CF is the borrow, AC the borrow of the lower
\* digit, and OV says that the signed difference does not fit a byte.
THEOREM SubCorrect ==
    ASSUME NEW a \in Byte, NEW b \in Byte, NEW c \in Bit
    PROVE  LET s == sub(a, b, c) IN
           /\ s.res = (a - b - c) % 256
           /\ s.CF = IF a < b + c THEN 1 ELSE 0
           /\ s.AC = IF Low(a) < Low(b) + c THEN 1 ELSE 0
           /\ s.OV = IF Signed(a) - Signed(b) - c \in -128 .. 127 THEN 0 ELSE 1
<1>1. PICK at \in Bit, am \in 0 .. 7, al \in 0 .. 15 :
         /\ a = 128 * at + 16 * am + al
         /\ Top(a) = at /\ Middle(a) = am /\ Low(a) = al
         /\ Signed(a) = a - 256 * at
  BY Slices
<1>2. PICK bt \in Bit, bm \in 0 .. 7, bl \in 0 .. 15 :
         /\ b = 128 * bt + 16 * bm + bl
         /\ Top(b) = bt /\ Middle(b) = bm /\ Low(b) = bl
         /\ Signed(b) = b - 256 * bt
  BY Slices
<1>3. PICK q1 \in Bit, r1 \in 0 .. 15 :
         LET n == 16 + al - bl - c IN
         n = 16 * q1 + r1 /\ n \div 16 = q1 /\ n % 16 = r1
  <2>1. 16 + al - bl - c \in 0 .. 31
    BY DEF Bit
  <2> QED
    BY <2>1, Carry
<1>4. PICK q2 \in Bit, r2 \in 0 .. 7 :
         LET n == 8 + am - bm - (1 - q1) IN
         n = 8 * q2 + r2 /\ n \div 8 = q2 /\ n % 8 = r2
  <2>1. 8 + am - bm - (1 - q1) \in 0 .. 15
    BY DEF Bit
  <2> QED
    BY <2>1, Carry
<1>5. PICK q3 \in Bit, r3 \in Bit :
         LET n == 2 + at - bt - (1 - q2) IN
         n = 2 * q3 + r3 /\ n \div 2 = q3 /\ n % 2 = r3
  <2>1. 2 + at - bt - (1 - q2) \in 0 .. 3
    BY DEF Bit
  <2> QED
    BY <2>1, Carry
<1>6. sub(a, b, c) = [res |-> 128 * r3 + 16 * r2 + r1,
                      AC |-> 1 - q1, CF |-> 1 - q3, OV |-> Xor(1 - q3, 1 - q2)]
  BY <1>1, <1>2, <1>3, <1>4, <1>5 DEF sub, Join
<1>7. a - b - c = (128 * r3 + 16 * r2 + r1) - 256 * (1 - q3)
  BY <1>1, <1>2, <1>3, <1>4, <1>5 DEF Bit
<1>8. 128 * r3 + 16 * r2 + r1 \in Byte
  BY DEF Bit, Byte
<1>9. 128 * r3 + 16 * r2 + r1 = (a - b - c) % 256
  BY <1>7, <1>8 DEF Bit, Byte
<1>10. 1 - q3 = IF a < b + c THEN 1 ELSE 0
  BY <1>7, <1>8 DEF Bit, Byte
<1>11. 1 - q1 = IF Low(a) < Low(b) + c THEN 1 ELSE 0
  <2>1. 16 + Low(a) - Low(b) - c = 16 * q1 + r1
    BY <1>1, <1>2, <1>3
  <2>2. Low(a) \in Int /\ Low(b) \in Int
    BY <1>1, <1>2
  <2> QED
    BY <2>1, <2>2 DEF Bit
<1>12. Xor(1 - q3, 1 - q2)
         = IF Signed(a) - Signed(b) - c \in -128 .. 127 THEN 0 ELSE 1
  <2>1. Signed(a) - Signed(b) - c
          = 128 * r3 + 16 * r2 + r1 + 256 * ((1 - q3) - (1 - q2) - r3)
    <3>1. Signed(a) - Signed(b) - c = (a - b - c) - 256 * (at - bt)
      BY <1>1, <1>2 DEF Bit, Byte
    <3>2. at - bt = 2 * q3 + r3 - 2 + (1 - q2)
      BY <1>5 DEF Bit
    <3> QED
      BY <3>1, <3>2, <1>7 DEF Bit, Byte
  <2> QED
    BY <2>1, <1>5 DEF Bit, Xor
<1> QED
  BY <1>6, <1>9, <1>10, <1>11, <1>12

-----------------------------------------------------------------------------
\* A byte of two decimal digits, and the number they stand for.
Decimal(a) == a \in Byte /\ a % 16 <= 9 /\ a \div 16 <= 9
Number(a) == 10 * (a \div 16) + (a % 16)

\* The two decimal digits of a packed byte.
LEMMA Digits ==
    ASSUME NEW a, Decimal(a)
    PROVE  \E h \in 0 .. 9, l \in 0 .. 9 :
              /\ a = 16 * h + l /\ a \div 16 = h /\ a % 16 = l
              /\ Low(a) = l /\ Number(a) = 10 * h + l
  BY DEF Decimal, Byte, Low, Number

\* The two digits that da makes of the sum of digits l and h, as add left it.
LEMMA Adjusting ==
    ASSUME NEW l \in 0 .. 19, NEW h \in 0 .. 18,
           NEW r \in Byte, NEW cf \in Bit, NEW ac \in Bit,
           r + 256 * cf = 16 * h + l,
           ac = IF l > 15 THEN 1 ELSE 0
    PROVE  LET d == da(r, cf, ac) IN
           /\ Decimal(d.res) /\ d.CF \in Bit
           /\ 100 * d.CF + Number(d.res) = 10 * h + l
<1> DEFINE carry == IF l > 9 THEN 1 ELSE 0
           da1 == Adjusted(r % 16, ac = 1)
           da2 == Adjusted(16 * cf + (r \div 16) + (da1 \div 16), FALSE)
<1>1. r % 16 = l - 16 * ac /\ 16 * cf + (r \div 16) = h + ac
  BY DEF Bit, Byte
<1>2. da1 = IF l > 9 THEN l - 16 * ac + 6 ELSE l
  BY <1>1 DEF Adjusted, Bit
<1>3. da1 \div 16 = carry - ac /\ da1 % 16 = l - 10 * carry
  BY <1>2 DEF Bit
<1>4. 16 * cf + (r \div 16) + (da1 \div 16) = h + carry
  BY <1>1, <1>3 DEF Bit, Byte
<1>5. da2 = IF h + carry > 9 THEN h + carry + 6 ELSE h + carry
  BY <1>4 DEF Adjusted
<1>6. PICK u \in 0 .. 9, k \in Bit :
         h + carry = 10 * k + u /\ da2 % 16 = u /\ (da2 \div 16) % 2 = k
  <2>1. PICK n \in 0 .. 19 : n = h + carry
    OBVIOUS
  <2> HIDE DEF da2, carry
  <2>2. da2 = IF n > 9 THEN n + 6 ELSE n
    BY <1>5, <2>1
  <2>3. CASE n > 9
    <3>1. n = 10 * 1 + (n - 10) /\ da2 % 16 = n - 10 /\ (da2 \div 16) % 2 = 1
      BY <2>2, <2>3
    <3> QED
      BY <2>1, <2>3, <3>1 DEF Bit
  <2>4. CASE ~(n > 9)
    <3>1. n = 10 * 0 + n /\ da2 % 16 = n /\ (da2 \div 16) % 2 = 0
      BY <2>2, <2>4
    <3> QED
      BY <2>1, <2>4, <3>1 DEF Bit
  <2> QED
    BY <2>3, <2>4
<1>7. PICK v \in 0 .. 9 : v = l - 10 * carry
  OBVIOUS
<1>8. da(r, cf, ac) = [res |-> 16 * u + v, CF |-> k]
  BY <1>3, <1>6, <1>7 DEF da
<1>9. Decimal(16 * u + v) /\ Number(16 * u + v) = 10 * u + v
  BY DEF Decimal, Number, Byte
<1> QED
  BY <1>6, <1>7, <1>8, <1>9 DEF Bit

\* After an addition of decimal bytes, da leaves their decimal sum, the hundred
\* in CF: so decimal additions of any length chain as binary ones do.
THEOREM DecimalAddition ==
    ASSUME NEW a, Decimal(a), NEW b, Decimal(b), NEW c \in Bit
    PROVE  LET s == add(a, b, c)
               d == da(s.res, s.CF, s.AC)
           IN  /\ Decimal(d.res) /\ d.CF \in Bit
               /\ 100 * d.CF + Number(d.res) = Number(a) + Number(b) + c
<1> DEFINE s == add(a, b, c)
<1>1. a \in Byte /\ b \in Byte
  BY DEF Decimal
<1>2. PICK ah \in 0 .. 9, al \in 0 .. 9 :
         a = 16 * ah + al /\ Low(a) = al /\ Number(a) = 10 * ah + al
  BY Digits
<1>3. PICK bh \in 0 .. 9, bl \in 0 .. 9 :
         b = 16 * bh + bl /\ Low(b) = bl /\ Number(b) = 10 * bh + bl
  BY Digits
<1>4. PICK l \in 0 .. 19, h \in 0 .. 18 : l = al + bl + c /\ h = ah + bh
  BY DEF Bit
<1>5. /\ s.res = (a + b + c) % 256
      /\ s.CF = IF a + b + c > 255 THEN 1 ELSE 0
      /\ s.AC = IF Low(a) + Low(b) + c > 15 THEN 1 ELSE 0
  BY <1>1, AddCorrect
<1> HIDE DEF s
<1>6. a + b + c = 16 * h + l
  BY <1>2, <1>3, <1>4 DEF Bit
<1>7. /\ s.res \in Byte /\ s.CF \in Bit /\ s.res + 256 * s.CF = 16 * h + l
  BY <1>5, <1>6 DEF Byte, Bit
<1>8. s.AC \in Bit /\ s.AC = IF l > 15 THEN 1 ELSE 0
  BY <1>2, <1>3, <1>4, <1>5 DEF Bit
<1>9. LET d == da(s.res, s.CF, s.AC) IN
      /\ Decimal(d.res) /\ d.CF \in Bit
      /\ 100 * d.CF + Number(d.res) = 10 * h + l
  BY <1>7, <1>8, Adjusting
<1> QED
  BY <1>2, <1>3, <1>4, <1>9 DEF s, Bit
==============================================================================
