------------------------------ MODULE Core8051 ------------------------------
(***************************************************************************)
(* The instructions of core_8051, one per step, on the bytes of a program. *)
(* Interrupts may be taken between any two of them (Interrupts.tla says    *)
(* when; here a request can come at any time).  MOVX is in Movx.tla.       *)
(* Programs are assumed to leave PCON, IP, TCON and the timers alone, and  *)
(* to keep their stack inside the RAM.                                     *)
(***************************************************************************)
EXTENDS Alu, Sequences, SequencesExt

CONSTANTS
    Images,         \* the programs: bytes from address 0 on
    Pins,           \* for each program, what may be on the ports' pins
    RamSize,        \* 256 in core_8051.h
    MaxInterrupts   \* bound on the interrupts of a run

VARIABLES
    program, pins,          \* the rom, and the constant port inputs
    PC, mem,                \* mem: every register, flag and byte of ram
    intack, iret_low,       \* a routine is in progress; where it returns
    calls,                  \* history: the return addresses of calls
    taken                   \* history: the number of interrupts

vars == <<program, pins, PC, mem, intack, iret_low, calls, taken>>

(***************************************************************************)
(* Where values are kept.  The registers R0 .. R7 are not part of the ram. *)
(***************************************************************************)
Ram(a) == <<"ram", a>>
Reg(n) == <<"reg", n>>
Sfr(a) == <<"sfr", a>>
Flag(i) == <<"flag", i>>        \* by its bit in PSW

ACC == Sfr(224)
BCC == Sfr(240)
SP == Sfr(129)
DPL == Sfr(130)
DPH == Sfr(131)
CF == Flag(7)
AC == Flag(6)
OV == Flag(2)

Ports == {128, 144, 160, 176}
PSW == 208

\* The addresses write_SFR knows besides PSW and PCON: TCON 136, TL0 .. TU1
\* 138 .. 143, RCAPL0 .. RCAPU1 154 .. 159, IE 168, IP 184.
Stored == Ports \cup {129, 130, 131, 136} \cup 138 .. 143 \cup 154 .. 159
          \cup {168, 184, 224, 240}

\* read_SFR tests the addresses of TU0 and RCAPU0 twice instead of those of
\* TU1 (143) and RCAPU1 (159).
Readable == Stored \ {143, 159}

Locations == {Ram(a) : a \in 0 .. RamSize - 1} \cup {Reg(n) : n \in 0 .. 7}
             \cup {Sfr(a) : a \in Stored} \cup {CF, AC, OV}

A == mem[ACC]
dptr == 256 * mem[DPH] + mem[DPL]
vSP == mem[SP]

\* Seeded fault: an intermediate result is wider than a byte.
Fault_Char(v) == v

\* An unsigned char.
Char(v) == v % 256

\* The bits of a byte, and back.
Bits(v) == {i \in 0 .. 7 : (v \div 2^i) % 2 = 1}
FromBits(S) == MapThenSumSet(LAMBDA i : 2^i, S)

-----------------------------------------------------------------------------
(***************************************************************************)
(* The direct addresses: ram, or a special function register.              *)
(***************************************************************************)
Parity == Cardinality(Bits(A)) % 2

ReadPSW == 128 * mem[CF] + 64 * mem[AC] + 4 * mem[OV] + Parity

\* Instructions that modify a port read its latch (rmw), others its pins.
ReadDirect(a, rmw) ==
    CASE a < 128 -> mem[Ram(a)]
      [] a \in Ports /\ ~rmw -> pins[a]
      [] a \in Readable \ (IF rmw THEN {} ELSE Ports) -> mem[Sfr(a)]
      [] a = PSW -> ReadPSW
      [] OTHER -> 0

\* Seeded fault: AC is not restored with the other flags.
Fault_WritePSW(v) == (CF :> v \div 128) @@ (OV :> (v \div 4) % 2)

WritePSW(v) ==
    (CF :> v \div 128) @@ (AC :> (v \div 64) % 2) @@ (OV :> (v \div 4) % 2)

\* Seeded fault: port 0 is forgotten, as two timers are in read_SFR.
Fault_WriteDirect(a, v) ==
    CASE a < 128 -> Ram(a) :> v
      [] a = PSW -> WritePSW(v)
      [] a \in Stored \ {128} -> Sfr(a) :> v
      [] OTHER -> <<>>

\* What changes when v is written to a direct address.
WriteDirect(a, v) ==
    CASE a < 128 -> Ram(a) :> v
      [] a = PSW -> WritePSW(v)
      [] a \in Stored -> Sfr(a) :> v
      [] OTHER -> <<>>

(***************************************************************************)
(* Decoding.  The low digit of most instructions names the operand: 4 an   *)
(* immediate byte or A, 5 a direct address, 6 and 7 the byte R0 and R1     *)
(* point to, 8 to 15 the registers.                                        *)
(***************************************************************************)
OP(k) == Images[program][PC + k + 1]
hi == OP(0) \div 16
lo == OP(0) % 16

Indirect == Ram(mem[Reg(lo % 2)])

Operand == CASE lo = 4 -> OP(1)
             [] lo = 5 -> ReadDirect(OP(1), FALSE)
             [] lo \in {6, 7} -> mem[Indirect]
             [] lo >= 8 -> mem[Reg(lo - 8)]

\* The length of an instruction with an operand that is read.
Length == IF lo \in {4, 5} THEN 2 ELSE 1

\* Seeded fault: the pins are read.
Fault_Modified == IF lo = 4 THEN A ELSE Operand

\* The operand as an instruction reads it that writes it back.
Modified == CASE lo = 4 -> A
              [] lo = 5 -> ReadDirect(OP(1), TRUE)
              [] OTHER -> Operand

WriteOperand(v) == CASE lo = 4 -> ACC :> v
                     [] lo = 5 -> WriteDirect(OP(1), v)
                     [] lo \in {6, 7} -> Indirect :> v
                     [] lo >= 8 -> Reg(lo - 8) :> v

(***************************************************************************)
(* How an instruction ends: at the next one, n bytes on, or at a target.   *)
(***************************************************************************)
Jump(target, values) ==
    /\ PC' = target % 65536 /\ mem' = values @@ mem
    /\ UNCHANGED <<intack, iret_low, calls>>

Step(n, values) == Jump(PC + n, values)

\* A jump whose signed offset is byte k, the last of the instruction.
Relative(k) == PC + k + 1 + (IF OP(k) < 128 THEN OP(k) ELSE OP(k) - 256)

Branch(condition, k, values) ==
    Jump(IF condition THEN Relative(k) ELSE PC + k + 1, values)

\* Eleven bits of the target are in the instruction.
ADDRA == 2048 * ((PC + 2) \div 2048) + 256 * (hi \div 2) + OP(1)
ADDRL == 256 * OP(1) + OP(2)

-----------------------------------------------------------------------------
(***************************************************************************)
(* Arithmetic and logic.                                                   *)
(***************************************************************************)
Result(r) == (ACC :> r.res) @@ (CF :> r.CF) @@ (AC :> r.AC) @@ (OV :> r.OV)

\* ADD, ADDC, SUBB A,operand.
Arithmetic ==
    /\ hi \in {2, 3, 9} /\ lo >= 4
    /\ Step(Length, Result(CASE hi = 2 -> add(A, Operand, 0)
                             [] hi = 3 -> add(A, Operand, mem[CF])
                             [] hi = 9 -> sub(A, Operand, mem[CF])))

\* ORL, ANL, XRL.
Combined(v, w) ==
    FromBits(CASE hi = 4 -> Bits(v) \cup Bits(w)
               [] hi = 5 -> Bits(v) \cap Bits(w)
               [] hi = 6 -> SymDiff(Bits(v), Bits(w)))

Logic ==
    /\ hi \in 4 .. 6
    /\ \/ lo >= 4 /\ Step(Length, ACC :> Combined(A, Operand))
       \/ /\ lo \in {2, 3}
          /\ Step(lo, WriteDirect(OP(1), Combined(ReadDirect(OP(1), TRUE),
                                                  IF lo = 2 THEN A ELSE OP(2))))

\* INC, DEC operand.
IncDec == /\ hi \in {0, 1} /\ lo >= 4
          /\ Step(IF lo = 5 THEN 2 ELSE 1,
                  WriteOperand(Char(Modified + IF hi = 0 THEN 1 ELSE 255)))

\* INC DPTR.
IncDptr == /\ OP(0) = 163
           /\ LET d == (dptr + 1) % 65536 IN
              Step(1, (DPH :> d \div 256) @@ (DPL :> d % 256))

\* RR, RRC, RL, RLC A.
Rotate ==
    \/ OP(0) = 3 /\ Step(1, ACC :> 128 * (A % 2) + (A \div 2))
    \/ OP(0) = 19 /\ Step(1, (ACC :> 128 * mem[CF] + (A \div 2)) @@ (CF :> A % 2))
    \/ OP(0) = 35 /\ Step(1, ACC :> 2 * (A % 128) + (A \div 128))
    \/ OP(0) = 51 /\ Step(1, (ACC :> 2 * (A % 128) + mem[CF]) @@ (CF :> A \div 128))

\* SWAP, DA, CLR, CPL A.
Unary ==
    \/ OP(0) = 196 /\ Step(1, ACC :> 16 * (A % 16) + (A \div 16))
    \/ /\ OP(0) = 212
       /\ LET d == da(A, mem[CF], mem[AC])
          IN  Step(1, (ACC :> d.res) @@ (CF :> d.CF))
    \/ OP(0) = 228 /\ Step(1, ACC :> 0)
    \/ OP(0) = 244 /\ Step(1, ACC :> 255 - A)

\* MUL, DIV AB.
MulDiv ==
    \/ /\ OP(0) = 164
       /\ LET p == A * mem[BCC] IN
          Step(1, (ACC :> p % 256) @@ (BCC :> p \div 256) @@ (CF :> 0)
                  @@ (OV :> IF p > 255 THEN 1 ELSE 0))
    \/ /\ OP(0) = 132 /\ mem[BCC] = 0
       /\ Step(1, (OV :> 1) @@ (CF :> 0))
    \/ /\ OP(0) = 132 /\ mem[BCC] # 0
       /\ Step(1, (ACC :> A \div mem[BCC]) @@ (BCC :> A % mem[BCC])
                  @@ (OV :> 0) @@ (CF :> 0))

-----------------------------------------------------------------------------
(***************************************************************************)
(* Moves.                                                                  *)
(***************************************************************************)
Immediate == IF lo = 5 THEN OP(2) ELSE OP(1)

Move ==
    \/ hi = 7 /\ lo >= 4                            \* MOV operand,#
       /\ Step(IF lo = 5 THEN 3 ELSE 2, WriteOperand(Immediate))
    \/ hi = 14 /\ lo >= 5 /\ Step(Length, ACC :> Operand)           \* MOV A,
    \/ hi = 15 /\ lo >= 5                                           \* MOV ,A
       /\ Step(Length, WriteOperand(A))
    \/ hi = 8 /\ lo = 5                             \* MOV direct,direct
       /\ Step(3, WriteDirect(OP(2), ReadDirect(OP(1), OP(1) = OP(2))))
    \/ hi = 8 /\ lo >= 6 /\ Step(2, WriteDirect(OP(1), Operand))
    \/ hi = 10 /\ lo >= 6                           \* MOV operand,direct
       /\ Step(2, WriteOperand(ReadDirect(OP(1), FALSE)))
    \/ OP(0) = 144 /\ Step(3, (DPH :> OP(1)) @@ (DPL :> OP(2)))

\* MOVC A,@A+PC and A,@A+DPTR.
MoveCode ==
    \/ OP(0) = 131 /\ Step(1, ACC :> Images[program][PC + 1 + A + 1])
    \/ OP(0) = 147 /\ Step(1, ACC :> Images[program][dptr + A + 1])

\* XCH, XCHD.
Exchange ==
    \/ hi = 12 /\ lo >= 5 /\ Step(Length, WriteOperand(A) @@ (ACC :> Operand))
    \/ /\ hi = 13 /\ lo \in {6, 7}
       /\ LET low == A % 16  IN
          Step(1, (ACC :> A - low + (Operand % 16))
                  @@ WriteOperand(Operand - (Operand % 16) + low))

\* Seeded fault: SP is incremented behind the store.
Fault_Push == /\ OP(0) = 192
              /\ Step(2, (Ram(vSP) :> ReadDirect(OP(1), FALSE))
                         @@ (SP :> Char(vSP + 1)))

Push == /\ OP(0) = 192
        /\ LET sp == Char(vSP + 1) IN
           Step(2, (Ram(sp) :> ReadDirect(OP(1), FALSE)) @@ (SP :> sp))

Pop == /\ OP(0) = 208
       /\ Step(2, WriteDirect(OP(1), mem[Ram(vSP)]) @@ (SP :> Char(vSP + 255)))

-----------------------------------------------------------------------------
(***************************************************************************)
(* Bits: those of 16 bytes of ram, and of the registers at multiples of 8. *)
(***************************************************************************)
BA == IF OP(1) >= 128 THEN 8 * (OP(1) \div 8) ELSE 32 + (OP(1) \div 8)
BIT == OP(1) % 8

ReadBit(rmw) == (ReadDirect(BA, rmw) \div 2^BIT) % 2

WriteBit(v) == LET others == Bits(ReadDirect(BA, TRUE)) \ {BIT} IN
               WriteDirect(BA, FromBits(others) + v * 2^BIT)

Carry ==
    \/ OP(0) = 179 /\ Step(1, CF :> 1 - mem[CF])
    \/ OP(0) = 195 /\ Step(1, CF :> 0)
    \/ OP(0) = 211 /\ Step(1, CF :> 1)

\* ORL, ANL C,bit and C,/bit; MOV C,bit.
CarryWithBit ==
    LET b == ReadBit(FALSE) c == mem[CF] IN
    \/ OP(0) = 114 /\ Step(2, CF :> IF c + b > 0 THEN 1 ELSE 0)
    \/ OP(0) = 130 /\ Step(2, CF :> c * b)
    \/ OP(0) = 160 /\ Step(2, CF :> IF c = 1 \/ b = 0 THEN 1 ELSE 0)
    \/ OP(0) = 176 /\ Step(2, CF :> c * (1 - b))
    \/ OP(0) = 162 /\ Step(2, CF :> b)

\* MOV bit,C; CPL, CLR, SETB bit.
ModifyBit ==
    \/ OP(0) = 146 /\ Step(2, WriteBit(mem[CF]))
    \/ OP(0) = 178 /\ Step(2, WriteBit(1 - ReadBit(TRUE)))
    \/ OP(0) = 194 /\ Step(2, WriteBit(0))
    \/ OP(0) = 210 /\ Step(2, WriteBit(1))

-----------------------------------------------------------------------------
(***************************************************************************)
(* Jumps and calls.                                                        *)
(***************************************************************************)
\* A5 is four bytes long and does nothing.
Nop == \/ OP(0) = 0 /\ Step(1, <<>>)
       \/ OP(0) = 165 /\ Step(4, <<>>)

JumpAlways ==
    \/ lo = 1 /\ hi % 2 = 0 /\ Jump(ADDRA, <<>>)        \* AJMP
    \/ OP(0) = 2 /\ Jump(ADDRL, <<>>)                   \* LJMP
    \/ OP(0) = 128 /\ Jump(Relative(1), <<>>)           \* SJMP
    \/ OP(0) = 115 /\ Jump(dptr + A, <<>>)              \* JMP @A+DPTR

\* JC, JNC, JZ, JNZ; JB, JNB, JBC.
JumpIf ==
    \/ OP(0) = 64 /\ Branch(mem[CF] = 1, 1, <<>>)
    \/ OP(0) = 80 /\ Branch(mem[CF] = 0, 1, <<>>)
    \/ OP(0) = 96 /\ Branch(A = 0, 1, <<>>)
    \/ OP(0) = 112 /\ Branch(A # 0, 1, <<>>)
    \/ OP(0) = 32 /\ Branch(ReadBit(FALSE) = 1, 2, <<>>)
    \/ OP(0) = 48 /\ Branch(ReadBit(FALSE) = 0, 2, <<>>)
    \/ OP(0) = 16 /\ LET b == ReadBit(FALSE)
                     IN  Branch(b = 1, 2, IF b = 1 THEN WriteBit(0) ELSE <<>>)

\* CJNE compares with sub, and leaves all of its flags.
Compare ==
    /\ hi = 11 /\ lo >= 4
    /\ LET left == IF lo \in {4, 5} THEN A ELSE Operand
           right == IF lo = 5 THEN Operand ELSE OP(1)
           s == sub(left, right, 0)
       IN  Branch(s.res # 0, 2, (CF :> s.CF) @@ (AC :> s.AC) @@ (OV :> s.OV))

Decremented == Char(Modified + 255)

\* DJNZ direct and Rn.
Loop ==
    /\ hi = 13 /\ (lo = 5 \/ lo >= 8)
    /\ Branch(Decremented # 0, IF lo = 5 THEN 2 ELSE 1, WriteOperand(Decremented))

\* The return address is stored low byte first.
Calling(n, target) ==
    LET back == PC + n IN
    /\ PC' = target
    /\ mem' = (Ram(vSP + 1) :> back % 256) @@ (Ram(vSP + 2) :> back \div 256)
              @@ (SP :> Char(vSP + 2)) @@ mem
    /\ calls' = Append(calls, back)
    /\ UNCHANGED <<intack, iret_low>>

Call == \/ lo = 1 /\ hi % 2 = 1 /\ Calling(2, ADDRA)    \* ACALL
        \/ OP(0) = 18 /\ Calling(3, ADDRL)              \* LCALL

Ret == /\ OP(0) = 34
       /\ PC' = 256 * mem[Ram(vSP)] + mem[Ram(vSP - 1)]
       /\ mem' = [mem EXCEPT ![SP] = Char(vSP + 254)]
       /\ calls' = Front(calls)
       /\ UNCHANGED <<intack, iret_low>>

\* The return address of a routine is in a register, not on the stack.
Reti == /\ OP(0) = 50
        /\ PC' = iret_low /\ intack' = FALSE
        /\ UNCHANGED <<mem, iret_low, calls>>

\* set_interrupt accepts a request: the routine of source s begins instead of
\* the next instruction.
Interrupt(s) ==
    /\ taken < MaxInterrupts /\ taken' = taken + 1
    /\ ~intack /\ {7, s - 1} \subseteq Bits(mem[Sfr(168)])
    /\ PC' = 8 * (s - 1) + 3 /\ iret_low' = PC /\ intack' = TRUE
    /\ UNCHANGED <<program, pins, mem, calls>>

-----------------------------------------------------------------------------
\* No reset: everything is 0, the stack pointer too.
Init == /\ program \in DOMAIN Images /\ pins \in Pins[program]
        /\ PC = 0 /\ mem = [l \in Locations |-> 0]
        /\ intack = FALSE /\ iret_low = 0
        /\ calls = <<>> /\ taken = 0

Execute == /\ \/ Arithmetic \/ Logic \/ IncDec \/ IncDptr \/ Rotate \/ Unary \/ MulDiv
              \/ Move \/ MoveCode \/ Exchange \/ Push \/ Pop
              \/ Carry \/ CarryWithBit \/ ModifyBit
              \/ Nop \/ JumpAlways \/ JumpIf \/ Compare \/ Loop \/ Call \/ Ret \/ Reti
           /\ UNCHANGED <<program, pins, taken>>

Next == Execute \/ \E s \in 1 .. 4 : Interrupt(s)

\* The clock never stops.
Spec == Init /\ [][Next]_vars /\ WF_vars(Next)

-----------------------------------------------------------------------------
(***************************************************************************)
(* Properties.                                                             *)
(***************************************************************************)
\* Every register, flag and byte keeps its width.
TypeOK ==
    /\ PC \in 0 .. 65535 /\ iret_low \in 0 .. 65535 /\ intack \in BOOLEAN
    /\ DOMAIN mem = Locations
    /\ \A l \in Locations : mem[l] \in IF l[1] = "flag" THEN {0, 1} ELSE Byte
    /\ taken \in 0 .. MaxInterrupts

\* Calls nest: whatever was pushed, popped and interrupted in between, a return
\* goes behind the last call that has not returned.
ReturnsToCaller ==
    [][Len(calls') < Len(calls) => calls # <<>> /\ PC' = Last(calls)]_vars

\* The instruction SJMP to itself, where a program ends.
AtEnd == OP(0) = 128 /\ OP(1) = 254
=============================================================================
