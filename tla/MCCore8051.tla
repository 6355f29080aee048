----------------------------- MODULE MCCore8051 -----------------------------
(***************************************************************************)
(* Programs for Core8051 that between them use every instruction of it,    *)
(* what they compute, and the firmware of the demonstration as compiled.   *)
(***************************************************************************)
EXTENDS Core8051, IoPortImage

\* The programs begin alike: an interrupt routine at 3 that changes A and the
\* flags and restores them, and at 16 the enable bits and the stack pointer.
Prologue == <<
        2, 0, 16,        \* LJMP main
        192, 224,        \* PUSH ACC
        192, 208,        \* PUSH PSW
        36, 41,          \* ADD A,#29h
        212,             \* DA A
        179,             \* CPL C
        208, 208,        \* POP PSW
        208, 224,        \* POP ACC
        50,              \* RETI
        117, 168, 129,   \* MOV IE,#81h
        117, 129, 55     \* MOV SP,#37h
        >>

\* P2:P0 + P3:P1 and P2:P0 - P3:P1, sixteen bits wide.
Binary ==
    Prologue \o <<
        229, 128,        \* MOV A,P0
        37, 144,         \* ADD A,P1
        245, 48,         \* MOV 30h,A
        229, 160,        \* MOV A,P2
        53, 176,         \* ADDC A,P3
        245, 49,         \* MOV 31h,A
        228,             \* CLR A
        52, 0,           \* ADDC A,#0
        250,             \* MOV R2,A
        195,             \* CLR C
        229, 128,        \* MOV A,P0
        149, 144,        \* SUBB A,P1
        251,             \* MOV R3,A
        229, 160,        \* MOV A,P2
        149, 176,        \* SUBB A,P3
        252,             \* MOV R4,A
        146, 0,          \* MOV 20h.0,C
        128, 254         \* SJMP $
        >>

\* P2:P0 + P3:P1, four decimal digits.
Decimal ==
    Prologue \o <<
        229, 128,        \* MOV A,P0
        37, 144,         \* ADD A,P1
        212,             \* DA A
        245, 48,         \* MOV 30h,A
        229, 160,        \* MOV A,P2
        53, 176,         \* ADDC A,P3
        212,             \* DA A
        245, 49,         \* MOV 31h,A
        228,             \* CLR A
        51,              \* RLC A
        245, 50,         \* MOV 32h,A
        128, 254         \* SJMP $
        >>

\* P0 / P1, and the quotient multiplied back.
Division ==
    Prologue \o <<
        133, 144, 240,   \* MOV B,P1
        229, 128,        \* MOV A,P0
        132,             \* DIV
        192, 208,        \* PUSH PSW
        192, 240,        \* PUSH B
        133, 144, 240,   \* MOV B,P1
        164,             \* MUL
        208, 48,         \* POP 30h
        37, 48,          \* ADD A,30h
        245, 49,         \* MOV 31h,A
        208, 208,        \* POP PSW
        162, 210,        \* MOV C,PSW.2
        146, 7,          \* MOV 20h.7,C
        128, 254         \* SJMP $
        >>

\* 0 + .. + n for n = P0 % 4, with a call for each term.
Recursion ==
    Prologue \o <<
        229, 128,        \* MOV A,P0
        84, 3,           \* ANL A,#3
        17, 32,          \* ACALL sum
        245, 48,         \* MOV 30h,A
        128, 254,        \* SJMP $
        96, 10,          \* JZ back
        192, 224,        \* PUSH ACC
        20,              \* DEC A
        18, 0, 32,       \* LCALL sum
        208, 240,        \* POP B
        37, 240,         \* ADD A,B
        34               \* RET
        >>

\* The bits of P0 reversed; and complemented, digits swapped.
Bits8 ==
    Prologue \o <<
        127, 8,          \* MOV R7,#8
        229, 128,        \* MOV A,P0
        19,              \* RRC A
        197, 240,        \* XCH A,B
        51,              \* RLC A
        197, 240,        \* XCH A,B
        223, 248,        \* DJNZ R7,again
        133, 240, 48,    \* MOV 30h,B
        229, 128,        \* MOV A,P0
        196,             \* SWAP A
        3,               \* RR A
        35,              \* RL A
        244,             \* CPL A
        121, 49,         \* MOV R1,#31h
        247,             \* MOV @R1,A
        128, 254         \* SJMP $
        >>

\* Every kind of instruction that modifies a port.
OutPorts ==
    Prologue \o <<
        117, 144, 3,     \* MOV P1,#3
        213, 144, 253,   \* DJNZ P1,wait
        67, 144, 240,    \* ORL P1,#0F0h
        178, 148,        \* CPL P1.4
        99, 144, 15,     \* XRL P1,#0Fh
        83, 144, 126,    \* ANL P1,#7Eh
        5, 144,          \* INC P1
        210, 151,        \* SETB P1.7
        194, 149,        \* CLR P1.5
        133, 144, 160,   \* MOV P2,P1
        128, 254         \* SJMP $
        >>

\* A table copied to ram, one byte exchanged with P1, all added without carry.
Memory ==
    Prologue \o <<
        120, 48,         \* MOV R0,#30h
        144, 0, 57,      \* MOV DPTR,#table
        228,             \* CLR A
        147,             \* MOVC A,@A+DPTR
        246,             \* MOV @R0,A
        163,             \* INC DPTR
        8,               \* INC R0
        184, 52, 248,    \* CJNE R0,#34h,copy
        229, 128,        \* MOV A,P0
        84, 3,           \* ANL A,#3
        68, 48,          \* ORL A,#30h
        249,             \* MOV R1,A
        229, 144,        \* MOV A,P1
        199,             \* XCH A,@R1
        254,             \* MOV R6,A
        120, 52,         \* MOV R0,#34h
        24,              \* DEC R0
        230,             \* MOV A,@R0
        110,             \* XRL A,R6
        254,             \* MOV R6,A
        184, 48, 249,    \* CJNE R0,#30h,next
        128, 254,        \* SJMP $
        17, 34, 71, 128  \* DB 11h,22h,47h,80h
        >>

\* The larger of P0 and P1, and a Boolean function of their bits.
Comparison ==
    Prologue \o <<
        229, 128,        \* MOV A,P0
        181, 144, 0,     \* CJNE A,P1,differ
        80, 2,           \* JNC larger
        229, 144,        \* MOV A,P1
        245, 48,         \* MOV 30h,A
        229, 128,        \* MOV A,P0
        32, 231, 29,     \* JB ACC.7,minus
        48, 151, 5,      \* JNB P1.7,same
        117, 49, 1,      \* MOV 31h,#1
        128, 24,         \* SJMP end
        162, 128,        \* MOV C,P0.0
        130, 144,        \* ANL C,P1.0
        114, 129,        \* ORL C,P0.1
        176, 145,        \* ANL C,/P1.1
        160, 130,        \* ORL C,/P0.2
        179,             \* CPL C
        146, 1,          \* MOV 20h.1,C
        16, 1, 8,        \* JBC 20h.1,end
        117, 49, 2,      \* MOV 31h,#2
        128, 3,          \* SJMP end
        117, 49, 3,      \* MOV 31h,#3
        128, 254         \* SJMP $
        >>

\* Four functions of P1 and P2 in a jump table, chosen by P0 % 4.
Dispatch ==
    Prologue \o <<
        229, 128,        \* MOV A,P0
        84, 3,           \* ANL A,#3
        35,              \* RL A
        120, 48,         \* MOV R0,#30h
        166, 144,        \* MOV @R0,P1
        144, 0, 35,      \* MOV DPTR,#table
        115,             \* JMP @A+DPTR
        1, 43,           \* AJMP digits
        1, 50,           \* AJMP gray
        1, 65,           \* AJMP parity
        128, 37,         \* SJMP larger
        229, 160,        \* MOV A,P2
        214,             \* XCHD A,@R0
        245, 49,         \* MOV 31h,A
        128, 254,        \* SJMP $
        229, 144,        \* MOV A,P1
        84, 3,           \* ANL A,#3
        36, 4,           \* ADD A,#4
        131,             \* MOVC A,@A+PC
        245, 49,         \* MOV 31h,A
        128, 254,        \* SJMP $
        0, 1, 3, 2,      \* DB 0,1,3,2
        165, 0, 0, 0,    \* MMX
        173, 144,        \* MOV R5,P1
        237,             \* MOV A,R5
        162, 208,        \* MOV C,PSW.0
        146, 8,          \* MOV 21h.0,C
        134, 49,         \* MOV 31h,@R0
        128, 254,        \* SJMP $
        211,             \* SETB C
        229, 144,        \* MOV A,P1
        149, 160,        \* SUBB A,P2
        0,               \* NOP
        64, 4,           \* JC less
        229, 48,         \* MOV A,30h
        112, 3,          \* JNZ more
        133, 160, 48,    \* MOV 30h,P2
        128, 254         \* SJMP $
        >>
Programs == [binary |-> Binary, decimal |-> Decimal, division |-> Division,
             recursion |-> Recursion, bits |-> Bits8, ports |-> OutPorts,
             memory |-> Memory, compare |-> Comparison, dispatch |-> Dispatch,
             io_port |-> IoPortImage]

(***************************************************************************)
(* What is on the pins: bytes at the edges of what each program does.      *)
(***************************************************************************)
On(p0, p1, p2, p3) == 128 :> p0 @@ 144 :> p1 @@ 160 :> p2 @@ 176 :> p3

ProgramPins ==
    [binary    |-> {On(p0, p1, p2, p3) : p0 \in {0, 15, 128, 255}, p1 \in {1, 128, 255},
                                          p2 \in {0, 127}, p3 \in {0, 128}},
     decimal   |-> {On(p0, p1, p2, 0) : p0 \in {8, 145, 153}, p1 \in {9, 16, 153},
                                        p2 \in {0, 153}},
     division  |-> {On(p0, p1, 0, 0) : p0 \in {0, 6, 255}, p1 \in {0, 1, 7, 255}},
     recursion |-> {On(p0, 0, 0, 0) : p0 \in {0, 2, 7}},
     bits      |-> {On(p0, 0, 0, 0) : p0 \in {1, 180}},
     ports     |-> {On(0, p1, 0, 0) : p1 \in {0, 37, 255}},
     memory    |-> {On(p0, p1, 0, 0) : p0 \in 0 .. 3, p1 \in {18, 255}},
     compare   |-> {On(p0, p1, 0, 0) : p0 \in {128, 5, 3, 4}, p1 \in {128, 5, 2}},
     dispatch  |-> {On(p0, p1, 92, 0) : p0 \in 0 .. 3, p1 \in {167, 58}},
     io_port   |-> {On(255, 255, 255, 255)}]

(***************************************************************************)
(* What each program leaves behind.                                        *)
(***************************************************************************)
At(a) == mem[Ram(a)]
R(n) == mem[Reg(n)]
Number(v, w) == v + 256 * w
Digits(v) == 10 * (v \div 16) + (v % 16)
Larger(v, w) == IF v < w THEN w ELSE v

Computed ==
    LET p0 == pins[128] p1 == pins[144] p2 == pins[160] p3 == pins[176] IN
    CASE program = "binary" ->
            LET x == Number(p0, p2) y == Number(p1, p3) IN
            /\ Number(At(48), At(49)) + 65536 * R(2) = x + y
            /\ Number(R(3), R(4)) - 65536 * At(32) = x - y
      [] program = "decimal" ->
            Digits(At(48)) + 100 * Digits(At(49)) + 10000 * At(50)
              = Digits(p0) + Digits(p1) + 100 * (Digits(p2) + Digits(p3))
      [] program = "division" ->
            IF p1 = 0 THEN At(32) = 128
            ELSE At(32) = 0 /\ At(49) = p0 /\ At(48) = p0 % p1
      [] program = "recursion" ->
            At(48) = ((p0 % 4) * ((p0 % 4) + 1)) \div 2
      [] program = "bits" ->
            /\ Bits(At(48)) = {7 - i : i \in Bits(p0)}
            /\ At(49) = 255 - ((16 * (p0 % 16)) + (p0 \div 16))
      [] program = "ports" ->
            mem[Sfr(144)] = 207 /\ mem[Sfr(160)] = p1
      [] program = "memory" ->
            /\ [k \in 0 .. 3 |-> At(48 + k)]
                 = [[k \in 0 .. 3 |-> Programs["memory"][58 + k]] EXCEPT ![p0 % 4] = p1]
            /\ Bits(R(6)) = SymDiff({2, 4, 5, 6, 7}, Bits(p1))
      [] program = "compare" ->
            LET b(p, i) == i \in Bits(p) IN
            /\ At(48) = Larger(p0, p1) /\ At(32) = 0
            /\ b(p0, 7) => At(49) = 3
            /\ ~b(p0, 7) /\ b(p1, 7) => At(49) = 1
            /\ ~b(p0, 7) /\ ~b(p1, 7) =>
                 At(49) = IF \/ ((b(p0, 0) /\ b(p1, 0)) \/ b(p0, 1)) /\ ~b(p1, 1)
                             \/ ~b(p0, 2)
                          THEN 2 ELSE 0
      [] program = "dispatch" ->
            /\ p0 = 0 => /\ At(48) = p1 - (p1 % 16) + (p2 % 16)
                         /\ At(49) = p2 - (p2 % 16) + (p1 % 16)
            /\ p0 = 1 => At(49) = <<0, 1, 3, 2>>[(p1 % 4) + 1]
            /\ p0 = 2 => At(33) = Cardinality(Bits(p1)) % 2 /\ At(49) = p1
            /\ p0 = 3 => At(48) = Larger(p1, p2)
      [] program = "io_port" ->
            mem[Sfr(128)] = 1 /\ mem[Sfr(144)] = 27

-----------------------------------------------------------------------------
\* Whenever a program has come to its end outside the interrupt routine, its
\* result is what arithmetic says, though a routine that changes A and all the
\* flags may have run between any two instructions.
ProgramsCompute == AtEnd /\ ~intack => Computed

\* Every program ends: no loop on a port, a register or a byte is left running,
\* and every routine and subroutine finds its way back.
ProgramsEnd == <>[]AtEnd

\* The firmware as it was compiled is the firmware of IoPort: its start-up code
\* leaves both ports alone, nothing interrupts it, and from the instruction that
\* announces the frame (285) on it sends one byte per clock.
Sent == CASE PC \in 288 .. 306 -> (PC - 285) \div 3
          [] mem[Sfr(128)] = 1 /\ PC \notin 288 .. 306 -> 7
          [] OTHER -> 0

Sender == INSTANCE IoPort WITH
             frame <- <<59, 0, 230, 202, 170, 27>>, sent <- Sent,
             P0 <- mem[Sfr(128)], P1 <- mem[Sfr(144)]

FirmwareSendsFrame == [][program = "io_port" => Sender!Firmware]_vars
=============================================================================
