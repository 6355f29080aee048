----------------------------- MODULE Interrupts -----------------------------
(***************************************************************************)
(* The interrupt system of the 8051 simulator, one clock edge per step:    *)
(* core_8051.entry without the arithmetic of its instructions.  An edge    *)
(* stalls on an external memory, takes an interrupt, sleeps, or executes   *)
(* one instruction; in every case set_interrupt has sampled the interrupt  *)
(* lines and counted the timers first.  The address space, the sources     *)
(* that exist and what the program writes to IE and IP are parameters.     *)
(***************************************************************************)
EXTENDS Integers, Sequences

CONSTANTS
    Sources,        \* the interrupts in use: 1, 3 external, 2, 4 timers
    Program,        \* addresses of the program and its routines
    EnableChoices,  \* what the program writes to IE (empty: EA is 0)
    PriorityChoices,\* what it writes to IP
    Reload          \* RCAP of every timer (24 bits, written by the program)

ASSUME InterruptAssumption ==
    /\ Sources \subseteq 1 .. 4
    /\ Program \subseteq Nat /\ 0 \in Program
    /\ EnableChoices \subseteq SUBSET Sources
    /\ PriorityChoices \subseteq SUBSET Sources
    /\ Reload \in Nat

External == Sources \cap {1, 3}
Timers == Sources \cap {2, 4}

Vector(s) == (s - 1) * 8 + 3
Address == Program \cup {Vector(s) : s \in Sources}

VARIABLES
    PC, pidle, waiting,     \* waiting: xram_waitready or xreg_waitready
    IE, IP,                 \* enabled while EA is 1; of high priority
    flag, running,          \* TCON: pending requests, timers that count
    bextint,                \* the external lines active on the last edge
    timer,                  \* TUn, THn, TLn
    intack,                 \* the requests being served
    iret_high, iret_low

cpu == <<PC, pidle, waiting>>
control == <<IE, IP, running>>
service == <<intack, iret_high, iret_low>>
vars == <<cpu, control, flag, bextint, timer, service>>

-----------------------------------------------------------------------------
(***************************************************************************)
(* check_interrupt: the request to take, as a set of at most one source.   *)
(***************************************************************************)
\* Seeded fault: the chain of tests runs from the last source to the first.
Fault_First(S) == {s \in S : \A u \in S : s >= u}

First(S) == {s \in S : \A u \in S : s <= u}

Asking == flag \cap IE

\* Seeded fault: a low request does not wait for the routine in progress.
Fault_check_interrupt ==
    IF intack \cap IP # {} THEN {}
    ELSE IF Asking \cap IP # {} THEN First(Asking \cap IP)
    ELSE First(Asking)

check_interrupt ==
    IF intack \cap IP # {} THEN {}
    ELSE IF Asking \cap IP # {} THEN First(Asking \cap IP)
    ELSE IF intack = {} THEN First(Asking) ELSE {}

(***************************************************************************)
(* set_interrupt, on every edge: extintr latches a line that has become    *)
(* active while it is enabled, timer counts down and reloads at 0.         *)
(***************************************************************************)
Latched(lines) == {s \in lines \ bextint : s \in IE}
Overflown == {s \in running : timer[s] = 0}

\* Seeded fault: the timers stand still while the program sleeps.
Fault_Counted ==
    [s \in Timers |-> IF s \notin running \/ pidle THEN timer[s]
                      ELSE IF timer[s] = 0 THEN Reload ELSE timer[s] - 1]

\* Seeded fault: RCAP is not loaded.
Fault_no_reload ==
    [s \in Timers |-> IF s \in running THEN timer[s] - 1 ELSE timer[s]]

Counted == [s \in Timers |-> IF s \notin running THEN timer[s]
                             ELSE IF timer[s] = 0 THEN Reload ELSE timer[s] - 1]

\* The pending requests when set_interrupt has written TCON.
Pending(taken, lines) == (flag \ taken) \cup Latched(lines) \cup Overflown

SetInterrupt(taken, lines) ==
    flag' = Pending(taken, lines) /\ timer' = Counted /\ bextint' = lines

-----------------------------------------------------------------------------
(***************************************************************************)
(* What an edge can do, for the lines that are active on it.               *)
(***************************************************************************)
\* The memory is not ready.
Stall(lines) == /\ waiting /\ SetInterrupt({}, lines)
                /\ UNCHANGED <<cpu, control, service>>

Take(s, lines) ==
    /\ s \in check_interrupt /\ SetInterrupt({s}, lines)
    /\ intack' = intack \cup {s}
    /\ IF s \in IP THEN iret_high' = PC /\ UNCHANGED iret_low
                   ELSE iret_low' = PC /\ UNCHANGED iret_high
    /\ PC' = Vector(s) /\ pidle' = FALSE /\ waiting' = FALSE
    /\ UNCHANGED control

Sleep(lines) == /\ pidle /\ check_interrupt = {} /\ SetInterrupt({}, lines)
                /\ waiting' = FALSE /\ UNCHANGED <<PC, pidle, control, service>>

Executing == ~pidle /\ check_interrupt = {}

\* An instruction that moves, computes or jumps, or (memory) starts MOVX.
Plain(lines, memory) ==
    /\ Executing /\ SetInterrupt({}, lines)
    /\ PC' \in Program /\ waiting' = memory
    /\ UNCHANGED <<pidle, control, service>>

\* PCON: stop until an interrupt.  A routine that did this could wait for an
\* interrupt that waits for the routine; the program is assumed not to.
WriteIdle(lines) ==
    /\ Executing /\ intack = {} /\ SetInterrupt({}, lines)
    /\ PC' \in Program /\ pidle' = TRUE /\ waiting' = FALSE
    /\ UNCHANGED <<control, service>>

WriteIE(lines) ==
    /\ Executing /\ SetInterrupt({}, lines)
    /\ IE' \in EnableChoices /\ PC' \in Program /\ waiting' = FALSE
    /\ UNCHANGED <<pidle, IP, running, service>>

\* RETI finds the routine in progress by IP, so the program is assumed to
\* write IP only while no routine is.
WriteIP(lines) ==
    /\ Executing /\ intack = {} /\ SetInterrupt({}, lines)
    /\ IP' \in PriorityChoices /\ PC' \in Program /\ waiting' = FALSE
    /\ UNCHANGED <<pidle, IE, running, service>>

\* The instruction writes TCON after set_interrupt did: its value stays, and
\* with it go the requests set_interrupt has just added.
WriteTCON(lines) ==
    /\ Executing
    /\ flag' \in SUBSET Sources /\ running' \in SUBSET Timers
    /\ timer' = Counted /\ bextint' = lines
    /\ PC' \in Program /\ waiting' = FALSE
    /\ UNCHANGED <<pidle, IE, IP, service>>

\* The same for a timer register.
WriteTimer(lines) ==
    /\ Executing
    /\ flag' = Pending({}, lines) /\ bextint' = lines
    /\ \E s \in Timers, t \in 0 .. Reload : timer' = [Counted EXCEPT ![s] = t]
    /\ PC' \in Program /\ waiting' = FALSE
    /\ UNCHANGED <<pidle, control, service>>

\* The program is assumed to use RETI to end a routine and for nothing else.
Reti(lines) ==
    LET high == intack \cap IP IN
    /\ Executing /\ intack # {} /\ SetInterrupt({}, lines)
    /\ intack' = IF high = {} THEN {} ELSE intack \ high
    /\ PC' = IF high = {} THEN iret_low ELSE iret_high
    /\ waiting' = FALSE
    /\ UNCHANGED <<pidle, control, iret_high, iret_low>>

Execute(lines) ==
    \/ \E memory \in BOOLEAN : Plain(lines, memory)
    \/ WriteIdle(lines) \/ WriteIE(lines) \/ WriteIP(lines)
    \/ WriteTCON(lines) \/ WriteTimer(lines) \/ Reti(lines)

-----------------------------------------------------------------------------
\* The registers before the first edge; nobody drives the reset input of the
\* co-simulation, and a signal starts at 0.
Init == /\ PC = 0 /\ pidle = FALSE /\ waiting = FALSE
        /\ IE = {} /\ IP = {} /\ flag = {} /\ running = {}
        /\ bextint = {} /\ timer = [s \in Timers |-> 0]
        /\ intack = {} /\ iret_high = 0 /\ iret_low = 0

Reset == /\ PC' = 0 /\ pidle' = FALSE /\ waiting' = FALSE
         /\ IE' = {} /\ IP' = {} /\ flag' = {} /\ running' = {}
         /\ bextint' = {} /\ timer' = [s \in Timers |-> 0]
         /\ intack' = {} /\ UNCHANGED <<iret_high, iret_low>>

\* An edge on which the memory does not stall the core.
Run(lines) == (\E s \in Sources : Take(s, lines)) \/ Sleep(lines) \/ Execute(lines)

Next == \/ \E lines \in SUBSET External : Run(lines) \/ Stall(lines)
        \/ Reset

\* The clock never stops and a memory is ready at last (xram counts its delay
\* down): the core runs again and again, unless an edge on which the lines keep
\* their value changes nothing.  WF of Run for some lines would say more: that
\* a line moves when nothing else can.
Ticking == \/ []<>~ENABLED <<Run(bextint)>>_vars
           \/ []<><<\E lines \in SUBSET External : Run(lines)>>_vars

\* A service routine ends.
RoutinesEnd == WF_vars(\E lines \in SUBSET External : Reti(lines))

Spec == Init /\ [][Next]_vars /\ Ticking /\ RoutinesEnd

-----------------------------------------------------------------------------
(***************************************************************************)
(* Properties.                                                             *)
(***************************************************************************)
\* The registers keep their range: PC and the return registers never leave the
\* program, its routines and the vectors, and no timer passes its reload value.
TypeOK ==
    /\ PC \in Address /\ pidle \in BOOLEAN /\ waiting \in BOOLEAN
    /\ IE \subseteq Sources /\ IP \subseteq Sources
    /\ flag \subseteq Sources /\ running \subseteq Timers
    /\ bextint \subseteq External /\ timer \in [Timers -> 0 .. Reload]
    /\ intack \subseteq Sources
    /\ iret_high \in Address /\ iret_low \in Address

\* The routines in progress, read off intack, IP and the two return registers.
LowFrame == [level |-> "low", ret |-> iret_low]
HighFrame == [level |-> "high", ret |-> iret_high]
Frames == IF intack = {} THEN <<>>
          ELSE IF intack \cap IP = {} THEN <<LowFrame>>
          ELSE IF intack \subseteq IP THEN <<HighFrame>>
          ELSE <<LowFrame, HighFrame>>

Nested == INSTANCE NestedCalls WITH Start <- 0, pc <- PC, frames <- Frames

\* Service routines nest like calls: no return address is overwritten before
\* its RETI, and every RETI goes back to what its interrupt interrupted,
\* although there is one return register per priority and no stack.
RoutinesNest == Nested!Spec

\* The source a pending request of which nothing may pass.
Foremost(s) == /\ s \in Asking
               /\ s \in IP \/ IE \cap IP = {}
               /\ \A u \in IE : (u \in IP <=> s \in IP) => s <= u

\* A request that stays pending with nothing above it is taken again and again:
\* neither sleep, wait states nor the other routines keep it from being served.
ForemostServed ==
    \A s \in Sources :
        <>[]Foremost(s) => []<><<s \notin intack /\ s \in intack'>>_vars

\* A sleeping program with a timer running and enabled is woken.
Wakes == (pidle /\ running \cap IE # {}) ~> ~pidle
=============================================================================
