-------------------------------- MODULE Movx --------------------------------
(***************************************************************************)
(* External memory accesses: core_8051, the memories xreg (sram) and       *)
(* xrambig (xram) and the multiplexer of top, as method processes on the   *)
(* SystemC scheduler.  The core raises re or we and stalls until ready;    *)
(* a memory works on the rising edge, and answers on the falling edge.     *)
(***************************************************************************)
EXTENDS Integers

CONSTANTS Range,        \* bytes and addresses are 0 .. Range - 1
          Delay,        \* rd_delay = wr_delay of each memory
          Programs      \* the sets of instructions programs are made of

Memories == {"xreg", "xrambig"}
Buses == {"xreg", "xram"}
BusOf(k) == IF k = "xrambig" THEN "xram" ELSE k
Values == 0 .. Range - 1

\* The address registers, and the bus MOVX uses with each.
BusWith == [R0 |-> "xreg", R1 |-> "xreg", DPTR |-> "xram"]
Pointers == DOMAIN BusWith
Instructions ==
    [op : {"NOP", "INC_A"}] \cup [op : {"MOV"}, r : Pointers, v : Values]
    \cup [op : {"load", "store"}, r : Pointers]

ASSUME MovxAssumption ==
    /\ Range \in Nat \ {0} /\ Delay \in [Memories -> Nat]
    /\ \A p \in Programs : p \subseteq Instructions

VARIABLES
    cur, new, update_list, runnable, delta_events, next_edge, phase,  \* SystemC
    mem, rd_cnt, wr_cnt,      \* members of the memories that are no signals
    program,                  \* the instructions this program is made of
    started                   \* history: the first falling edge has come

memoryVars == <<mem, rd_cnt, wr_cnt>>

(***************************************************************************)
(* The methods, and the events they are sensitive to.                      *)
(***************************************************************************)
core_entry == <<"core", "entry">>
set_xram == <<"core", "set_xram">>
set_xreg == <<"core", "set_xreg">>
mux_xram == <<"top", "mux_xram">>
entry(k) == <<k, "entry">>
set_ready(k) == <<k, "set_ready">>

Change(owner, names) == {<<<<owner, n>>, "change">> : n \in names}
Posedge == {<<<<"top", "clk">>, "posedge">>}
Negedge == {<<<<"top", "clk">>, "negedge">>}

Sensitivity ==
    [core |-> [entry |-> Posedge,
               set_xram |-> Change("core", {"ACC", "DPTR"}),
               set_xreg |-> Change("core", {"ACC", "R0", "R1", "xreg_addr_sel"})],
     top |-> [mux_xram |-> Change("xram", {"addr", "re", "we"})
                           \cup Change("xrambig", {"rd_data", "ready"})
                           \cup Change("top", {"clk"})],
     xreg |-> [entry |-> Posedge, set_ready |-> Negedge],
     xrambig |-> [entry |-> Posedge, set_ready |-> Negedge]]

AllMethods == UNION {{<<o, m>> : m \in DOMAIN Sensitivity[o]} :
                        o \in DOMAIN Sensitivity}

INSTANCE SystemC WITH Methods <- AllMethods,
                      Sensitive <- [m \in AllMethods |-> Sensitivity[m[1]][m[2]]]

vars == <<kernelVars, memoryVars, program, started>>

read(owner, name) == cur[<<owner, name>>]
high(owner, name) == read(owner, name) = 1
level(b) == IF b THEN 1 ELSE 0

-----------------------------------------------------------------------------
(***************************************************************************)
(* core_8051.                                                              *)
(***************************************************************************)
\* A bus whose access is not answered yet keeps its lines.
Stalled(b) == high(b, "waitready") /\ ~high(b, "ready")

Released == [re |-> 0, we |-> 0, waitready |-> 0]

\* While a load waits, every edge takes what the memory shows.
Loaded(b) == Stalled(b) /\ high(b, "re")

Stall ==
    /\ \E b \in Buses : Stalled(b)
    /\ Evaluate(core_entry,
         LET held(b) == IF Stalled(b)
                        THEN [Released EXCEPT !.re = read(b, "re"),
                                              !.we = read(b, "we"), !.waitready = 1]
                        ELSE Released
         IN  [xreg |-> held("xreg"), xram |-> held("xram"),
              core |-> [ACC |-> CASE Loaded("xram") -> read("xram", "rd_data")
                                  [] Loaded("xreg") -> read("xreg", "rd_data")
                                  [] OTHER -> read("core", "ACC")]])

\* An instruction that leaves the external memories alone.
Plain(i) ==
    Evaluate(core_entry,
        [xreg |-> Released, xram |-> Released,
         core |-> CASE i.op = "NOP" -> [r \in {} |-> 0]
                    [] i.op = "INC_A" -> [ACC |-> (read("core", "ACC") + 1) % Range]
                    [] i.op = "MOV" -> [r \in {i.r} |-> i.v]])

\* MOVX A,@DPTR; MOVX A,@Ri; MOVX @DPTR,A; MOVX @Ri,A.
MOVX(i) ==
    LET bus == BusWith[i.r]
        asked(b) == IF b = bus THEN [re |-> level(i.op = "load"),
                                     we |-> level(i.op = "store"), waitready |-> 1]
                    ELSE Released
    IN  Evaluate(core_entry,
          [xreg |-> asked("xreg"), xram |-> asked("xram"),
           core |-> [ACC |-> IF i.op = "load" THEN read(bus, "rd_data")
                             ELSE read("core", "ACC"),
                     xreg_addr_sel |-> IF bus = "xreg" THEN level(i.r = "R1")
                                       ELSE read("core", "xreg_addr_sel")]])

\* Which instruction is next is up to the program, but MOVX comes after the
\* first falling edge: every method runs once before the clock first rises, and
\* again when it does, so the first two instructions have no edge between them
\* on which a memory could answer.  Compiled programs begin with a jump to their
\* start-up code.
Execute == /\ \A b \in Buses : ~Stalled(b)
           /\ \E i \in program : IF i.op \in {"load", "store"}
                                 THEN started /\ MOVX(i) ELSE Plain(i)

SetXram == Evaluate(set_xram,
    [xram |-> [addr |-> read("core", "DPTR"), wr_data |-> read("core", "ACC")]])

SetXreg == Evaluate(set_xreg,
    [xreg |-> [addr |-> IF high("core", "xreg_addr_sel") THEN read("core", "R1")
                        ELSE read("core", "R0"),
               wr_data |-> read("core", "ACC")]])

\* The address bit that would select a memory is always true.
MuxXram == Evaluate(mux_xram,
    [xrambig |-> [re |-> read("xram", "re"), we |-> read("xram", "we")],
     xram |-> [rd_data |-> read("xrambig", "rd_data"),
               ready |-> read("xrambig", "ready")]])

-----------------------------------------------------------------------------
(***************************************************************************)
(* The memories.  A counter at its delay rests; an access counts it down   *)
(* to 0, where the access is done.                                         *)
(***************************************************************************)
address(k) == read(BusOf(k), "addr")

\* Seeded fault: the counter is not set back to the delay.
Fault_CountDown(k, cnt) == cnt - 1

CountDown(k, cnt) == IF cnt = 0 THEN Delay[k] ELSE cnt - 1

CountIdle(k, cnt) == IF cnt \in {0, Delay[k]} THEN Delay[k] ELSE cnt - 1

\* A read of another address than before starts from the delay.
NextRead(k) ==
    CASE Delay[k] = 0 -> 0
      [] Delay[k] # 0 /\ high(k, "re") ->
            IF address(k) # read(k, "baddr") THEN Delay[k]
            ELSE CountDown(k, rd_cnt[k])
      [] OTHER -> CountIdle(k, rd_cnt[k])

NextWrite(k) ==
    CASE Delay[k] = 0 -> wr_cnt[k]
      [] Delay[k] # 0 /\ high(k, "we") -> CountDown(k, wr_cnt[k])
      [] OTHER -> CountIdle(k, wr_cnt[k])

\* Seeded fault: only a memory at rest is ready.
Fault_Ready(k, access, cnt) ==
    level(Delay[k] = 0 \/ (~high(k, access) /\ cnt = Delay[k]))

\* Ready when the access is done, and while there is none.
Ready(k, access, cnt) ==
    level(cnt = 0 \/ Delay[k] = 0 \/ (~high(k, access) /\ cnt = Delay[k]))

Stores(k) == high(k, "we") /\ (Delay[k] = 0 \/ NextWrite(k) = 0)

MemoryEntry(k) ==
    /\ rd_cnt' = [rd_cnt EXCEPT ![k] = NextRead(k)]
    /\ wr_cnt' = [wr_cnt EXCEPT ![k] = NextWrite(k)]
    /\ mem' = IF Stores(k)
              THEN [mem EXCEPT ![k][address(k)] = read(BusOf(k), "wr_data")]
              ELSE mem
    /\ Evaluate(entry(k),
         [o \in {k} |-> [rd_ready |-> Ready(k, "re", NextRead(k)),
                         wr_ready |-> Ready(k, "we", NextWrite(k)),
                         bre |-> read(k, "re"), bwe |-> read(k, "we"),
                         baddr |-> address(k)]])

\* Seeded fault: set_ready answers for the access the memory last saw.
Fault_Answered(k) ==
    /\ high(k, "re") => Delay[k] = 0 \/ (high(k, "bre") /\ high(k, "rd_ready"))
    /\ high(k, "we") => high(k, "bwe") /\ (Delay[k] = 0 \/ high(k, "wr_ready"))

\* The memory has seen the access that is on its lines, and done it.
Answered(k) ==
    /\ high(k, "re") => /\ address(k) = read(k, "baddr")
                        /\ Delay[k] = 0 \/ (high(k, "bre") /\ high(k, "rd_ready"))
    /\ high(k, "we") => high(k, "bwe") /\ (Delay[k] = 0 \/ high(k, "wr_ready"))

SetReady(k) == Evaluate(set_ready(k),
    [o \in {k} |->
       [ready |-> level(Answered(k)),
        rd_data |-> CASE Delay[k] = 0 -> mem[k][address(k)]
                      [] Delay[k] # 0 /\ high(k, "re") -> mem[k][read(k, "baddr")]
                      [] OTHER -> 0]])

-----------------------------------------------------------------------------
\* Signals and counters start at 0; the memories hold anything.
SignalNames ==
    [top |-> {"clk"}, core |-> {"ACC", "xreg_addr_sel"} \cup Pointers,
     xram |-> {"addr", "wr_data", "rd_data", "re", "we", "ready", "waitready"},
     xreg |-> {"addr", "wr_data", "rd_data", "re", "we", "ready", "waitready",
               "rd_ready", "wr_ready", "bre", "bwe", "baddr"},
     xrambig |-> {"rd_data", "re", "we", "ready",
                  "rd_ready", "wr_ready", "bre", "bwe", "baddr"}]
Signals == UNION {{<<o, n>> : n \in SignalNames[o]} : o \in DOMAIN SignalNames}

Init == /\ KernelInit([s \in Signals |-> 0])
        /\ mem \in [Memories -> [Values -> Values]]
        /\ rd_cnt = [k \in Memories |-> 0] /\ wr_cnt = [k \in Memories |-> 0]
        /\ program \in Programs /\ started = FALSE

Core == Stall \/ Execute
Wiring == SetXram \/ SetXreg \/ MuxXram
Answer == \E k \in Memories : SetReady(k)

Kernel == Update \/ Notify \/ TimeStep

Next == /\ UNCHANGED program
        /\ started' = (started \/ (phase = "done" /\ next_edge = 0))
        /\ \/ (Core \/ Wiring \/ Answer \/ Kernel) /\ UNCHANGED memoryVars
           \/ \E k \in Memories : MemoryEntry(k)

\* sc_start goes on.
Spec == Init /\ [][Next]_vars /\ WF_vars(Next)

-----------------------------------------------------------------------------
(***************************************************************************)
(* Properties.                                                             *)
(***************************************************************************)
\* Signals and members keep their width, the scheduler its lists.
TypeOK ==
    /\ cur \in [Signals -> Values \cup {0, 1}] /\ new \in [Signals -> Values \cup {0, 1}]
    /\ update_list \subseteq Signals /\ runnable \subseteq AllMethods
    /\ phase \in {"evaluate", "notify", "done"} /\ next_edge \in {0, 1}
    /\ mem \in [Memories -> [Values -> Values]]
    /\ \A k \in Memories : rd_cnt[k] \in 0 .. Delay[k] /\ wr_cnt[k] \in 0 .. Delay[k]

\* An access the core has begun and not yet left.
Pending(b, access) == high(b, "waitready") /\ high(b, access)

MemoryOf(b) == IF b = "xram" THEN "xrambig" ELSE b
Aimed(b) == IF b = "xram" THEN read("core", "DPTR")
            ELSE IF high("core", "xreg_addr_sel") THEN read("core", "R1")
            ELSE read("core", "R0")

Atomic == INSTANCE AtomicMovx WITH
            PointsInto <- BusWith,
            pointer <- [r \in Pointers |-> read("core", r)],
            acc <- CASE Pending("xram", "re") -> mem["xrambig"][Aimed("xram")]
                     [] Pending("xreg", "re") -> mem["xreg"][Aimed("xreg")]
                     [] OTHER -> read("core", "ACC"),
            data <- [b \in Buses |->
                       IF Pending(b, "we")
                       THEN [mem[MemoryOf(b)] EXCEPT ![Aimed(b)] = read("core", "ACC")]
                       ELSE mem[MemoryOf(b)]]

\* Whatever the delays, the signals between core and memory and the order in
\* which the scheduler runs the methods of an edge, a program sees each MOVX
\* as one step: the accumulator ends with the byte addressed, a store reaches
\* its byte and no other, and back-to-back accesses do not disturb each other.
ImplementsAtomicMovx == Atomic!Spec

\* Every access ends: the delta cycles of an edge come to rest, and the core
\* is not left waiting for a memory.
AccessesEnd == []<>(phase = "done" /\ \A b \in Buses : ~Stalled(b))
=============================================================================
