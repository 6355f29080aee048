----------------------------- MODULE MovxProofs -----------------------------
(***************************************************************************)
(* Proofs about external memory accesses.  The inductive invariant follows *)
(* the scheduler through a clock cycle: the methods of the beginning, the  *)
(* first rising edge, whose methods run among those of the wires, the      *)
(* delta cycles in which the wires settle, the clock's tick, the methods   *)
(* of the rising edge and those of the falling edge.  For each stage it    *)
(* says what the lines of a bus, the latches, counters and answers of its  *)
(* memory and the accumulator have to do with each other.                  *)
(***************************************************************************)
EXTENDS Movx, TLAPS

\* The signals of one owner.
Owned(owner, names) == {<<owner, n>> : n \in names}

\* The signals by the method that writes them.
CoreSignals == Owned("core", {"ACC", "xreg_addr_sel", "R0", "R1", "DPTR"})
               \cup Owned("xreg", {"re", "we", "waitready"})
               \cup Owned("xram", {"re", "we", "waitready"})
Latches(k) == Owned(k, {"rd_ready", "wr_ready", "bre", "bwe", "baddr"})
Answers(k) == Owned(k, {"ready", "rd_data"})
Wires == Owned("xreg", {"addr", "wr_data"})
         \cup Owned("xram", {"addr", "wr_data", "rd_data", "ready"})
         \cup Owned("xrambig", {"re", "we"})

\* A byte or an address; every other signal is one bit.
DataSignals == Owned("core", {"ACC", "R0", "R1", "DPTR"})
               \cup Owned("xreg", {"addr", "wr_data", "rd_data", "baddr"})
               \cup Owned("xram", {"addr", "wr_data", "rd_data"})
               \cup Owned("xrambig", {"rd_data", "baddr"})

\* What a signal can hold.
Valued(v) == /\ v \in [Signals -> Values \cup {0, 1}]
             /\ \A s \in DataSignals : v[s] \in Values
             /\ \A s \in Signals \ DataSignals : v[s] \in {0, 1}

\* The type invariant in full: TypeOK, each signal by its width, and what the
\* program and the history are.
Ranges ==
    /\ Valued(cur) /\ Valued(new)
    /\ update_list \subseteq Signals /\ runnable \subseteq AllMethods
    /\ phase \in {"evaluate", "notify", "done"} /\ next_edge \in {0, 1}
    /\ mem \in [Memories -> [Values -> Values]]
    /\ rd_cnt \in [Memories -> Nat] /\ wr_cnt \in [Memories -> Nat]
    /\ \A k \in Memories : rd_cnt[k] \in 0 .. Delay[k] /\ wr_cnt[k] \in 0 .. Delay[k]
    /\ program \in Programs /\ started \in BOOLEAN

\* The address MOVX means on a bus.
Aim(v, b) == IF b = "xram" THEN v[<<"core", "DPTR">>]
             ELSE IF v[<<"core", "xreg_addr_sel">>] = 1 THEN v[<<"core", "R1">>]
             ELSE v[<<"core", "R0">>]

\* The wires follow what they are computed from.
WiredXreg(v) == /\ v[<<"xreg", "addr">>] = Aim(v, "xreg")
                /\ v[<<"xreg", "wr_data">>] = v[<<"core", "ACC">>]
WiredXram(v) == /\ v[<<"xram", "addr">>] = Aim(v, "xram")
                /\ v[<<"xram", "wr_data">>] = v[<<"core", "ACC">>]
WiredMux(v) == /\ v[<<"xrambig", "re">>] = v[<<"xram", "re">>]
               /\ v[<<"xrambig", "we">>] = v[<<"xram", "we">>]
               /\ v[<<"xram", "rd_data">>] = v[<<"xrambig", "rd_data">>]
               /\ v[<<"xram", "ready">>] = v[<<"xrambig", "ready">>]
Wired(v) == WiredXreg(v) /\ WiredXram(v) /\ WiredMux(v)

\* The registers this program stores through.
StorePointers == {i.r : i \in {j \in program : j.op = "store"}}

\* The core asks one memory for one thing at a time.
OneAccess ==
    /\ \A b \in Buses : /\ high(b, "waitready") <=> (high(b, "re") \/ high(b, "we"))
                        /\ ~(high(b, "re") /\ high(b, "we"))
    /\ ~(high("xreg", "waitready") /\ high("xram", "waitready"))
    /\ high("xreg", "we") => (IF high("core", "xreg_addr_sel") THEN "R1" ELSE "R0")
                                \in StorePointers
    /\ ~started => \A b \in Buses : ~high(b, "waitready")

\* The byte meant in memory k, and what its bus asks of it.
Target(k) == mem[k][Aim(cur, BusOf(k))]
Reads(k) == high(BusOf(k), "re")
Writes(k) == high(BusOf(k), "we")

\* After a falling edge: a memory that says it is ready has done what the lines
\* ask, and shows the byte; its counter has come to 0.
Kept(k) ==
    /\ high(k, "ready") /\ (Reads(k) \/ Writes(k)) => Target(k) = read("core", "ACC")
    /\ Delay[k] = 0 /\ (high(k, "ready") \/ ~Writes(k)) => read(k, "rd_data") = Target(k)
    /\ Delay[k] # 0 /\ Reads(k) => read(k, "rd_data") = mem[k][read(k, "baddr")]
Counted(k) ==
    Delay[k] # 0 /\ high(k, "ready") => /\ Writes(k) => wr_cnt[k] = 0
                                        /\ Reads(k) => rd_cnt[k] = 0
Answering == started => \A k \in Memories : Kept(k) /\ Counted(k)

\* After a rising edge: what a memory has latched of the lines, and says it is
\* done with, is done.
Served(k) ==
    /\ Writes(k) /\ high(k, "bwe") /\ (Delay[k] = 0 \/ high(k, "wr_ready")) =>
          Target(k) = read("core", "ACC")
    /\ Reads(k) /\ read(k, "baddr") = Aim(cur, BusOf(k))
         /\ (Delay[k] = 0 \/ (high(k, "bre") /\ high(k, "rd_ready"))) =>
          Target(k) = read("core", "ACC")
    /\ Delay[k] # 0 => /\ high(k, "bwe") /\ high(k, "wr_ready") => wr_cnt[k] = 0
                       /\ high(k, "bre") /\ high(k, "rd_ready") => rd_cnt[k] = 0
Serving == \A k \in Memories : Served(k)

\* Signals nothing has written in this evaluation phase.
Stays(S) == \A s \in S : new[s] = cur[s]

\* What the core does on an edge.
LinesAre(b, r, w) == /\ new[<<b, "re">>] = r /\ new[<<b, "we">>] = w
                     /\ new[<<b, "waitready">>] = level(r = 1 \/ w = 1)
StallMoved ==
    /\ \E b \in Buses : Stalled(b)
    /\ \A b \in Buses : IF Stalled(b) THEN LinesAre(b, read(b, "re"), read(b, "we"))
                        ELSE LinesAre(b, 0, 0)
    /\ new[<<"core", "ACC">>] = CASE Loaded("xram") -> read("xram", "rd_data")
                                  [] Loaded("xreg") -> read("xreg", "rd_data")
                                  [] OTHER -> read("core", "ACC")
    /\ Stays(Owned("core", {"xreg_addr_sel", "R0", "R1", "DPTR"}))

PlainMoved(i) ==
    /\ i.op \in {"NOP", "INC_A", "MOV"}
    /\ \A b \in Buses : LinesAre(b, 0, 0)
    /\ new[<<"core", "xreg_addr_sel">>] = read("core", "xreg_addr_sel")
    /\ new[<<"core", "ACC">>] = IF i.op = "INC_A" THEN (read("core", "ACC") + 1) % Range
                                ELSE read("core", "ACC")
    /\ \A r \in Pointers : new[<<"core", r>>] = IF i.op = "MOV" /\ r = i.r THEN i.v
                                                ELSE read("core", r)

MovxMoved(i) ==
    LET bus == BusWith[i.r] IN
    /\ started /\ i.op \in {"load", "store"}
    /\ \A b \in Buses : IF b = bus THEN LinesAre(b, level(i.op = "load"), level(i.op = "store"))
                        ELSE LinesAre(b, 0, 0)
    /\ new[<<"core", "xreg_addr_sel">>] = IF bus = "xreg" THEN level(i.r = "R1")
                                          ELSE read("core", "xreg_addr_sel")
    /\ new[<<"core", "ACC">>] = IF i.op = "load" THEN read(bus, "rd_data")
                                ELSE read("core", "ACC")
    /\ Stays(Owned("core", Pointers))

Moved == \/ StallMoved
         \/ /\ \A b \in Buses : ~Stalled(b)
            /\ \E i \in program : PlainMoved(i) \/ MovxMoved(i)

\* What a memory does on an edge.
Latched(k) ==
    /\ new[<<k, "bre">>] = level(Reads(k)) /\ new[<<k, "bwe">>] = level(Writes(k))
    /\ new[<<k, "baddr">>] = Aim(cur, BusOf(k))
    /\ Writes(k) /\ Delay[k] = 0 => Target(k) = read("core", "ACC")
    /\ Delay[k] # 0 =>
         /\ Writes(k) /\ new[<<k, "wr_ready">>] = 1 =>
              wr_cnt[k] = 0 /\ ~high(k, "ready") /\ Target(k) = read("core", "ACC")
         /\ Reads(k) /\ new[<<k, "rd_ready">>] = 1 =>
              rd_cnt[k] = 0 /\ ~high(k, "ready") /\ read(k, "baddr") = Aim(cur, BusOf(k))

-----------------------------------------------------------------------------
\* A method is due when it is queued, or about to be.
WiringMethods == {set_xram, set_xreg, mux_xram}
SensitiveOf(m) == Sensitivity[m[1]][m[2]]
Due(m) == m \in runnable \/ SensitiveOf(m) \cap delta_events # {}

\* In this evaluation phase the wires are written to what drives them, or rest
\* on it.
FedXreg == /\ new[<<"xreg", "addr">>] = Aim(cur, "xreg")
           /\ new[<<"xreg", "wr_data">>] = read("core", "ACC")
FedXram == /\ new[<<"xram", "addr">>] = Aim(cur, "xram")
           /\ new[<<"xram", "wr_data">>] = read("core", "ACC")
FedMux == /\ new[<<"xrambig", "re">>] = read("xram", "re")
          /\ new[<<"xrambig", "we">>] = read("xram", "we")
          /\ new[<<"xram", "rd_data">>] = read("xrambig", "rd_data")
          /\ new[<<"xram", "ready">>] = read("xrambig", "ready")

\* No memory sees an access or has latched one.
Unasked == \A k \in Memories : /\ ~high(k, "re") /\ ~high(k, "we")
                               /\ new[<<k, "bre">>] # 1 /\ new[<<k, "bwe">>] # 1

\* At first every method is queued once, with the first rise of the clock.
Beginning ==
    /\ phase = "evaluate" /\ next_edge = 0 /\ ~started /\ delta_events = {}
    /\ cur = [s \in Signals |-> 0]
    /\ Stays(Wires) /\ new[Clock] = 1
    /\ \A s \in Signals : new[s] # cur[s] => s \in update_list
    /\ IF core_entry \in runnable THEN Stays(CoreSignals) ELSE Moved
    /\ Unasked

\* That rise and the changes of the beginning are notified together.
FirstTick ==
    /\ phase = "notify" /\ next_edge = 0 /\ ~started /\ cur[Clock] = 1
    /\ runnable = {} /\ update_list = {} /\ new = cur
    /\ {Changed(Clock), Edge(1)} \subseteq delta_events /\ Edge(0) \notin delta_events
    /\ ~Due(set_xreg) => WiredXreg(cur)
    /\ ~Due(set_xram) => WiredXram(cur)
    /\ Unasked

\* So the methods of the first rising edge run among those of the wires.
FirstRise ==
    /\ phase = "evaluate" /\ next_edge = 0 /\ ~started /\ delta_events = {}
    /\ cur[Clock] = 1 /\ new[Clock] = 1
    /\ runnable \subseteq WiringMethods \cup {core_entry} \cup {entry(k) : k \in Memories}
    /\ \A s \in Signals : new[s] # cur[s] => s \in update_list
    /\ IF core_entry \in runnable THEN Stays(CoreSignals) ELSE Moved
    /\ set_xreg \notin runnable => FedXreg
    /\ set_xram \notin runnable => FedXram
    /\ mux_xram \notin runnable => FedMux
    /\ Unasked

\* Delta cycles after an edge: the wires follow until nothing changes.
Settling ==
    /\ delta_events \subseteq {Changed(s) : s \in Signals \ {Clock}}
    /\ runnable \subseteq WiringMethods
    /\ phase # "evaluate" => runnable = {} /\ new = cur /\ update_list = {}
    /\ phase # "notify" => delta_events = {}
    /\ Stays(Signals \ Wires)
    /\ cur[Clock] = 1 - next_edge
    /\ ~Due(set_xreg) => WiredXreg(new)
    /\ ~Due(set_xram) => WiredXram(new)
    /\ ~Due(mux_xram) => WiredMux(new)
    /\ next_edge = 1 => Answering
    /\ next_edge = 0 => Serving

\* The clock has been set, or its change notified.
Tick ==
    /\ runnable = {}
    /\ \/ /\ phase = "evaluate" /\ update_list = {Clock} /\ delta_events = {}
          /\ Stays(Signals \ {Clock})
          /\ cur[Clock] = next_edge /\ new[Clock] = 1 - next_edge
       \/ /\ phase = "notify" /\ update_list = {} /\ new = cur
          /\ delta_events = {Changed(Clock), Edge(1 - next_edge)}
          /\ cur[Clock] = 1 - next_edge
    /\ Wired(cur)
    /\ next_edge = 0 => Answering
    /\ next_edge = 1 => Serving /\ started

\* The methods of the rising edge: the core and the memories.
Rise ==
    /\ phase = "evaluate" /\ next_edge = 0 /\ delta_events = {} /\ cur[Clock] = 1
    /\ runnable \subseteq {core_entry, mux_xram} \cup {entry(k) : k \in Memories}
    /\ Wired(cur)
    /\ Stays(Wires \cup {Clock} \cup Answers("xreg") \cup Answers("xrambig"))
    /\ \A s \in Signals : new[s] # cur[s] => s \in update_list
    /\ IF core_entry \in runnable THEN Stays(CoreSignals) ELSE Moved
    /\ \A k \in Memories :
         /\ started => Kept(k)
         /\ IF entry(k) \in runnable THEN Stays(Latches(k)) /\ (started => Counted(k))
            ELSE Latched(k)

\* The methods of the falling edge: the memories answer.
Fall ==
    /\ phase = "evaluate" /\ next_edge = 1 /\ delta_events = {} /\ cur[Clock] = 0 /\ started
    /\ runnable \subseteq {mux_xram} \cup {set_ready(k) : k \in Memories}
    /\ Wired(cur)
    /\ Stays(Signals \ (Answers("xreg") \cup Answers("xrambig")))
    /\ \A s \in Signals : new[s] # cur[s] => s \in update_list
    /\ Serving
    /\ \A k \in Memories :
         IF set_ready(k) \in runnable THEN Stays(Answers(k))
         ELSE /\ new[<<k, "ready">>] = level(Answered(k))
              /\ new[<<k, "rd_data">>] = CASE Delay[k] = 0 -> Target(k)
                                           [] Delay[k] # 0 /\ Reads(k) -> mem[k][read(k, "baddr")]
                                           [] OTHER -> 0

\* The inductive invariant.
Inv == /\ Ranges /\ OneAccess
       /\ \/ Beginning \/ FirstTick \/ FirstRise
          \/ Settling \/ Tick \/ Rise \/ Fall

-----------------------------------------------------------------------------
\* The signals, one by one.
LEMMA SignalSet ==
    Signals = CoreSignals \cup Wires \cup {Clock}
              \cup Latches("xreg") \cup Latches("xrambig")
              \cup Answers("xreg") \cup Answers("xrambig")
<1>1. Signals = UNION {{<<o, n>> : n \in SignalNames[o]} :
                        o \in {"top", "core", "xram", "xreg", "xrambig"}}
  BY DEF Signals, SignalNames
<1>2. Signals = {<<"top", n>> : n \in SignalNames["top"]}
          \cup {<<"core", n>> : n \in SignalNames["core"]}
          \cup {<<"xram", n>> : n \in SignalNames["xram"]}
          \cup {<<"xreg", n>> : n \in SignalNames["xreg"]}
          \cup {<<"xrambig", n>> : n \in SignalNames["xrambig"]}
  BY <1>1
<1>3. /\ SignalNames["top"] = {"clk"}
      /\ SignalNames["core"] = {"ACC", "xreg_addr_sel", "R0", "R1", "DPTR"}
      /\ SignalNames["xram"] = {"addr", "wr_data", "rd_data", "re", "we", "ready", "waitready"}
      /\ SignalNames["xreg"] = {"addr", "wr_data", "rd_data", "re", "we", "ready", "waitready",
               "rd_ready", "wr_ready", "bre", "bwe", "baddr"}
      /\ SignalNames["xrambig"] = {"rd_data", "re", "we", "ready",
                  "rd_ready", "wr_ready", "bre", "bwe", "baddr"}
  BY DEF SignalNames, Pointers, BusWith
<1> QED
  BY <1>2, <1>3 DEF CoreSignals, Wires, Clock, Latches, Answers, Owned

\* What one method writes.
LEMMA Written ==
    ASSUME Ranges, NEW m, NEW w, Evaluate(m, w)
    PROVE  /\ phase = "evaluate" /\ m \in runnable /\ runnable' = runnable \ {m}
           /\ \A s \in Signals : new'[s] = IF s[1] \in DOMAIN w /\ s[2] \in DOMAIN w[s[1]]
                                          THEN w[s[1]][s[2]] ELSE new[s]
           /\ DOMAIN new' = Signals
           /\ new' = [s \in Signals |-> new'[s]]
           /\ update_list' = update_list \cup {s \in Signals : new'[s] # new[s]}
           /\ cur' = cur /\ delta_events' = delta_events /\ next_edge' = next_edge
           /\ phase' = phase
<1>1. DOMAIN new = Signals
  BY DEF Ranges, Valued
<1>2. new' = [s \in Signals |-> IF s[1] \in DOMAIN w /\ s[2] \in DOMAIN w[s[1]]
                                          THEN w[s[1]][s[2]] ELSE new[s]]
  BY <1>1 DEF Evaluate, write, Overwritten
<1> QED
  BY <1>1, <1>2 DEF Evaluate, write

\* Every signal is a pair of an owner and a name.
LEMMA SignalPairs == \A s \in Signals : s = <<s[1], s[2]>>
  BY SignalSet DEF Owned, CoreSignals, Wires, Clock, Latches, Answers

\* set_xreg and set_xram drive the lines of their bus.
LEMMA SetXregWrites ==
    ASSUME Ranges, SetXreg
    PROVE  /\ new'[<<"xreg", "addr">>] = Aim(cur, "xreg")
           /\ new'[<<"xreg", "wr_data">>] = cur[<<"core", "ACC">>]
           /\ \A s \in Signals \ Owned("xreg", {"addr", "wr_data"}) : new'[s] = new[s]
<1> DEFINE w == [xreg |-> [addr |-> IF high("core", "xreg_addr_sel") THEN read("core", "R1")
                        ELSE read("core", "R0"),
               wr_data |-> read("core", "ACC")]]
<1>1. Evaluate(set_xreg, w)
  BY DEF SetXreg
<1>2. DOMAIN w = {"xreg"} /\ DOMAIN w["xreg"] = {"addr", "wr_data"}
  OBVIOUS
<1>3. w["xreg"]["addr"] = Aim(cur, "xreg") /\ w["xreg"]["wr_data"] = cur[<<"core", "ACC">>]
  BY DEF Aim, read, high
<1>4. <<"xreg", "addr">> \in Signals /\ <<"xreg", "wr_data">> \in Signals
  BY SignalSet DEF Wires, Owned
<1> HIDE DEF w
<1>5. \A s \in Signals : new'[s] = IF s[1] \in DOMAIN w /\ s[2] \in DOMAIN w[s[1]]
                                          THEN w[s[1]][s[2]] ELSE new[s]
  BY <1>1, Written
<1>6. \A s \in Signals \ Owned("xreg", {"addr", "wr_data"}) :
         ~(s[1] = "xreg" /\ s[2] \in {"addr", "wr_data"})
  BY SignalPairs DEF Owned
<1> QED
  BY <1>2, <1>3, <1>4, <1>5, <1>6

\* set_xram drives the address and the data of its bus.
LEMMA SetXramWrites ==
    ASSUME Ranges, SetXram
    PROVE  /\ new'[<<"xram", "addr">>] = Aim(cur, "xram")
           /\ new'[<<"xram", "wr_data">>] = cur[<<"core", "ACC">>]
           /\ \A s \in Signals \ Owned("xram", {"addr", "wr_data"}) : new'[s] = new[s]
<1> DEFINE w == [xram |-> [addr |-> read("core", "DPTR"), wr_data |-> read("core", "ACC")]]
<1>1. Evaluate(set_xram, w)
  BY DEF SetXram
<1>2. DOMAIN w = {"xram"} /\ DOMAIN w["xram"] = {"addr", "wr_data"}
  OBVIOUS
<1>3. w["xram"]["addr"] = Aim(cur, "xram") /\ w["xram"]["wr_data"] = cur[<<"core", "ACC">>]
  BY DEF Aim, read
<1>4. <<"xram", "addr">> \in Signals /\ <<"xram", "wr_data">> \in Signals
  BY SignalSet DEF Wires, Owned
<1> HIDE DEF w
<1>5. \A s \in Signals : new'[s] = IF s[1] \in DOMAIN w /\ s[2] \in DOMAIN w[s[1]]
                                          THEN w[s[1]][s[2]] ELSE new[s]
  BY <1>1, Written
<1>6. \A s \in Signals \ Owned("xram", {"addr", "wr_data"}) :
         ~(s[1] = "xram" /\ s[2] \in {"addr", "wr_data"})
  BY SignalPairs DEF Owned
<1> QED
  BY <1>2, <1>3, <1>4, <1>5, <1>6

\* mux_xram passes the lines of the bus on to the memory, and its answers back.
LEMMA MuxWrites ==
    ASSUME Ranges, MuxXram
    PROVE  /\ new'[<<"xrambig", "re">>] = cur[<<"xram", "re">>]
           /\ new'[<<"xrambig", "we">>] = cur[<<"xram", "we">>]
           /\ new'[<<"xram", "rd_data">>] = cur[<<"xrambig", "rd_data">>]
           /\ new'[<<"xram", "ready">>] = cur[<<"xrambig", "ready">>]
           /\ \A s \in Signals \ (Owned("xrambig", {"re", "we"})
                                   \cup Owned("xram", {"rd_data", "ready"})) :
                 new'[s] = new[s]
<1> DEFINE w == [xrambig |-> [re |-> read("xram", "re"), we |-> read("xram", "we")],
                 xram |-> [rd_data |-> read("xrambig", "rd_data"),
                           ready |-> read("xrambig", "ready")]]
<1>1. Evaluate(mux_xram, w)
  BY DEF MuxXram
<1>2. /\ DOMAIN w = {"xrambig", "xram"}
      /\ DOMAIN w["xrambig"] = {"re", "we"} /\ DOMAIN w["xram"] = {"rd_data", "ready"}
  OBVIOUS
<1>3. /\ w["xrambig"]["re"] = cur[<<"xram", "re">>] /\ w["xrambig"]["we"] = cur[<<"xram", "we">>]
      /\ w["xram"]["rd_data"] = cur[<<"xrambig", "rd_data">>]
      /\ w["xram"]["ready"] = cur[<<"xrambig", "ready">>]
  BY DEF read
<1>4. /\ <<"xrambig", "re">> \in Signals /\ <<"xrambig", "we">> \in Signals
      /\ <<"xram", "rd_data">> \in Signals /\ <<"xram", "ready">> \in Signals
  BY SignalSet DEF Wires, Owned
<1> HIDE DEF w
<1>5. \A s \in Signals : new'[s] = IF s[1] \in DOMAIN w /\ s[2] \in DOMAIN w[s[1]]
                                          THEN w[s[1]][s[2]] ELSE new[s]
  BY <1>1, Written
<1>6. \A s \in Signals \ (Owned("xrambig", {"re", "we"}) \cup Owned("xram", {"rd_data", "ready"})) :
         /\ ~(s[1] = "xrambig" /\ s[2] \in {"re", "we"})
         /\ ~(s[1] = "xram" /\ s[2] \in {"rd_data", "ready"})
  BY SignalPairs DEF Owned
<1> QED
  BY <1>2, <1>3, <1>4, <1>5, <1>6

\* set_ready answers.
LEMMA SetReadyWrites ==
    ASSUME Ranges, NEW k \in Memories, SetReady(k)
    PROVE  /\ new'[<<k, "ready">>] = level(Answered(k))
           /\ new'[<<k, "rd_data">>] = CASE Delay[k] = 0 -> mem[k][address(k)]
                         [] Delay[k] # 0 /\ high(k, "re") -> mem[k][read(k, "baddr")]
                         [] OTHER -> 0
           /\ \A s \in Signals \ Answers(k) : new'[s] = new[s]
<1> DEFINE data == CASE Delay[k] = 0 -> mem[k][address(k)]
                      [] Delay[k] # 0 /\ high(k, "re") -> mem[k][read(k, "baddr")]
                      [] OTHER -> 0
           w == [o \in {k} |-> [ready |-> level(Answered(k)), rd_data |-> data]]
<1>1. Evaluate(set_ready(k), w)
  BY DEF SetReady
<1> HIDE DEF data
<1>2. /\ DOMAIN w = {k} /\ DOMAIN w[k] = {"ready", "rd_data"}
      /\ w[k]["ready"] = level(Answered(k)) /\ w[k]["rd_data"] = data
  OBVIOUS
<1>3. <<k, "ready">> \in Signals /\ <<k, "rd_data">> \in Signals
  BY SignalSet DEF Answers, Owned, Memories
<1> HIDE DEF w
<1>4. \A s \in Signals : new'[s] = IF s[1] \in DOMAIN w /\ s[2] \in DOMAIN w[s[1]]
                                          THEN w[s[1]][s[2]] ELSE new[s]
  BY <1>1, Written
<1>5. \A s \in Signals \ Answers(k) : ~(s[1] = k /\ s[2] \in {"ready", "rd_data"})
  BY SignalPairs DEF Answers, Owned
<1>6. new'[<<k, "ready">>] = level(Answered(k)) /\ new'[<<k, "rd_data">>] = data
      /\ \A s \in Signals \ Answers(k) : new'[s] = new[s]
  BY <1>2, <1>3, <1>4, <1>5
<1> QED
  BY <1>6 DEF data

\* The rising edge of a memory.
LEMMA MemoryWrites ==
    ASSUME Ranges, NEW k \in Memories, MemoryEntry(k)
    PROVE  /\ new'[<<k, "rd_ready">>] = Ready(k, "re", NextRead(k))
           /\ new'[<<k, "wr_ready">>] = Ready(k, "we", NextWrite(k))
           /\ new'[<<k, "bre">>] = cur[<<k, "re">>] /\ new'[<<k, "bwe">>] = cur[<<k, "we">>]
           /\ new'[<<k, "baddr">>] = address(k)
           /\ \A s \in Signals \ Latches(k) : new'[s] = new[s]
<1> DEFINE rd == Ready(k, "re", NextRead(k))
           wr == Ready(k, "we", NextWrite(k))
           w == [o \in {k} |-> [rd_ready |-> rd, wr_ready |-> wr,
                         bre |-> read(k, "re"), bwe |-> read(k, "we"),
                         baddr |-> address(k)]]
<1>1. Evaluate(entry(k), w)
  BY DEF MemoryEntry
<1> HIDE DEF rd, wr
<1>2. /\ DOMAIN w = {k} /\ DOMAIN w[k] = {"rd_ready", "wr_ready", "bre", "bwe", "baddr"}
      /\ w[k]["rd_ready"] = rd /\ w[k]["wr_ready"] = wr
      /\ w[k]["bre"] = cur[<<k, "re">>] /\ w[k]["bwe"] = cur[<<k, "we">>]
      /\ w[k]["baddr"] = address(k)
  BY DEF read
<1>3. \A n \in {"rd_ready", "wr_ready", "bre", "bwe", "baddr"} : <<k, n>> \in Signals
  BY SignalSet DEF Latches, Owned, Memories
<1> HIDE DEF w
<1>4. \A s \in Signals : new'[s] = IF s[1] \in DOMAIN w /\ s[2] \in DOMAIN w[s[1]]
                                          THEN w[s[1]][s[2]] ELSE new[s]
  BY <1>1, Written
<1>5. \A s \in Signals \ Latches(k) :
         ~(s[1] = k /\ s[2] \in {"rd_ready", "wr_ready", "bre", "bwe", "baddr"})
  BY SignalPairs DEF Latches, Owned
<1>6. new'[<<k, "rd_ready">>] = rd /\ new'[<<k, "wr_ready">>] = wr
           /\ new'[<<k, "bre">>] = cur[<<k, "re">>] /\ new'[<<k, "bwe">>] = cur[<<k, "we">>]
           /\ new'[<<k, "baddr">>] = address(k)
      /\ \A s \in Signals \ Latches(k) : new'[s] = new[s]
  BY <1>2, <1>3, <1>4, <1>5
<1> QED
  BY <1>6 DEF rd, wr

-----------------------------------------------------------------------------
CoreNames == [core |-> {"ACC", "xreg_addr_sel", "R0", "R1", "DPTR"},
              xreg |-> {"re", "we", "waitready"}, xram |-> {"re", "we", "waitready"}]

\* The core writes its registers and the lines of both buses.
LEMMA CoreWrites ==
    ASSUME Ranges, Stays(CoreSignals), NEW w, Evaluate(core_entry, w),
           DOMAIN w = {"core", "xreg", "xram"}, DOMAIN w["core"] \subseteq CoreNames["core"],
           DOMAIN w["xreg"] = {"re", "we", "waitready"},
           DOMAIN w["xram"] = {"re", "we", "waitready"}
    PROVE  /\ \A n \in CoreNames["core"] :
                 new'[<<"core", n>>] = IF n \in DOMAIN w["core"] THEN w["core"][n]
                                       ELSE cur[<<"core", n>>]
           /\ \A b \in Buses : \A n \in {"re", "we", "waitready"} : new'[<<b, n>>] = w[b][n]
           /\ \A s \in Signals \ CoreSignals : new'[s] = new[s]
<1>1. \A s \in Signals : new'[s] = IF s[1] \in DOMAIN w /\ s[2] \in DOMAIN w[s[1]]
                                          THEN w[s[1]][s[2]] ELSE new[s]
  BY Written
<1>2. \A s \in Signals \ CoreSignals : ~(s[1] \in DOMAIN w /\ s[2] \in DOMAIN w[s[1]])
  BY SignalPairs DEF CoreSignals, Owned, CoreNames
<1>3. \A n \in CoreNames["core"] : <<"core", n>> \in Signals
                                   /\ new[<<"core", n>>] = cur[<<"core", n>>]
  BY SignalSet DEF CoreNames, Stays, CoreSignals, Owned
<1>4. \A b \in Buses : \A n \in {"re", "we", "waitready"} : <<b, n>> \in Signals
  BY SignalSet DEF Buses, CoreSignals, Owned
<1>5. \A b \in Buses : b \in DOMAIN w /\ DOMAIN w[b] = {"re", "we", "waitready"}
  BY DEF Buses
<1>6. \A n \in CoreNames["core"] :
                 new'[<<"core", n>>] = IF n \in DOMAIN w["core"] THEN w["core"][n]
                                       ELSE cur[<<"core", n>>]
  BY <1>1, <1>3
<1>7. \A b \in Buses : \A n \in {"re", "we", "waitready"} : new'[<<b, n>>] = w[b][n]
  BY <1>1, <1>4, <1>5
<1> QED
  BY <1>1, <1>2, <1>6, <1>7

\* A step that leaves the values shown on the signals alone reads the same.
LEMMA SameReads ==
    ASSUME cur' = cur
    PROVE  /\ \A o, n : read(o, n)' = read(o, n)
           /\ \A o, n : high(o, n)' <=> high(o, n)
           /\ \A b \in Buses : /\ Stalled(b)' <=> Stalled(b)
                               /\ Loaded(b)' <=> Loaded(b)
  BY DEF read, high, Stalled, Loaded

\* A stalled core keeps the lines it waits on, releases the others, and lets the
\* accumulator follow what the memory shows.
LEMMA StallWrites ==
    ASSUME Ranges, OneAccess, Stays(CoreSignals), Stall
    PROVE  StallMoved' /\ \A s \in Signals \ CoreSignals : new'[s] = new[s]
<1> DEFINE held(b) == IF Stalled(b)
                        THEN [Released EXCEPT !.re = read(b, "re"),
                                              !.we = read(b, "we"), !.waitready = 1]
                        ELSE Released
           acc == CASE Loaded("xram") -> read("xram", "rd_data")
                    [] Loaded("xreg") -> read("xreg", "rd_data")
                    [] OTHER -> read("core", "ACC")
           w == [xreg |-> held("xreg"), xram |-> held("xram"), core |-> [ACC |-> acc]]
<1>1. Evaluate(core_entry, w) /\ \E b \in Buses : Stalled(b)
  BY DEF Stall
<1>2. \A b \in Buses : /\ DOMAIN held(b) = {"re", "we", "waitready"}
                       /\ held(b).re = IF Stalled(b) THEN read(b, "re") ELSE 0
                       /\ held(b).we = IF Stalled(b) THEN read(b, "we") ELSE 0
                       /\ held(b).waitready = IF Stalled(b) THEN 1 ELSE 0
  BY DEF Released
<1> HIDE DEF held, acc
<1>3. /\ DOMAIN w = {"core", "xreg", "xram"} /\ DOMAIN w["core"] = {"ACC"}
      /\ w["core"]["ACC"] = acc /\ w["xreg"] = held("xreg") /\ w["xram"] = held("xram")
  OBVIOUS
<1> HIDE DEF w
<1>4. /\ \A n \in CoreNames["core"] :
                 new'[<<"core", n>>] = IF n \in DOMAIN w["core"] THEN w["core"][n]
                                       ELSE cur[<<"core", n>>]
      /\ \A b \in Buses : \A n \in {"re", "we", "waitready"} : new'[<<b, n>>] = w[b][n]
      /\ \A s \in Signals \ CoreSignals : new'[s] = new[s]
  BY <1>1, <1>2, <1>3, CoreWrites DEF Buses, CoreNames
<1>5. cur' = cur
  BY <1>1, Written
<1>6. (\E b \in Buses : Stalled(b))'
  BY <1>1, <1>5 DEF Stalled, high, read
<1>7. ASSUME NEW b \in Buses
      PROVE  (IF Stalled(b) THEN LinesAre(b, read(b, "re"), read(b, "we"))
              ELSE LinesAre(b, 0, 0))'
  <2>1. w[b] = held(b)
    BY <1>3 DEF Buses
  <2>2. /\ new'[<<b, "re">>] = IF Stalled(b) THEN read(b, "re") ELSE 0
        /\ new'[<<b, "we">>] = IF Stalled(b) THEN read(b, "we") ELSE 0
        /\ new'[<<b, "waitready">>] = IF Stalled(b) THEN 1 ELSE 0
    BY <2>1, <1>2, <1>4
  <2>3. Stalled(b) => read(b, "re") = 1 \/ read(b, "we") = 1
    BY DEF OneAccess, Stalled, high
  <2>4. /\ Stalled(b)' <=> Stalled(b)
        /\ read(b, "re")' = read(b, "re") /\ read(b, "we")' = read(b, "we")
    BY <1>5, SameReads
  <2>5. CASE Stalled(b)
    <3>1. LinesAre(b, read(b, "re"), read(b, "we"))'
      BY <2>2, <2>3, <2>4, <2>5 DEF LinesAre, level
    <3> QED
      BY <3>1, <2>4, <2>5
  <2>6. CASE ~Stalled(b)
    <3>1. LinesAre(b, 0, 0)'
      BY <2>2, <2>6 DEF LinesAre, level
    <3> QED
      BY <3>1, <2>4, <2>6
  <2> QED
    BY <2>5, <2>6
<1>8. new'[<<"core", "ACC">>] = acc
  BY <1>3, <1>4 DEF CoreNames
<1>9. (new[<<"core", "ACC">>] = CASE Loaded("xram") -> read("xram", "rd_data")
                                  [] Loaded("xreg") -> read("xreg", "rd_data")
                                  [] OTHER -> read("core", "ACC"))'
  BY <1>5, <1>8, SameReads DEF acc, Buses
<1>10. Stays(Owned("core", {"xreg_addr_sel", "R0", "R1", "DPTR"}))'
  BY <1>3, <1>4, <1>5 DEF Stays, Owned, CoreNames
<1> QED
  BY <1>4, <1>6, <1>7, <1>9, <1>10 DEF StallMoved

\* The instructions of a program are instructions.
LEMMA Instruction ==
    ASSUME Ranges, NEW i \in program
    PROVE  /\ i.op \in {"NOP", "INC_A", "MOV", "load", "store"}
           /\ i.op \in {"MOV", "load", "store"} => i.r \in Pointers
           /\ i.op = "MOV" => i.v \in Values
<1>1. i \in Instructions
  BY MovxAssumption DEF Ranges
<1> QED
  BY <1>1 DEF Instructions

\* An instruction that is no MOVX releases both buses.
LEMMA PlainWrites ==
    ASSUME Ranges, Stays(CoreSignals), NEW i \in program, Plain(i),
           i.op \notin {"load", "store"}
    PROVE  /\ PlainMoved(i)' /\ \A s \in Signals \ CoreSignals : new'[s] = new[s]
           /\ cur' = cur
<1> DEFINE c == CASE i.op = "NOP" -> [r \in {} |-> 0]
                  [] i.op = "INC_A" -> [ACC |-> (read("core", "ACC") + 1) % Range]
                  [] i.op = "MOV" -> [r \in {i.r} |-> i.v]
           w == [xreg |-> Released, xram |-> Released, core |-> c]
<1>1. Evaluate(core_entry, w)
  BY DEF Plain
<1>2. i.op \in {"NOP", "INC_A", "MOV"} /\ (i.op = "MOV" => i.r \in {"R0", "R1", "DPTR"})
  BY Instruction DEF Pointers, BusWith
<1>3. /\ i.op = "NOP" => DOMAIN c = {}
      /\ i.op = "INC_A" => DOMAIN c = {"ACC"} /\ c["ACC"] = (read("core", "ACC") + 1) % Range
      /\ i.op = "MOV" => DOMAIN c = {i.r} /\ c[i.r] = i.v
  OBVIOUS
<1> HIDE DEF c
<1>4. /\ DOMAIN w = {"core", "xreg", "xram"} /\ w["core"] = c
      /\ w["xreg"] = Released /\ w["xram"] = Released
  OBVIOUS
<1>5. /\ DOMAIN Released = {"re", "we", "waitready"}
      /\ Released["re"] = 0 /\ Released["we"] = 0 /\ Released["waitready"] = 0
  BY DEF Released
<1>6. DOMAIN w["core"] \subseteq CoreNames["core"]
  BY <1>2, <1>3, <1>4 DEF CoreNames
<1> HIDE DEF w
<1>7. /\ \A n \in CoreNames["core"] :
                 new'[<<"core", n>>] = IF n \in DOMAIN w["core"] THEN w["core"][n]
                                       ELSE cur[<<"core", n>>]
      /\ \A b \in Buses : \A n \in {"re", "we", "waitready"} : new'[<<b, n>>] = w[b][n]
      /\ \A s \in Signals \ CoreSignals : new'[s] = new[s]
  BY <1>1, <1>4, <1>5, <1>6, CoreWrites
<1>8. cur' = cur
  BY <1>1, Written
<1>9. ASSUME NEW b \in Buses PROVE LinesAre(b, 0, 0)'
  <2>1. w[b] = Released
    BY <1>4 DEF Buses
  <2> QED
    BY <2>1, <1>5, <1>7 DEF LinesAre, level
<1>10. new'[<<"core", "xreg_addr_sel">>] = cur[<<"core", "xreg_addr_sel">>]
  BY <1>2, <1>3, <1>4, <1>7 DEF CoreNames
<1>11. new'[<<"core", "ACC">>] = IF i.op = "INC_A" THEN (read("core", "ACC") + 1) % Range
                                ELSE cur[<<"core", "ACC">>]
  BY <1>2, <1>3, <1>4, <1>7 DEF CoreNames
<1>12. \A r \in Pointers : new'[<<"core", r>>] = IF i.op = "MOV" /\ r = i.r THEN i.v
                                                ELSE cur[<<"core", r>>]
  BY <1>2, <1>3, <1>4, <1>7 DEF CoreNames, Pointers, BusWith
<1> QED
  BY <1>2, <1>7, <1>8, <1>9, <1>10, <1>11, <1>12 DEF PlainMoved, read

\* MOVX raises the lines of one bus and releases the other.
LEMMA MovxWrites ==
    ASSUME Ranges, Stays(CoreSignals), NEW i \in program, MOVX(i),
           i.op \in {"load", "store"}, started'
    PROVE  /\ MovxMoved(i)' /\ \A s \in Signals \ CoreSignals : new'[s] = new[s]
           /\ cur' = cur
<1> DEFINE bus == BusWith[i.r]
           asked(b) == IF b = bus THEN [re |-> level(i.op = "load"),
                                     we |-> level(i.op = "store"), waitready |-> 1]
                       ELSE Released
           acc == IF i.op = "load" THEN read(bus, "rd_data") ELSE read("core", "ACC")
           sel == IF bus = "xreg" THEN level(i.r = "R1") ELSE read("core", "xreg_addr_sel")
           w == [xreg |-> asked("xreg"), xram |-> asked("xram"),
                 core |-> [ACC |-> acc, xreg_addr_sel |-> sel]]
<1>1. Evaluate(core_entry, w)
  BY DEF MOVX
<1>2. \A b \in Buses : /\ DOMAIN asked(b) = {"re", "we", "waitready"}
                       /\ asked(b).re = IF b = bus THEN level(i.op = "load") ELSE 0
                       /\ asked(b).we = IF b = bus THEN level(i.op = "store") ELSE 0
                       /\ asked(b).waitready = IF b = bus THEN 1 ELSE 0
  BY DEF Released
<1> HIDE DEF asked, acc, sel
<1>3. /\ DOMAIN w = {"core", "xreg", "xram"} /\ DOMAIN w["core"] = {"ACC", "xreg_addr_sel"}
      /\ w["core"]["ACC"] = acc /\ w["core"]["xreg_addr_sel"] = sel
      /\ w["xreg"] = asked("xreg") /\ w["xram"] = asked("xram")
  OBVIOUS
<1> HIDE DEF w
<1>4. DOMAIN w["core"] \subseteq CoreNames["core"]
  BY <1>3 DEF CoreNames
<1>5. /\ \A n \in CoreNames["core"] :
                 new'[<<"core", n>>] = IF n \in DOMAIN w["core"] THEN w["core"][n]
                                       ELSE cur[<<"core", n>>]
      /\ \A b \in Buses : \A n \in {"re", "we", "waitready"} : new'[<<b, n>>] = w[b][n]
      /\ \A s \in Signals \ CoreSignals : new'[s] = new[s]
  BY <1>1, <1>2, <1>3, <1>4, CoreWrites DEF Buses
<1>6. cur' = cur
  BY <1>1, Written
<1>7. ASSUME NEW b \in Buses
      PROVE  IF b = bus THEN LinesAre(b, level(i.op = "load"), level(i.op = "store"))'
             ELSE LinesAre(b, 0, 0)'
  <2>1. w[b] = asked(b)
    BY <1>3 DEF Buses
  <2> QED
    BY <2>1, <1>2, <1>5 DEF LinesAre, level
<1>8. new'[<<"core", "ACC">>] = acc /\ new'[<<"core", "xreg_addr_sel">>] = sel
  BY <1>3, <1>5 DEF CoreNames
<1>9. Stays(Owned("core", Pointers))'
  BY <1>3, <1>5, <1>6 DEF Stays, Owned, CoreNames, Pointers, BusWith
<1> QED
  BY <1>5, <1>6, <1>7, <1>8, <1>9 DEF MovxMoved, acc, sel, read

-----------------------------------------------------------------------------
\* Values of the signals that differ in S only, and there have their range.
LEMMA ValuedChange ==
    ASSUME NEW v, Valued(v), NEW u, u = [s \in Signals |-> u[s]],
           NEW S, \A s \in Signals \ S : u[s] = v[s],
           \A s \in S \cap DataSignals : u[s] \in Values,
           \A s \in S \ DataSignals : u[s] \in {0, 1}
    PROVE  Valued(u)
<1>1. \A s \in DataSignals : u[s] \in Values
  <2>1. DataSignals \subseteq Signals
    BY SignalSet DEF DataSignals, CoreSignals, Wires, Latches, Answers, Owned
  <2> QED
    BY <2>1 DEF Valued
<1>2. \A s \in Signals \ DataSignals : u[s] \in {0, 1}
  BY DEF Valued
<1>3. \A s \in Signals : u[s] \in Values \cup {0, 1}
  BY <1>1, <1>2
<1> HIDE DEF Valued
<1>4. u \in [Signals -> Values \cup {0, 1}]
  BY <1>3
<1> QED
  BY <1>1, <1>2, <1>4 DEF Valued

\* Bytes, and levels.
LEMMA Bits ==
    /\ 0 \in Values
    /\ \A x \in Nat : x % Range \in Values
    /\ \A P \in BOOLEAN : level(P) \in {0, 1}
    /\ Values \subseteq Nat
  BY MovxAssumption DEF Values, level

\* Updated lines are high as they were set.
LEMMA LinesHigh ==
    ASSUME cur' = new, NEW b \in Buses, NEW r, NEW w, LinesAre(b, r, w)
    PROVE  /\ high(b, "re")' <=> r = 1
           /\ high(b, "we")' <=> w = 1
           /\ high(b, "waitready")' <=> r = 1 \/ w = 1
<1>1. /\ cur'[<<b, "re">>] = r /\ cur'[<<b, "we">>] = w
      /\ cur'[<<b, "waitready">>] = level(r = 1 \/ w = 1)
  BY DEF LinesAre
<1> QED
  BY <1>1 DEF high, read, level

\* At rest, or after the first edge, the core asks one memory for one thing.
LEMMA MovedOneAccess ==
    ASSUME Ranges, OneAccess, Moved, cur' = new, program' = program, started' = started
    PROVE  OneAccess'
<1>1. \A b \in Buses : read(b, "re") \in {0, 1} /\ read(b, "we") \in {0, 1}
  <2>1. \A b \in Buses : <<b, "re">> \in Signals \ DataSignals
                         /\ <<b, "we">> \in Signals \ DataSignals
    BY SignalSet DEF Buses, DataSignals, CoreSignals, Owned
  <2> QED
    BY <2>1 DEF Ranges, Valued, read
<1>2. CASE StallMoved
  <2>1. ASSUME NEW b \in Buses
        PROVE  /\ high(b, "re")' => Stalled(b) /\ high(b, "re")
               /\ high(b, "we")' => Stalled(b) /\ high(b, "we")
               /\ high(b, "waitready")' <=> high(b, "re")' \/ high(b, "we")'
    <3>1. CASE Stalled(b)
      <4>1. LinesAre(b, read(b, "re"), read(b, "we"))
        BY <1>2, <3>1 DEF StallMoved
      <4> QED
        BY <4>1, <3>1, LinesHigh DEF high
    <3>2. CASE ~Stalled(b)
      <4>1. LinesAre(b, 0, 0)
        BY <1>2, <3>2 DEF StallMoved
      <4> QED
        BY <4>1, LinesHigh
    <3> QED
      BY <3>1, <3>2
  <2>2. high("core", "xreg_addr_sel")' <=> high("core", "xreg_addr_sel")
    BY <1>2 DEF StallMoved, Stays, Owned, high, read
  <2>3. \A b \in Buses : Stalled(b) => high(b, "waitready")
    BY DEF Stalled
  <2>4. StorePointers' = StorePointers
    BY DEF StorePointers
  <2> QED
    BY <2>1, <2>2, <2>3, <2>4 DEF OneAccess, Buses
<1>3. ASSUME NEW i \in program, PlainMoved(i) PROVE OneAccess'
  <2>1. \A b \in Buses : ~high(b, "re")' /\ ~high(b, "we")' /\ ~high(b, "waitready")'
    BY <1>3, LinesHigh DEF PlainMoved
  <2> QED
    BY <2>1 DEF OneAccess, Buses
<1>4. ASSUME NEW i \in program, MovxMoved(i) PROVE OneAccess'
  <2> DEFINE bus == BusWith[i.r]
  <2>1. i.op \in {"load", "store"} /\ started
    BY <1>4 DEF MovxMoved
  <2>2. /\ bus \in Buses /\ (bus = "xreg" => i.r \in {"R0", "R1"})
    BY <2>1, Instruction DEF Pointers, BusWith, Buses
  <2>3. ASSUME NEW b \in Buses
        PROVE  /\ high(b, "re")' <=> b = bus /\ i.op = "load"
               /\ high(b, "we")' <=> b = bus /\ i.op = "store"
               /\ high(b, "waitready")' <=> b = bus
    <3>1. CASE b = bus
      <4>1. LinesAre(b, level(i.op = "load"), level(i.op = "store"))
        BY <1>4, <3>1 DEF MovxMoved
      <4>2. /\ level(i.op = "load") = 1 <=> i.op = "load"
            /\ level(i.op = "store") = 1 <=> i.op = "store"
        BY DEF level
      <4> QED
        BY <2>1, <3>1, <4>1, <4>2, LinesHigh
    <3>2. CASE b # bus
      <4>1. LinesAre(b, 0, 0)
        BY <1>4, <3>2 DEF MovxMoved
      <4> QED
        BY <3>2, <4>1, LinesHigh
    <3> QED
      BY <3>1, <3>2
  <2>4. bus = "xreg" => (high("core", "xreg_addr_sel")' <=> i.r = "R1")
    BY <1>4 DEF MovxMoved, level, high, read
  <2>5. i.op = "store" => i.r \in StorePointers'
    BY DEF StorePointers
  <2> HIDE DEF bus
  <2> QED
    BY <2>1, <2>2, <2>3, <2>4, <2>5 DEF OneAccess, Buses
<1> QED
  BY <1>2, <1>3, <1>4 DEF Moved

-----------------------------------------------------------------------------
\* Who writes which signal.
LEMMA Groups ==
    /\ CoreSignals \subseteq Signals \ (Wires \cup {Clock})
    /\ \A k \in Memories : /\ Latches(k) \subseteq Signals \ (Wires \cup {Clock})
                           /\ Answers(k) \subseteq Signals \ (Wires \cup {Clock})
                           /\ Latches(k) \cap CoreSignals = {}
                           /\ Answers(k) \cap (CoreSignals \cup Latches(k)) = {}
    /\ Latches("xreg") \cap (Latches("xrambig") \cup Answers("xrambig")) = {}
    /\ Latches("xrambig") \cap Answers("xreg") = {}
    /\ Answers("xreg") \cap Answers("xrambig") = {}
    /\ Clock \notin Wires /\ Wires \subseteq Signals /\ Clock \in Signals
  BY SignalSet DEF CoreSignals, Latches, Answers, Wires, Clock, Owned, Memories

\* The signals, named one by one.
LEMMA Members ==
    /\ \A n \in {"ACC", "xreg_addr_sel", "R0", "R1", "DPTR"} : <<"core", n>> \in CoreSignals
    /\ \A b \in Buses : \A n \in {"re", "we", "waitready"} : <<b, n>> \in CoreSignals
    /\ \A k \in Memories : /\ \A n \in {"rd_ready", "wr_ready", "bre", "bwe", "baddr"} :
                                 <<k, n>> \in Latches(k)
                           /\ \A n \in {"ready", "rd_data"} : <<k, n>> \in Answers(k)
    /\ \A k \in Memories : BusOf(k) \in Buses
    /\ Memories = {"xreg", "xrambig"} /\ BusOf("xreg") = "xreg" /\ BusOf("xrambig") = "xram"
  BY DEF CoreSignals, Latches, Answers, Owned, Memories, Buses, BusOf

\* The wires and the clock apart, nothing has changed.
LEMMA Same ==
    ASSUME \A s \in Signals \ (Wires \cup {Clock}) : cur'[s] = cur[s],
           NEW k \in Memories, mem'[k] = mem[k], rd_cnt'[k] = rd_cnt[k], wr_cnt'[k] = wr_cnt[k]
    PROVE  /\ Kept(k)' <=> Kept(k)
           /\ Counted(k)' <=> Counted(k)
           /\ Served(k)' <=> Served(k)
<1>1. /\ \A n \in {"ACC", "xreg_addr_sel", "R0", "R1", "DPTR"} :
            cur'[<<"core", n>>] = cur[<<"core", n>>]
      /\ \A b \in Buses : \A n \in {"re", "we", "waitready"} : cur'[<<b, n>>] = cur[<<b, n>>]
      /\ \A n \in {"rd_ready", "wr_ready", "bre", "bwe", "baddr", "ready", "rd_data"} :
            cur'[<<k, n>>] = cur[<<k, n>>]
  BY Groups, Members
<1>2. \A b : Aim(cur', b) = Aim(cur, b)
  BY <1>1 DEF Aim
<1>3. BusOf(k) \in Buses
  BY Members
<1>4. /\ Target(k)' = Target(k)
      /\ Reads(k)' <=> Reads(k)
      /\ Writes(k)' <=> Writes(k)
      /\ \A n \in {"rd_ready", "wr_ready", "bre", "bwe", "ready"} : high(k, n)' <=> high(k, n)
      /\ read(k, "rd_data")' = read(k, "rd_data") /\ read(k, "baddr")' = read(k, "baddr")
      /\ read("core", "ACC")' = read("core", "ACC")
  BY <1>1, <1>2, <1>3 DEF Target, Reads, Writes, high, read
<1>5. Kept(k)' <=> Kept(k)
  BY <1>4 DEF Kept
<1>6. Counted(k)' <=> Counted(k)
  BY <1>4 DEF Counted
<1>7. Served(k)' <=> Served(k)
  BY <1>2, <1>4 DEF Served
<1> QED
  BY <1>5, <1>6, <1>7

\* The accesses, when the core has written nothing.
LEMMA SameAccess ==
    ASSUME OneAccess, \A s \in CoreSignals : cur'[s] = cur[s],
           program' = program, started => started'
    PROVE  OneAccess'
<1>1. /\ high("core", "xreg_addr_sel")' <=> high("core", "xreg_addr_sel")
      /\ \A b \in Buses : /\ high(b, "re")' <=> high(b, "re")
                          /\ high(b, "we")' <=> high(b, "we")
                          /\ high(b, "waitready")' <=> high(b, "waitready")
  BY Members DEF high, read
<1>2. StorePointers' = StorePointers
  BY DEF StorePointers
<1> QED
  BY <1>1, <1>2 DEF OneAccess, Buses

\* What every step does to the program and to the history variable.
Frame == /\ UNCHANGED program
         /\ started' = (started \/ (phase = "done" /\ next_edge = 0))

\* What was written asks for an update.
Listed == \A s \in Signals : new[s] # cur[s] => s \in update_list

\* The members of the memories keep their ranges.
MemoriesTyped ==
    /\ mem \in [Memories -> [Values -> Values]]
    /\ rd_cnt \in [Memories -> Nat] /\ wr_cnt \in [Memories -> Nat]
    /\ \A k \in Memories : rd_cnt[k] \in 0 .. Delay[k] /\ wr_cnt[k] \in 0 .. Delay[k]

\* One method has run to its end: what it does not write keeps its range.
LEMMA EvaluatedRanges ==
    ASSUME Ranges, NEW m, NEW w, Evaluate(m, w), Frame, MemoriesTyped', Valued(new')
    PROVE  Ranges' /\ started' = started
<1>1. /\ phase = "evaluate" /\ runnable' = runnable \ {m}
      /\ update_list' = update_list \cup {s \in Signals : new'[s] # new[s]}
      /\ cur' = cur /\ next_edge' = next_edge /\ phase' = phase
  BY Written
<1>2. started' = started /\ program' = program
  <2>1. ~(phase = "done" /\ next_edge = 0)
    BY <1>1
  <2>2. started \in BOOLEAN
    BY DEF Ranges
  <2> QED
    BY <2>1, <2>2, Zenon DEF Frame
<1>3. Valued(cur)'
  BY <1>1 DEF Ranges, Valued
<1>4. Valued(new)'
  OBVIOUS
<1> HIDE DEF Valued
<1> QED
  BY <1>1, <1>2, <1>3, <1>4 DEF Ranges, MemoriesTyped

\* What holds after a method has run, whichever it is.
LEMMA Evaluated ==
    ASSUME Inv, NEW m, NEW w, Evaluate(m, w), Frame, MemoriesTyped', Valued(new')
    PROVE  /\ Ranges' /\ OneAccess' /\ (Listed => Listed')
           /\ cur' = cur /\ started' = started /\ program' = program
           /\ new' = [s \in Signals |-> new'[s]]
           /\ phase = "evaluate" /\ phase' = "evaluate" /\ next_edge' = next_edge
           /\ m \in runnable /\ runnable' = runnable \ {m}
           /\ delta_events' = delta_events
<1>1. Ranges /\ OneAccess
  BY DEF Inv
<1>2. /\ phase = "evaluate" /\ m \in runnable /\ runnable' = runnable \ {m}
      /\ new' = [s \in Signals |-> new'[s]]
      /\ update_list' = update_list \cup {s \in Signals : new'[s] # new[s]}
      /\ cur' = cur /\ delta_events' = delta_events /\ next_edge' = next_edge
      /\ phase' = phase
  BY <1>1, Written
<1>3. Ranges' /\ started' = started /\ program' = program
  BY <1>1, EvaluatedRanges DEF Frame
<1>4. OneAccess'
  BY <1>1, <1>2, <1>3, SameAccess
<1>5. Listed => Listed'
  BY <1>2 DEF Listed
<1> QED
  BY <1>2, <1>3, <1>4, <1>5

\* A method that leaves some signals alone leaves what is known of them.
LEMMA SameMoved ==
    ASSUME cur' = cur, program' = program, started' = started,
           \A s \in CoreSignals : new'[s] = new[s]
    PROVE  Moved' <=> Moved
<1>1. /\ \A n \in {"ACC", "xreg_addr_sel", "R0", "R1", "DPTR"} :
            new'[<<"core", n>>] = new[<<"core", n>>]
      /\ \A b \in Buses : \A n \in {"re", "we", "waitready"} : new'[<<b, n>>] = new[<<b, n>>]
  BY Members
<1>2. \A b \in Buses : \A r, w : LinesAre(b, r, w)' <=> LinesAre(b, r, w)
  BY <1>1 DEF LinesAre, level
<1>3. /\ \A b \in Buses : (Stalled(b)' <=> Stalled(b)) /\ (Loaded(b)' <=> Loaded(b))
      /\ \A o, n : read(o, n)' = read(o, n)
  BY SameReads
<1>4. /\ Stays(Owned("core", {"xreg_addr_sel", "R0", "R1", "DPTR"}))'
              <=> Stays(Owned("core", {"xreg_addr_sel", "R0", "R1", "DPTR"}))
      /\ Stays(Owned("core", Pointers))' <=> Stays(Owned("core", Pointers))
  BY <1>1 DEF Stays, Owned, Pointers, BusWith
<1>5. StallMoved' <=> StallMoved
  BY <1>1, <1>2, <1>3, <1>4 DEF StallMoved, Buses
<1>6. ASSUME NEW i \in program
      PROVE  PlainMoved(i)' <=> PlainMoved(i)
  BY <1>1, <1>2, <1>3 DEF PlainMoved, Pointers, BusWith
<1>7. ASSUME NEW i \in program
      PROVE  MovxMoved(i)' <=> MovxMoved(i)
  BY <1>1, <1>2, <1>3, <1>4 DEF MovxMoved
<1> QED
  BY <1>3, <1>5, <1>6, <1>7 DEF Moved

\* What a memory has latched is not disturbed by the other methods.
LEMMA SameLatched ==
    ASSUME cur' = cur, NEW k \in Memories, mem'[k] = mem[k],
           rd_cnt'[k] = rd_cnt[k], wr_cnt'[k] = wr_cnt[k],
           \A s \in Latches(k) : new'[s] = new[s]
    PROVE  Latched(k)' <=> Latched(k)
<1>1. \A n \in {"rd_ready", "wr_ready", "bre", "bwe", "baddr"} : new'[<<k, n>>] = new[<<k, n>>]
  BY Members
<1>2. /\ Target(k)' = Target(k)
      /\ Reads(k)' <=> Reads(k)
      /\ Writes(k)' <=> Writes(k)
      /\ high(k, "ready")' <=> high(k, "ready")
      /\ read(k, "baddr")' = read(k, "baddr")
      /\ read("core", "ACC")' = read("core", "ACC")
      /\ Aim(cur', BusOf(k)) = Aim(cur, BusOf(k))
  BY DEF Target, Reads, Writes, high, read
<1> QED
  BY <1>1, <1>2 DEF Latched, level

\* Signals left at their value stay so while nothing writes them.
LEMMA SameStays ==
    ASSUME cur' = cur, NEW S, \A s \in S : new'[s] = new[s]
    PROVE  Stays(S)' <=> Stays(S)
  BY DEF Stays

\* What the signals hold.
LEMMA CurTyped ==
    ASSUME Ranges
    PROVE  /\ \A b \in Buses : /\ cur[<<b, "re">>] \in {0, 1} /\ cur[<<b, "we">>] \in {0, 1}
                               /\ cur[<<b, "ready">>] \in {0, 1}
                               /\ cur[<<b, "rd_data">>] \in Values /\ cur[<<b, "addr">>] \in Values
                               /\ cur[<<b, "wr_data">>] \in Values /\ Aim(cur, b) \in Values
           /\ cur[<<"core", "ACC">>] \in Values
           /\ \A k \in Memories : /\ cur[<<k, "re">>] \in {0, 1} /\ cur[<<k, "we">>] \in {0, 1}
                                  /\ cur[<<k, "ready">>] \in {0, 1}
                                  /\ cur[<<k, "rd_data">>] \in Values
                                  /\ cur[<<k, "baddr">>] \in Values /\ address(k) \in Values
<1>1. \A b \in Buses : /\ {<<b, "re">>, <<b, "we">>, <<b, "ready">>} \subseteq Signals \ DataSignals
                       /\ {<<b, "rd_data">>, <<b, "addr">>, <<b, "wr_data">>} \subseteq DataSignals
  BY SignalSet DEF Buses, DataSignals, CoreSignals, Owned, Answers, Wires
<1>2. \A n \in {"ACC", "R0", "R1", "DPTR"} : <<"core", n>> \in DataSignals
  BY DEF DataSignals, Owned
<1>3. \A k \in Memories : /\ {<<k, "re">>, <<k, "we">>, <<k, "ready">>} \subseteq Signals \ DataSignals
                          /\ {<<k, "rd_data">>, <<k, "baddr">>} \subseteq DataSignals
  BY SignalSet DEF Memories, DataSignals, CoreSignals, Owned, Answers, Wires
<1>4. /\ \A s \in DataSignals : cur[s] \in Values
      /\ \A s \in Signals \ DataSignals : cur[s] \in {0, 1}
  BY DEF Ranges, Valued
<1>5. \A b \in Buses : Aim(cur, b) \in Values
  BY <1>2, <1>4 DEF Aim
<1>6. \A k \in Memories : address(k) \in Values
  BY <1>1, <1>4, Members DEF address, read
<1> QED
  BY <1>1, <1>2, <1>3, <1>4, <1>5, <1>6

\* set_xreg writes addresses and bytes.
LEMMA SetXregValued ==
    ASSUME Ranges, SetXreg
    PROVE  Valued(new')
<1> DEFINE w == [xreg |-> [addr |-> IF high("core", "xreg_addr_sel") THEN read("core", "R1")
                        ELSE read("core", "R0"),
               wr_data |-> read("core", "ACC")]]
           S == Owned("xreg", {"addr", "wr_data"})
<1>1. Evaluate(set_xreg, w)
  BY DEF SetXreg
<1> HIDE DEF w
<1>3. /\ new'[<<"xreg", "addr">>] = Aim(cur, "xreg")
      /\ new'[<<"xreg", "wr_data">>] = cur[<<"core", "ACC">>]
      /\ \A s \in Signals \ S : new'[s] = new[s]
  BY SetXregWrites
<1>4. S \subseteq Wires /\ S \subseteq DataSignals
  BY DEF Wires, Owned, DataSignals
<1> QED
  <2>1. new' = [s \in Signals |-> new'[s]]
    BY <1>1, Written
  <2>2. \A s \in S : new'[s] \in Values
    BY <1>3, CurTyped DEF Owned, Buses
  <2> QED
    BY <1>3, <1>4, <2>1, <2>2, ValuedChange DEF Ranges

\* set_xram writes addresses and bytes.
LEMMA SetXramValued ==
    ASSUME Ranges, SetXram
    PROVE  Valued(new')
<1> DEFINE w == [xram |-> [addr |-> read("core", "DPTR"), wr_data |-> read("core", "ACC")]]
           S == Owned("xram", {"addr", "wr_data"})
<1>1. Evaluate(set_xram, w)
  BY DEF SetXram
<1> HIDE DEF w
<1>3. /\ new'[<<"xram", "addr">>] = Aim(cur, "xram")
      /\ new'[<<"xram", "wr_data">>] = cur[<<"core", "ACC">>]
      /\ \A s \in Signals \ S : new'[s] = new[s]
  BY SetXramWrites
<1>4. S \subseteq Wires /\ S \subseteq DataSignals
  BY DEF Wires, Owned, DataSignals
<1> QED
  <2>1. new' = [s \in Signals |-> new'[s]]
    BY <1>1, Written
  <2>2. \A s \in S : new'[s] \in Values
    BY <1>3, CurTyped DEF Owned, Buses
  <2> QED
    BY <1>3, <1>4, <2>1, <2>2, ValuedChange DEF Ranges

\* mux_xram writes levels and bytes.
LEMMA MuxValued ==
    ASSUME Ranges, MuxXram
    PROVE  Valued(new')
<1> DEFINE w == [xrambig |-> [re |-> read("xram", "re"), we |-> read("xram", "we")],
                 xram |-> [rd_data |-> read("xrambig", "rd_data"),
                           ready |-> read("xrambig", "ready")]]
           S == Owned("xrambig", {"re", "we"}) \cup Owned("xram", {"rd_data", "ready"})
<1>1. Evaluate(mux_xram, w)
  BY DEF MuxXram
<1> HIDE DEF w
<1>3. /\ new'[<<"xrambig", "re">>] = cur[<<"xram", "re">>]
      /\ new'[<<"xrambig", "we">>] = cur[<<"xram", "we">>]
      /\ new'[<<"xram", "rd_data">>] = cur[<<"xrambig", "rd_data">>]
      /\ new'[<<"xram", "ready">>] = cur[<<"xrambig", "ready">>]
      /\ \A s \in Signals \ S : new'[s] = new[s]
  BY MuxWrites
<1>4. S \subseteq Wires
  BY DEF Wires, Owned
<1> QED
  <2>1. new' = [s \in Signals |-> new'[s]]
    BY <1>1, Written
  <2>2. /\ new'[<<"xrambig", "re">>] \in {0, 1} /\ new'[<<"xrambig", "we">>] \in {0, 1}
        /\ new'[<<"xram", "ready">>] \in {0, 1} /\ new'[<<"xram", "rd_data">>] \in Values
    BY <1>3, CurTyped DEF Buses, Memories
  <2>3. \A s \in S \ DataSignals : new'[s] \in {0, 1}
    BY <2>2 DEF Owned, DataSignals
  <2>4. \A s \in S \cap DataSignals : new'[s] \in Values
    BY <2>2 DEF Owned, DataSignals
  <2> QED
    BY <1>3, <2>1, <2>3, <2>4, ValuedChange DEF Ranges

\* set_ready writes a level and a byte.
LEMMA SetReadyValued ==
    ASSUME Ranges, NEW k \in Memories, SetReady(k)
    PROVE  Valued(new')
<1> DEFINE data == CASE Delay[k] = 0 -> mem[k][address(k)]
                      [] Delay[k] # 0 /\ high(k, "re") -> mem[k][read(k, "baddr")]
                      [] OTHER -> 0
           w == [o \in {k} |-> [ready |-> level(Answered(k)), rd_data |-> data]]
<1>1. Evaluate(set_ready(k), w)
  BY DEF SetReady
<1>3. /\ new'[<<k, "ready">>] = level(Answered(k)) /\ new'[<<k, "rd_data">>] = data
      /\ \A s \in Signals \ Answers(k) : new'[s] = new[s]
  BY SetReadyWrites
<1>4. data \in Values
  <2>1. mem[k] \in [Values -> Values]
    BY DEF Ranges
  <2> QED
    BY <2>1, CurTyped, Bits DEF read
<1>5. data = CASE Delay[k] = 0 -> mem[k][address(k)]
               [] Delay[k] # 0 /\ high(k, "re") -> mem[k][read(k, "baddr")]
               [] OTHER -> 0
  OBVIOUS
<1> HIDE DEF w, data
<1> QED
  <2>1. new' = [s \in Signals |-> new'[s]]
    BY <1>1, Written
  <2>2. /\ <<k, "ready">> \notin DataSignals /\ <<k, "rd_data">> \in DataSignals
        /\ Answers(k) = {<<k, "ready">>, <<k, "rd_data">>}
    BY DEF DataSignals, Owned, Memories, Answers
  <2>3. new'[<<k, "ready">>] \in {0, 1}
    BY <1>3, Bits DEF level
  <2>4. /\ \A s \in Answers(k) \cap DataSignals : new'[s] \in Values
        /\ \A s \in Answers(k) \ DataSignals : new'[s] \in {0, 1}
    BY <1>3, <1>4, <2>2, <2>3
  <2> QED
    BY <1>3, <2>1, <2>4, ValuedChange DEF Ranges

-----------------------------------------------------------------------------
\* A wiring method leaves memories and accesses alone.
LEMMA WiringStages ==
    ASSUME Inv, NEW m \in WiringMethods, m \in runnable, phase = "evaluate"
    PROVE  Beginning \/ FirstRise \/ Settling \/ (m = mux_xram /\ (Rise \/ Fall))
<1>1. \A k \in Memories : m # entry(k) /\ m # set_ready(k)
  BY DEF WiringMethods, set_xram, set_xreg, mux_xram, entry, set_ready, Memories
<1>2. m # core_entry
  BY DEF WiringMethods, set_xram, set_xreg, mux_xram, core_entry
<1> QED
  BY <1>1, <1>2 DEF Inv, FirstTick, Tick, Rise, Fall

\* Methods that are no memory's entry leave the memories in their ranges.
LEMMA SameMemories ==
    ASSUME Ranges, UNCHANGED memoryVars PROVE MemoriesTyped'
  BY DEF Ranges, memoryVars, MemoriesTyped

\* Methods that leave the latches alone leave a memory unasked.
LEMMA SameUnasked ==
    ASSUME cur' = cur,
           \A k \in Memories : \A s \in Latches(k) : new'[s] = new[s]
    PROVE  Unasked' <=> Unasked
<1>1. \A k \in Memories : /\ new'[<<k, "bre">>] = new[<<k, "bre">>]
                          /\ new'[<<k, "bwe">>] = new[<<k, "bwe">>]
  BY Members
<1> QED
  BY <1>1 DEF Unasked, high, read

\* Wires a method does not write are fed as before.
LEMMA SameFed ==
    ASSUME cur' = cur
    PROVE  /\ (\A s \in Owned("xreg", {"addr", "wr_data"}) : new'[s] = new[s]) =>
                 (FedXreg' <=> FedXreg)
           /\ (\A s \in Owned("xram", {"addr", "wr_data"}) : new'[s] = new[s]) =>
                 (FedXram' <=> FedXram)
           /\ (\A s \in Owned("xrambig", {"re", "we"}) \cup Owned("xram", {"rd_data", "ready"}) :
                  new'[s] = new[s]) => (FedMux' <=> FedMux)
  BY DEF FedXreg, FedXram, FedMux, Owned, read

\* In the beginning all wires stay at 0.
LEMMA WiringBegins ==
    ASSUME Inv, Beginning, UNCHANGED memoryVars, cur' = cur, program' = program,
           started' = started, Listed', phase' = "evaluate", next_edge' = next_edge,
           delta_events' = delta_events, NEW m \in WiringMethods, runnable' = runnable \ {m},
           \A s \in Signals \ Wires : new'[s] = new[s],
           \A s \in Wires : new'[s] = 0 \/ new'[s] = new[s]
    PROVE  Beginning'
<1>1. m # core_entry
  BY DEF WiringMethods, set_xram, set_xreg, mux_xram, core_entry
<1>2. Moved' <=> Moved
  BY SameMoved, Groups
<1>3. Stays(CoreSignals)' <=> Stays(CoreSignals)
  BY SameStays, Groups
<1>4. Stays(Wires)' /\ new'[Clock] = new[Clock]
  BY Groups DEF Beginning, Stays
<1>5. Unasked' <=> Unasked
  BY Groups, SameUnasked
<1>6. core_entry \in runnable' <=> core_entry \in runnable
  BY <1>1
<1> QED
  BY <1>2, <1>3, <1>4, <1>5, <1>6 DEF Beginning, Listed

\* At the first rise a wiring method that has run has fed its wires.
LEMMA WiringRises ==
    ASSUME Inv, FirstRise, UNCHANGED memoryVars, cur' = cur, program' = program,
           started' = started, Listed', phase' = "evaluate", next_edge' = next_edge,
           delta_events' = delta_events, NEW m \in WiringMethods, runnable' = runnable \ {m},
           \A s \in Signals \ Wires : new'[s] = new[s],
           set_xreg \notin runnable' => FedXreg',
           set_xram \notin runnable' => FedXram',
           mux_xram \notin runnable' => FedMux'
    PROVE  FirstRise'
<1>1. m # core_entry
  BY DEF WiringMethods, set_xram, set_xreg, mux_xram, core_entry
<1>2. Moved' <=> Moved
  BY SameMoved, Groups
<1>3. Stays(CoreSignals)' <=> Stays(CoreSignals)
  BY SameStays, Groups
<1>4. new'[Clock] = new[Clock]
  BY Groups
<1>5. Unasked' <=> Unasked
  BY Groups, SameUnasked
<1>6. core_entry \in runnable' <=> core_entry \in runnable
  BY <1>1
<1> QED
  BY <1>2, <1>3, <1>4, <1>5, <1>6 DEF FirstRise, Listed

\* In a settling design a wiring method that has run is not due any more.
LEMMA WiringSettles ==
    ASSUME Inv, Settling, UNCHANGED memoryVars, cur' = cur, program' = program,
           started' = started, phase = "evaluate", phase' = "evaluate", next_edge' = next_edge,
           delta_events' = delta_events, NEW m \in WiringMethods, runnable' = runnable \ {m},
           \A s \in Signals \ Wires : new'[s] = new[s],
           ~Due(set_xreg)' => WiredXreg(new'),
           ~Due(set_xram)' => WiredXram(new'),
           ~Due(mux_xram)' => WiredMux(new')
    PROVE  Settling'
<1>1. Stays(Signals \ Wires)'
  BY SameStays DEF Settling
<1>2. \A k \in Memories : (Kept(k)' <=> Kept(k)) /\ (Counted(k)' <=> Counted(k))
                          /\ (Served(k)' <=> Served(k))
  BY Same DEF memoryVars
<1>3. (Answering' <=> Answering) /\ (Serving' <=> Serving)
  BY <1>2 DEF Answering, Serving
<1> QED
  BY <1>1, <1>3 DEF Settling

\* set_xreg runs.
LEMMA SetXregStep ==
    ASSUME Inv, SetXreg, UNCHANGED memoryVars, Frame
    PROVE  Inv'
<1> DEFINE w == [xreg |-> [addr |-> IF high("core", "xreg_addr_sel") THEN read("core", "R1")
                        ELSE read("core", "R0"),
               wr_data |-> read("core", "ACC")]]
           S == Owned("xreg", {"addr", "wr_data"})
<1>1. Evaluate(set_xreg, w)
  BY DEF SetXreg
<1> HIDE DEF w
<1>2. Ranges /\ OneAccess
  BY DEF Inv
<1>3. /\ new'[<<"xreg", "addr">>] = Aim(cur, "xreg")
      /\ new'[<<"xreg", "wr_data">>] = cur[<<"core", "ACC">>]
      /\ \A s \in Signals \ S : new'[s] = new[s]
  BY <1>2, SetXregWrites
<1>4. S \subseteq Wires /\ S \subseteq DataSignals
  BY DEF Wires, Owned, DataSignals
<1>5. Valued(new')
  BY <1>2, SetXregValued
<1>6. /\ Ranges' /\ OneAccess' /\ (Listed => Listed')
      /\ cur' = cur /\ started' = started /\ program' = program
      /\ phase = "evaluate" /\ phase' = "evaluate" /\ next_edge' = next_edge
      /\ set_xreg \in runnable /\ runnable' = runnable \ {set_xreg}
      /\ delta_events' = delta_events
  BY <1>1, <1>2, <1>5, SameMemories, Evaluated
<1>7. set_xreg \in WiringMethods /\ set_xreg # set_xram /\ set_xreg # mux_xram
  BY DEF WiringMethods, set_xreg, set_xram, mux_xram
<1>8. CASE Beginning
  <2>1. Aim(cur, "xreg") = 0 /\ cur[<<"core", "ACC">>] = 0
    BY <1>8, Groups, Members DEF Beginning, Aim
  <2>2. \A s \in Wires : new'[s] = 0 \/ new'[s] = new[s]
    BY <1>3, <2>1, Groups DEF Owned
  <2>3. Beginning'
    BY <1>3, <1>4, <1>6, <1>7, <1>8, <2>2, WiringBegins DEF Beginning, Listed
  <2> QED
    BY <1>6, <2>3 DEF Inv
<1>9. CASE Settling
  <2>1. WiredXreg(new')
    <3>1. Aim(new', "xreg") = Aim(cur, "xreg") /\ new'[<<"core", "ACC">>] = cur[<<"core", "ACC">>]
      BY <1>3, <1>4, <1>9, Groups, Members DEF Settling, Stays, Aim
    <3> QED
      BY <1>3, <3>1 DEF WiredXreg
  <2>2. ~Due(set_xram)' => WiredXram(new')
    <3>1. Due(set_xram)' <=> Due(set_xram)
      BY <1>6, <1>7 DEF Due
    <3>2. WiredXram(new') <=> WiredXram(new)
      <4>1. \A s \in {<<"xram", "addr">>, <<"xram", "wr_data">>} : s \in Signals \ S
        BY Groups DEF Wires, Owned
      <4> QED
        BY <1>3, <1>4, <4>1, Groups, Members DEF WiredXram, Aim
    <3> QED
      BY <1>9, <3>1, <3>2 DEF Settling
  <2>3. ~Due(mux_xram)' => WiredMux(new')
    <3>1. Due(mux_xram)' <=> Due(mux_xram)
      BY <1>6, <1>7 DEF Due
    <3>2. WiredMux(new') <=> WiredMux(new)
      <4>1. \A s \in {<<"xram", "rd_data">>, <<"xram", "ready">>, <<"xrambig", "re">>,
                      <<"xrambig", "we">>, <<"xram", "re">>, <<"xram", "we">>,
                      <<"xrambig", "rd_data">>, <<"xrambig", "ready">>} : s \in Signals \ S
        BY SignalSet DEF Wires, Owned, CoreSignals, Answers
      <4> QED
        BY <1>3, <4>1 DEF WiredMux
    <3> QED
      BY <1>9, <3>1, <3>2 DEF Settling
  <2>4. Settling'
    BY <1>3, <1>4, <1>6, <1>7, <1>9, <2>1, <2>2, <2>3, WiringSettles
  <2> QED
    BY <1>6, <2>4 DEF Inv
<1>10. CASE FirstRise
  <2>1. FedXreg'
    BY <1>3, <1>6 DEF FedXreg, Aim, read
  <2>2. set_xram \notin runnable' => FedXram'
    <3>1. FedXram' <=> FedXram
      <4>1. \A s \in Owned("xram", {"addr", "wr_data"}) : s \in Signals \ S
        BY Groups DEF Wires, Owned
      <4> QED
        BY <1>3, <1>6, <4>1, SameFed
    <3> QED
      BY <1>6, <1>7, <1>10, <3>1 DEF FirstRise
  <2>3. mux_xram \notin runnable' => FedMux'
    <3>1. FedMux' <=> FedMux
      <4>1. \A s \in Owned("xrambig", {"re", "we"}) \cup Owned("xram", {"rd_data", "ready"}) : s \in Signals \ S
        BY Groups DEF Wires, Owned
      <4> QED
        BY <1>3, <1>6, <4>1, SameFed
    <3> QED
      BY <1>6, <1>7, <1>10, <3>1 DEF FirstRise
  <2>4. FirstRise'
    BY <1>3, <1>4, <1>6, <1>7, <1>10, <2>1, <2>2, <2>3, WiringRises DEF FirstRise, Listed
  <2> QED
    BY <1>6, <2>4 DEF Inv
<1> QED
  BY <1>6, <1>7, <1>8, <1>9, <1>10, WiringStages

\* set_xram runs.
LEMMA SetXramStep ==
    ASSUME Inv, SetXram, UNCHANGED memoryVars, Frame
    PROVE  Inv'
<1> DEFINE w == [xram |-> [addr |-> read("core", "DPTR"), wr_data |-> read("core", "ACC")]]
           S == Owned("xram", {"addr", "wr_data"})
<1>1. Evaluate(set_xram, w)
  BY DEF SetXram
<1> HIDE DEF w
<1>2. Ranges /\ OneAccess
  BY DEF Inv
<1>3. /\ new'[<<"xram", "addr">>] = Aim(cur, "xram")
      /\ new'[<<"xram", "wr_data">>] = cur[<<"core", "ACC">>]
      /\ \A s \in Signals \ S : new'[s] = new[s]
  BY <1>2, SetXramWrites
<1>4. S \subseteq Wires /\ S \subseteq DataSignals
  BY DEF Wires, Owned, DataSignals
<1>5. Valued(new')
  BY <1>2, SetXramValued
<1>6. /\ Ranges' /\ OneAccess' /\ (Listed => Listed')
      /\ cur' = cur /\ started' = started /\ program' = program
      /\ phase = "evaluate" /\ phase' = "evaluate" /\ next_edge' = next_edge
      /\ set_xram \in runnable /\ runnable' = runnable \ {set_xram}
      /\ delta_events' = delta_events
  BY <1>1, <1>2, <1>5, SameMemories, Evaluated
<1>7. set_xram \in WiringMethods /\ set_xram # set_xreg /\ set_xram # mux_xram
  BY DEF WiringMethods, set_xreg, set_xram, mux_xram
<1>8. CASE Beginning
  <2>1. Aim(cur, "xram") = 0 /\ cur[<<"core", "ACC">>] = 0
    BY <1>8, Groups, Members DEF Beginning, Aim
  <2>2. \A s \in Wires : new'[s] = 0 \/ new'[s] = new[s]
    BY <1>3, <2>1, Groups DEF Owned
  <2>3. Beginning'
    BY <1>3, <1>4, <1>6, <1>7, <1>8, <2>2, WiringBegins DEF Beginning, Listed
  <2> QED
    BY <1>6, <2>3 DEF Inv
<1>9. CASE Settling
  <2>1. WiredXram(new')
    <3>1. Aim(new', "xram") = Aim(cur, "xram") /\ new'[<<"core", "ACC">>] = cur[<<"core", "ACC">>]
      BY <1>3, <1>4, <1>9, Groups, Members DEF Settling, Stays, Aim
    <3> QED
      BY <1>3, <3>1 DEF WiredXram
  <2>2. ~Due(set_xreg)' => WiredXreg(new')
    <3>1. Due(set_xreg)' <=> Due(set_xreg)
      BY <1>6, <1>7 DEF Due
    <3>2. WiredXreg(new') <=> WiredXreg(new)
      <4>1. \A s \in {<<"xreg", "addr">>, <<"xreg", "wr_data">>} : s \in Signals \ S
        BY Groups DEF Wires, Owned
      <4> QED
        BY <1>3, <1>4, <4>1, Groups, Members DEF WiredXreg, Aim
    <3> QED
      BY <1>9, <3>1, <3>2 DEF Settling
  <2>3. ~Due(mux_xram)' => WiredMux(new')
    <3>1. Due(mux_xram)' <=> Due(mux_xram)
      BY <1>6, <1>7 DEF Due
    <3>2. WiredMux(new') <=> WiredMux(new)
      <4>1. \A s \in {<<"xram", "rd_data">>, <<"xram", "ready">>, <<"xrambig", "re">>,
                      <<"xrambig", "we">>, <<"xram", "re">>, <<"xram", "we">>,
                      <<"xrambig", "rd_data">>, <<"xrambig", "ready">>} : s \in Signals \ S
        BY SignalSet DEF Wires, Owned, CoreSignals, Answers
      <4> QED
        BY <1>3, <4>1 DEF WiredMux
    <3> QED
      BY <1>9, <3>1, <3>2 DEF Settling
  <2>4. Settling'
    BY <1>3, <1>4, <1>6, <1>7, <1>9, <2>1, <2>2, <2>3, WiringSettles
  <2> QED
    BY <1>6, <2>4 DEF Inv
<1>10. CASE FirstRise
  <2>1. FedXram'
    BY <1>3, <1>6 DEF FedXram, Aim, read
  <2>2. set_xreg \notin runnable' => FedXreg'
    <3>1. FedXreg' <=> FedXreg
      <4>1. \A s \in Owned("xreg", {"addr", "wr_data"}) : s \in Signals \ S
        BY Groups DEF Wires, Owned
      <4> QED
        BY <1>3, <1>6, <4>1, SameFed
    <3> QED
      BY <1>6, <1>7, <1>10, <3>1 DEF FirstRise
  <2>3. mux_xram \notin runnable' => FedMux'
    <3>1. FedMux' <=> FedMux
      <4>1. \A s \in Owned("xrambig", {"re", "we"}) \cup Owned("xram", {"rd_data", "ready"}) : s \in Signals \ S
        BY Groups DEF Wires, Owned
      <4> QED
        BY <1>3, <1>6, <4>1, SameFed
    <3> QED
      BY <1>6, <1>7, <1>10, <3>1 DEF FirstRise
  <2>4. FirstRise'
    BY <1>3, <1>4, <1>6, <1>7, <1>10, <2>1, <2>2, <2>3, WiringRises DEF FirstRise, Listed
  <2> QED
    BY <1>6, <2>4 DEF Inv
<1> QED
  BY <1>6, <1>7, <1>8, <1>9, <1>10, WiringStages

\* mux_xram runs; right after an edge it finds nothing to change.
LEMMA MuxStep ==
    ASSUME Inv, MuxXram, UNCHANGED memoryVars, Frame
    PROVE  Inv'
<1> DEFINE w == [xrambig |-> [re |-> read("xram", "re"), we |-> read("xram", "we")],
                 xram |-> [rd_data |-> read("xrambig", "rd_data"),
                           ready |-> read("xrambig", "ready")]]
           S == Owned("xrambig", {"re", "we"}) \cup Owned("xram", {"rd_data", "ready"})
<1>1. Evaluate(mux_xram, w)
  BY DEF MuxXram
<1> HIDE DEF w
<1>2. Ranges /\ OneAccess
  BY DEF Inv
<1>3. /\ new'[<<"xrambig", "re">>] = cur[<<"xram", "re">>]
      /\ new'[<<"xrambig", "we">>] = cur[<<"xram", "we">>]
      /\ new'[<<"xram", "rd_data">>] = cur[<<"xrambig", "rd_data">>]
      /\ new'[<<"xram", "ready">>] = cur[<<"xrambig", "ready">>]
      /\ \A s \in Signals \ S : new'[s] = new[s]
  BY <1>2, MuxWrites
<1>4. S \subseteq Wires
  BY DEF Wires, Owned
<1>5. Valued(new')
  BY <1>2, MuxValued
<1>6. /\ Ranges' /\ OneAccess' /\ (Listed => Listed')
      /\ cur' = cur /\ started' = started /\ program' = program
      /\ phase = "evaluate" /\ phase' = "evaluate" /\ next_edge' = next_edge
      /\ mux_xram \in runnable /\ runnable' = runnable \ {mux_xram}
      /\ delta_events' = delta_events
  BY <1>1, <1>2, <1>5, SameMemories, Evaluated
<1>7. mux_xram \in WiringMethods /\ mux_xram # set_xreg /\ mux_xram # set_xram
  BY DEF WiringMethods, set_xreg, set_xram, mux_xram
<1>8. CASE Beginning
  <2>1. \A s \in S : new'[s] = 0
    <3>1. /\ cur[<<"xram", "re">>] = 0 /\ cur[<<"xram", "we">>] = 0
          /\ cur[<<"xrambig", "rd_data">>] = 0 /\ cur[<<"xrambig", "ready">>] = 0
      BY <1>8, SignalSet DEF Beginning, CoreSignals, Answers, Owned
    <3> QED
      BY <1>3, <3>1 DEF Owned
  <2>2. \A s \in Wires : new'[s] = 0 \/ new'[s] = new[s]
    BY <1>3, <2>1, Groups
  <2>3. Beginning'
    BY <1>3, <1>4, <1>6, <1>7, <1>8, <2>2, WiringBegins DEF Beginning, Listed
  <2> QED
    BY <1>6, <2>3 DEF Inv
<1>9. CASE Settling
  <2>1. WiredMux(new')
    <3>1. /\ new'[<<"xram", "re">>] = cur[<<"xram", "re">>]
          /\ new'[<<"xram", "we">>] = cur[<<"xram", "we">>]
          /\ new'[<<"xrambig", "rd_data">>] = cur[<<"xrambig", "rd_data">>]
          /\ new'[<<"xrambig", "ready">>] = cur[<<"xrambig", "ready">>]
      <4>1. {<<"xram", "re">>, <<"xram", "we">>, <<"xrambig", "rd_data">>, <<"xrambig", "ready">>}
               \subseteq Signals \ Wires
        BY Groups, Members DEF Buses, Memories
      <4> QED
        BY <1>3, <1>4, <1>9, <4>1 DEF Settling, Stays
    <3> QED
      BY <1>3, <3>1 DEF WiredMux
  <2>2. ~Due(set_xreg)' => WiredXreg(new')
    <3>1. Due(set_xreg)' <=> Due(set_xreg)
      BY <1>6, <1>7 DEF Due
    <3>2. WiredXreg(new') <=> WiredXreg(new)
      <4>1. \A s \in {<<"xreg", "addr">>, <<"xreg", "wr_data">>} : s \in Signals \ S
        BY Groups DEF Wires, Owned
      <4> QED
        BY <1>3, <1>4, <4>1, Groups, Members DEF WiredXreg, Aim
    <3> QED
      BY <1>9, <3>1, <3>2 DEF Settling
  <2>3. ~Due(set_xram)' => WiredXram(new')
    <3>1. Due(set_xram)' <=> Due(set_xram)
      BY <1>6, <1>7 DEF Due
    <3>2. WiredXram(new') <=> WiredXram(new)
      <4>1. \A s \in {<<"xram", "addr">>, <<"xram", "wr_data">>} : s \in Signals \ S
        BY Groups DEF Wires, Owned
      <4> QED
        BY <1>3, <1>4, <4>1, Groups, Members DEF WiredXram, Aim
    <3> QED
      BY <1>9, <3>1, <3>2 DEF Settling
  <2>4. Settling'
    BY <1>3, <1>4, <1>6, <1>7, <1>9, <2>1, <2>2, <2>3, WiringSettles
  <2> QED
    BY <1>6, <2>4 DEF Inv
<1>10. CASE Rise \/ Fall
  <2>1. \A s \in S : new'[s] = cur[s]
    BY <1>3, <1>10 DEF Rise, Fall, Wired, WiredMux, Owned
  <2>2. \A s \in Signals : new'[s] = new[s]
    <3>1. S \cap (Answers("xreg") \cup Answers("xrambig")) = {}
      BY DEF Answers, Owned
    <3>2. \A s \in S : new[s] = cur[s]
      BY <1>4, <1>10, <3>1, Groups DEF Rise, Fall, Stays
    <3> QED
      BY <1>3, <2>1, <3>2
  <2>3. \A m : m # mux_xram => (m \in runnable' <=> m \in runnable)
    BY <1>6
  <2>4. /\ mux_xram # core_entry
        /\ \A k \in Memories : mux_xram # entry(k) /\ mux_xram # set_ready(k)
    BY DEF mux_xram, core_entry, entry, set_ready, Memories
  <2>5. \A S1 \in SUBSET Signals : Stays(S1)' <=> Stays(S1)
    BY <1>6, <2>2 DEF Stays
  <2>6. \A k \in Memories : (Kept(k)' <=> Kept(k)) /\ (Counted(k)' <=> Counted(k))
                            /\ (Served(k)' <=> Served(k))
    BY <1>6, Same DEF memoryVars
  <2>7. Wired(cur)' <=> Wired(cur)
    BY <1>6
  <2>8. CASE Rise
    <3>1. Moved' <=> Moved
      BY <1>6, <2>2, Groups, SameMoved
    <3>2. \A k \in Memories : Latched(k)' <=> Latched(k)
      BY <1>6, <2>2, Groups, SameLatched DEF memoryVars
    <3>3. /\ Stays(CoreSignals)' <=> Stays(CoreSignals)
          /\ \A k \in Memories : Stays(Latches(k))' <=> Stays(Latches(k))
          /\ Stays(Wires \cup {Clock} \cup Answers("xreg") \cup Answers("xrambig"))'
                <=> Stays(Wires \cup {Clock} \cup Answers("xreg") \cup Answers("xrambig"))
      <4>1. /\ CoreSignals \in SUBSET Signals /\ \A k \in Memories : Latches(k) \in SUBSET Signals
            /\ Wires \cup {Clock} \cup Answers("xreg") \cup Answers("xrambig") \in SUBSET Signals
        BY Groups DEF Memories
      <4> QED
        BY <2>5, <4>1
    <3>4. Rise'
      BY <1>6, <2>3, <2>4, <2>6, <2>7, <2>8, <3>1, <3>2, <3>3 DEF Rise, Listed
    <3> QED
      BY <1>6, <3>4 DEF Inv
  <2>9. CASE Fall
    <3>1. /\ Stays(Signals \ (Answers("xreg") \cup Answers("xrambig")))'
                <=> Stays(Signals \ (Answers("xreg") \cup Answers("xrambig")))
          /\ \A k \in Memories : Stays(Answers(k))' <=> Stays(Answers(k))
      <4>1. /\ Signals \ (Answers("xreg") \cup Answers("xrambig")) \in SUBSET Signals
            /\ \A k \in Memories : Answers(k) \in SUBSET Signals
        BY Groups
      <4> QED
        BY <2>5, <4>1
    <3>2. Serving' <=> Serving
      BY <2>6 DEF Serving
    <3>3. \A k \in Memories : /\ new'[<<k, "ready">>] = new[<<k, "ready">>]
                              /\ new'[<<k, "rd_data">>] = new[<<k, "rd_data">>]
                              /\ Answered(k)' <=> Answered(k)
                              /\ Target(k)' = Target(k) /\ (Reads(k)' <=> Reads(k))
                              /\ mem'[k][read(k, "baddr")'] = mem[k][read(k, "baddr")]
      <4>1. \A k \in Memories : {<<k, "ready">>, <<k, "rd_data">>} \subseteq Signals
        BY Groups, Members
      <4> QED
        BY <1>6, <2>2, <4>1 DEF Answered, high, read, address, Target, Reads, memoryVars
    <3>4. Fall'
      BY <1>6, <2>3, <2>4, <2>7, <2>9, <3>1, <3>2, <3>3 DEF Fall, Listed, level, memoryVars
    <3> QED
      BY <1>6, <3>4 DEF Inv
  <2> QED
    BY <1>10, <2>8, <2>9
<1>11. CASE FirstRise
  <2>1. FedMux'
    BY <1>3, <1>6 DEF FedMux, Aim, read
  <2>2. set_xreg \notin runnable' => FedXreg'
    <3>1. FedXreg' <=> FedXreg
      <4>1. \A s \in Owned("xreg", {"addr", "wr_data"}) : s \in Signals \ S
        BY Groups DEF Wires, Owned
      <4> QED
        BY <1>3, <1>6, <4>1, SameFed
    <3> QED
      BY <1>6, <1>7, <1>11, <3>1 DEF FirstRise
  <2>3. set_xram \notin runnable' => FedXram'
    <3>1. FedXram' <=> FedXram
      <4>1. \A s \in Owned("xram", {"addr", "wr_data"}) : s \in Signals \ S
        BY Groups DEF Wires, Owned
      <4> QED
        BY <1>3, <1>6, <4>1, SameFed
    <3> QED
      BY <1>6, <1>7, <1>11, <3>1 DEF FirstRise
  <2>4. FirstRise'
    BY <1>3, <1>4, <1>6, <1>7, <1>11, <2>1, <2>2, <2>3, WiringRises DEF FirstRise, Listed
  <2> QED
    BY <1>6, <2>4 DEF Inv
<1> QED
  BY <1>6, <1>7, <1>8, <1>9, <1>10, <1>11, WiringStages

\* set_ready runs.
LEMMA SetReadyStep ==
    ASSUME Inv, NEW k \in Memories, SetReady(k), UNCHANGED memoryVars, Frame
    PROVE  Inv'
<1> DEFINE data == CASE Delay[k] = 0 -> mem[k][address(k)]
                      [] Delay[k] # 0 /\ high(k, "re") -> mem[k][read(k, "baddr")]
                      [] OTHER -> 0
           w == [o \in {k} |-> [ready |-> level(Answered(k)), rd_data |-> data]]
<1>1. Evaluate(set_ready(k), w)
  BY DEF SetReady
<1>2. Ranges /\ OneAccess
  BY DEF Inv
<1>3. /\ new'[<<k, "ready">>] = level(Answered(k)) /\ new'[<<k, "rd_data">>] = data
      /\ \A s \in Signals \ Answers(k) : new'[s] = new[s]
  BY <1>2, SetReadyWrites
<1>4. data \in Values
  <2>1. mem[k] \in [Values -> Values]
    BY <1>2 DEF Ranges
  <2> QED
    BY <1>2, <2>1, CurTyped, Bits DEF read
<1>5. data = CASE Delay[k] = 0 -> mem[k][address(k)]
               [] Delay[k] # 0 /\ high(k, "re") -> mem[k][read(k, "baddr")]
               [] OTHER -> 0
  OBVIOUS
<1> HIDE DEF w, data
<1>6. Valued(new')
  BY <1>2, SetReadyValued
<1>7. /\ Ranges' /\ OneAccess' /\ (Listed => Listed')
      /\ cur' = cur /\ started' = started /\ program' = program
      /\ phase = "evaluate" /\ phase' = "evaluate" /\ next_edge' = next_edge
      /\ set_ready(k) \in runnable /\ runnable' = runnable \ {set_ready(k)}
      /\ delta_events' = delta_events
  BY <1>1, <1>2, <1>6, SameMemories, Evaluated
<1>8. /\ set_ready(k) \notin WiringMethods /\ set_ready(k) # core_entry
      /\ \A j \in Memories : /\ set_ready(k) # entry(j)
                             /\ set_ready(k) = set_ready(j) => j = k
  BY DEF WiringMethods, set_xreg, set_xram, mux_xram, core_entry, set_ready, entry, Memories
<1>9. Beginning \/ Fall
  BY <1>7, <1>8 DEF Inv, FirstTick, FirstRise, Settling, Tick, Rise, WiringMethods
<1>10. \A m : m # set_ready(k) => (m \in runnable' <=> m \in runnable)
  BY <1>7
<1>11. CASE Beginning
  <2>1. Moved' <=> Moved
    BY <1>3, <1>7, Groups, SameMoved
  <2>2. /\ Stays(CoreSignals)' <=> Stays(CoreSignals)
        /\ Stays(Wires)' <=> Stays(Wires)
        /\ new'[Clock] = new[Clock]
    <3>1. \A s \in CoreSignals \cup Wires \cup {Clock} : s \in Signals \ Answers(k)
      BY Groups
    <3> QED
      BY <1>3, <1>7, <3>1 DEF Stays
  <2>3. Unasked' <=> Unasked
    <3>1. \A j \in Memories : Latches(j) \subseteq Signals \ Answers(k)
      BY Groups DEF Memories
    <3> QED
      BY <1>3, <1>7, <3>1, SameUnasked
  <2>4. Beginning'
    BY <1>7, <1>8, <1>10, <1>11, <2>1, <2>2, <2>3 DEF Beginning, Listed
  <2> QED
    BY <1>7, <2>4 DEF Inv
<1>12. CASE Fall
  <2>1. Wired(cur)' /\ Wired(cur)
    BY <1>7, <1>12 DEF Fall
  <2>2. Stays(Signals \ (Answers("xreg") \cup Answers("xrambig")))'
    BY <1>3, <1>7, <1>12, Members DEF Fall, Stays
  <2>3. Serving'
    <3>1. \A j \in Memories : Served(j)' <=> Served(j)
      BY <1>7, Same DEF memoryVars
    <3> QED
      BY <1>12, <3>1 DEF Fall, Serving
  <2>4. address(k) = Aim(cur, BusOf(k)) /\ (high(k, "re") <=> Reads(k))
    BY <2>1, Members DEF Wired, WiredXreg, WiredXram, WiredMux, address, read, high, Reads
  <2>5. ASSUME NEW j \in Memories
        PROVE  /\ Answered(j)' <=> Answered(j)
               /\ Target(j)' = Target(j) /\ (Reads(j)' <=> Reads(j))
               /\ mem'[j][read(j, "baddr")'] = mem[j][read(j, "baddr")]
    BY <1>7 DEF Answered, high, read, address, Target, Reads, memoryVars
  <2>6. ASSUME NEW j \in Memories
        PROVE  (IF set_ready(j) \in runnable THEN Stays(Answers(j))
                ELSE /\ new[<<j, "ready">>] = level(Answered(j))
                     /\ new[<<j, "rd_data">>] = CASE Delay[j] = 0 -> Target(j)
                                 [] Delay[j] # 0 /\ Reads(j) -> mem[j][read(j, "baddr")]
                                 [] OTHER -> 0)'
    <3>1. CASE j = k
      <4>1. set_ready(j) \notin runnable'
        BY <1>7, <3>1
      <4>2. new'[<<j, "ready">>] = level(Answered(j)')
        BY <1>3, <2>5, <3>1 DEF level
      <4>3. new'[<<j, "rd_data">>] = CASE Delay[j] = 0 -> Target(j)'
                                 [] Delay[j] # 0 /\ Reads(j)' -> mem'[j][read(j, "baddr")']
                                 [] OTHER -> 0
        BY <1>3, <1>5, <2>4, <2>5, <3>1 DEF Target
      <4> QED
        BY <4>1, <4>2, <4>3 DEF level
    <3>2. CASE j # k
      <4>1. Answers(j) \subseteq Signals \ Answers(k)
        BY <3>2, Groups DEF Memories
      <4>2. set_ready(j) \in runnable' <=> set_ready(j) \in runnable
        BY <1>8, <1>10, <3>2
      <4>3. Stays(Answers(j))' <=> Stays(Answers(j))
        BY <1>3, <1>7, <4>1 DEF Stays
      <4>4. new'[<<j, "ready">>] = new[<<j, "ready">>] /\ new'[<<j, "rd_data">>] = new[<<j, "rd_data">>]
        BY <1>3, <4>1, Members
      <4> QED
        BY <1>12, <2>5, <4>2, <4>3, <4>4 DEF Fall, level, memoryVars
    <3> QED
      BY <3>1, <3>2
  <2>7. runnable' \subseteq {mux_xram} \cup {set_ready(j) : j \in Memories}
    BY <1>7, <1>12 DEF Fall
  <2>8. Fall'
    BY <1>7, <1>12, <2>1, <2>2, <2>3, <2>6, <2>7 DEF Fall, Listed
  <2> QED
    BY <1>7, <2>8 DEF Inv
<1> QED
  BY <1>9, <1>11, <1>12

\* The counters stay between 0 and the delay.
LEMMA Counters ==
    ASSUME Ranges, NEW k \in Memories
    PROVE  NextRead(k) \in 0 .. Delay[k] /\ NextWrite(k) \in 0 .. Delay[k]
<1>1. Delay[k] \in Nat /\ rd_cnt[k] \in 0 .. Delay[k] /\ wr_cnt[k] \in 0 .. Delay[k]
  BY MovxAssumption DEF Ranges
<1>2. \A c \in 0 .. Delay[k] : CountDown(k, c) \in 0 .. Delay[k] /\ CountIdle(k, c) \in 0 .. Delay[k]
  BY <1>1 DEF CountDown, CountIdle
<1>3. NextRead(k) \in 0 .. Delay[k]
  BY <1>1, <1>2 DEF NextRead
<1>4. NextWrite(k) \in 0 .. Delay[k]
  BY <1>1, <1>2 DEF NextWrite
<1> QED
  BY <1>3, <1>4

\* What a rising edge does to a memory and its counters.
LEMMA MemoryTyped ==
    ASSUME Ranges, NEW k \in Memories, MemoryEntry(k)
    PROVE  /\ MemoriesTyped'
           /\ rd_cnt'[k] = NextRead(k) /\ wr_cnt'[k] = NextWrite(k)
           /\ mem'[k] = IF Stores(k) THEN [mem[k] EXCEPT ![address(k)] = read(BusOf(k), "wr_data")]
                        ELSE mem[k]
           /\ \A j \in Memories \ {k} : /\ mem'[j] = mem[j]
                                        /\ rd_cnt'[j] = rd_cnt[j] /\ wr_cnt'[j] = wr_cnt[j]
<1>1. /\ rd_cnt' = [rd_cnt EXCEPT ![k] = NextRead(k)]
      /\ wr_cnt' = [wr_cnt EXCEPT ![k] = NextWrite(k)]
      /\ mem' = IF Stores(k)
                THEN [mem EXCEPT ![k][address(k)] = read(BusOf(k), "wr_data")]
                ELSE mem
  BY DEF MemoryEntry
<1>2. /\ mem \in [Memories -> [Values -> Values]]
      /\ rd_cnt \in [Memories -> Nat] /\ wr_cnt \in [Memories -> Nat]
      /\ \A j \in Memories : rd_cnt[j] \in 0 .. Delay[j] /\ wr_cnt[j] \in 0 .. Delay[j]
  BY DEF Ranges
<1>3. NextRead(k) \in 0 .. Delay[k] /\ NextWrite(k) \in 0 .. Delay[k] /\ Delay[k] \in Nat
  BY Counters, MovxAssumption
<1>4. address(k) \in Values /\ read(BusOf(k), "wr_data") \in Values
  BY CurTyped, Members DEF read
<1>5. /\ rd_cnt' \in [Memories -> Nat] /\ wr_cnt' \in [Memories -> Nat]
      /\ rd_cnt'[k] = NextRead(k) /\ wr_cnt'[k] = NextWrite(k)
      /\ \A j \in Memories \ {k} : rd_cnt'[j] = rd_cnt[j] /\ wr_cnt'[j] = wr_cnt[j]
  BY <1>1, <1>2, <1>3
<1>6. /\ mem'[k] = IF Stores(k) THEN [mem[k] EXCEPT ![address(k)] = read(BusOf(k), "wr_data")]
                   ELSE mem[k]
      /\ \A j \in Memories \ {k} : mem'[j] = mem[j]
  BY <1>1, <1>2
<1>7. mem' \in [Memories -> [Values -> Values]]
  <2>1. [mem[k] EXCEPT ![address(k)] = read(BusOf(k), "wr_data")] \in [Values -> Values]
    BY <1>2, <1>4
  <2>2. ASSUME NEW j \in Memories PROVE mem'[j] \in [Values -> Values]
    <3>1. mem[j] \in [Values -> Values] /\ (j # k => mem'[j] = mem[j])
      BY <1>2, <1>6
    <3> QED
      BY <1>6, <2>1, <3>1
  <2>3. mem' = [j \in Memories |-> mem'[j]]
    BY <1>1, <1>2
  <2> QED
    BY <2>2, <2>3
<1>8. MemoriesTyped'
  BY <1>2, <1>3, <1>5, <1>7 DEF MemoriesTyped
<1> QED
  BY <1>5, <1>6, <1>8

\* A memory writes levels and an address.
LEMMA MemoryValued ==
    ASSUME Ranges, NEW k \in Memories, MemoryEntry(k)
    PROVE  Valued(new')
<1> DEFINE w == [o \in {k} |-> [rd_ready |-> Ready(k, "re", NextRead(k)),
                         wr_ready |-> Ready(k, "we", NextWrite(k)),
                         bre |-> read(k, "re"), bwe |-> read(k, "we"),
                         baddr |-> address(k)]]
<1>1. Evaluate(entry(k), w)
  BY DEF MemoryEntry
<1> HIDE DEF w
<1>3. /\ new'[<<k, "rd_ready">>] = Ready(k, "re", NextRead(k))
      /\ new'[<<k, "wr_ready">>] = Ready(k, "we", NextWrite(k))
      /\ new'[<<k, "bre">>] = cur[<<k, "re">>] /\ new'[<<k, "bwe">>] = cur[<<k, "we">>]
      /\ new'[<<k, "baddr">>] = address(k)
      /\ \A s \in Signals \ Latches(k) : new'[s] = new[s]
  BY MemoryWrites
<1> QED
  <2>1. new' = [s \in Signals |-> new'[s]]
    BY <1>1, Written
  <2>2. /\ <<k, "baddr">> \in DataSignals
        /\ \A n \in {"rd_ready", "wr_ready", "bre", "bwe"} : <<k, n>> \notin DataSignals
        /\ Latches(k) = {<<k, "baddr">>} \cup {<<k, n>> : n \in {"rd_ready", "wr_ready", "bre", "bwe"}}
    BY DEF DataSignals, Owned, Memories, Latches
  <2>3. /\ new'[<<k, "baddr">>] \in Values
        /\ \A n \in {"rd_ready", "wr_ready", "bre", "bwe"} : new'[<<k, n>>] \in {0, 1}
    BY <1>3, CurTyped DEF Ready, level
  <2>4. /\ \A s \in Latches(k) \cap DataSignals : new'[s] \in Values
        /\ \A s \in Latches(k) \ DataSignals : new'[s] \in {0, 1}
    BY <2>2, <2>3
  <2> QED
    BY <1>3, <2>1, <2>4, ValuedChange DEF Ranges

\* A rising edge, with what is known of the memory after the edge before it:
\* a store that has been answered is done again, with the same byte, or begins
\* to be counted again, and a load is not over before it is due.
LEMMA RisingEdge ==
    ASSUME Ranges, OneAccess, Wired(cur), NEW k \in Memories, MemoryEntry(k),
           started => Kept(k) /\ Counted(k), cur' = cur, started' = started
    PROVE  (started => Kept(k))' /\ Latched(k)'
<1> DEFINE b == BusOf(k)
<1>1. b \in Buses /\ Delay[k] \in Nat
  BY Members, MovxAssumption
<1>2. /\ address(k) = Aim(cur, b) /\ read(b, "wr_data") = read("core", "ACC")
      /\ cur[<<k, "re">>] = cur[<<b, "re">>] /\ cur[<<k, "we">>] = cur[<<b, "we">>]
  BY Members DEF Wired, WiredXreg, WiredXram, WiredMux, address, read
<1>3. /\ high(k, "re") <=> Reads(k)
      /\ high(k, "we") <=> Writes(k)
  BY <1>2 DEF high, read, Reads, Writes
<1>4. /\ new'[<<k, "rd_ready">>] = Ready(k, "re", NextRead(k))
      /\ new'[<<k, "wr_ready">>] = Ready(k, "we", NextWrite(k))
      /\ new'[<<k, "bre">>] = cur[<<k, "re">>] /\ new'[<<k, "bwe">>] = cur[<<k, "we">>]
      /\ new'[<<k, "baddr">>] = address(k)
  BY MemoryWrites
<1>5. /\ rd_cnt'[k] = NextRead(k) /\ wr_cnt'[k] = NextWrite(k)
      /\ mem'[k] = IF Stores(k) THEN [mem[k] EXCEPT ![address(k)] = read(b, "wr_data")]
                   ELSE mem[k]
  BY MemoryTyped
<1>6. ~(Reads(k) /\ Writes(k)) /\ (Reads(k) \/ Writes(k) => started)
  BY <1>1 DEF OneAccess, Reads, Writes
<1>7. /\ Stores(k) => Target(k)' = read("core", "ACC")
      /\ ~Stores(k) => mem'[k] = mem[k]
  <2>1. mem[k] \in [Values -> Values] /\ Aim(cur, b) \in Values
    BY <1>1, CurTyped DEF Ranges
  <2> QED
    BY <1>2, <1>5, <2>1 DEF Target
<1>8. Stores(k) => Writes(k)
  BY <1>3 DEF Stores
<1>9. /\ Reads(k)' <=> Reads(k)
      /\ Writes(k)' <=> Writes(k)
      /\ high(k, "ready")' <=> high(k, "ready")
      /\ read(k, "baddr")' = read(k, "baddr") /\ read(k, "rd_data")' = read(k, "rd_data")
      /\ read("core", "ACC")' = read("core", "ACC")
      /\ Aim(cur', b) = Aim(cur, b)
  BY DEF Reads, Writes, high, read
<1>10. (started => Kept(k))'
  <2>1. ASSUME started PROVE Kept(k)'
    <3>1. CASE Stores(k)
      BY <1>6, <1>7, <1>8, <1>9, <2>1, <3>1 DEF Kept
    <3>2. CASE ~Stores(k)
      <4>1. mem'[k] = mem[k] /\ Target(k)' = Target(k)
        BY <1>7, <1>9, <3>2 DEF Target
      <4> QED
        BY <1>9, <2>1, <4>1 DEF Kept
    <3> QED
      BY <3>1, <3>2
  <2> QED
    BY <2>1
<1>11. new'[<<k, "bre">>] = level(Reads(k)') /\ new'[<<k, "bwe">>] = level(Writes(k)')
  <2>1. cur[<<b, "re">>] \in {0, 1} /\ cur[<<b, "we">>] \in {0, 1}
    BY <1>1, CurTyped
  <2> QED
    BY <1>2, <1>4, <1>9, <2>1 DEF level, Reads, Writes, high, read
<1>12. Writes(k) /\ Delay[k] = 0 => Target(k)' = read("core", "ACC")
  BY <1>3, <1>7 DEF Stores
<1>13. ASSUME Delay[k] # 0, Writes(k), new'[<<k, "wr_ready">>] = 1
       PROVE  wr_cnt'[k] = 0 /\ ~high(k, "ready") /\ Target(k)' = read("core", "ACC")
  <2>1. NextWrite(k) = 0
    BY <1>3, <1>4, <1>13 DEF Ready, level
  <2>2. NextWrite(k) = CountDown(k, wr_cnt[k])
    BY <1>3, <1>13 DEF NextWrite
  <2>3. wr_cnt[k] # 0
    BY <1>13, <2>1, <2>2 DEF CountDown
  <2>4. ~high(k, "ready")
    BY <1>6, <1>13, <2>3 DEF Counted
  <2>5. Stores(k)
    BY <1>3, <1>13, <2>1 DEF Stores
  <2> QED
    BY <1>5, <1>7, <2>1, <2>4, <2>5
<1>14. ASSUME Delay[k] # 0, Reads(k), new'[<<k, "rd_ready">>] = 1
       PROVE  rd_cnt'[k] = 0 /\ ~high(k, "ready") /\ read(k, "baddr") = Aim(cur, b)
  <2>1. NextRead(k) = 0
    BY <1>3, <1>4, <1>14 DEF Ready, level
  <2>2. address(k) = read(k, "baddr") /\ NextRead(k) = CountDown(k, rd_cnt[k])
    BY <1>3, <1>14, <2>1 DEF NextRead
  <2>3. rd_cnt[k] # 0
    BY <1>14, <2>1, <2>2 DEF CountDown
  <2>4. ~high(k, "ready")
    BY <1>6, <1>14, <2>3 DEF Counted
  <2> QED
    BY <1>2, <1>5, <2>1, <2>2, <2>4
<1>15. new'[<<k, "baddr">>] = Aim(cur', b)
  BY <1>2, <1>4, <1>9
<1>16. Latched(k)'
  BY <1>9, <1>11, <1>12, <1>13, <1>14, <1>15 DEF Latched, level
<1> QED
  BY <1>10, <1>16

\* The rising edge of a memory, before or after the core's and the other's.
LEMMA MemoryStep ==
    ASSUME Inv, NEW k \in Memories, MemoryEntry(k), Frame
    PROVE  Inv'
<1> DEFINE w == [o \in {k} |-> [rd_ready |-> Ready(k, "re", NextRead(k)),
                         wr_ready |-> Ready(k, "we", NextWrite(k)),
                         bre |-> read(k, "re"), bwe |-> read(k, "we"),
                         baddr |-> address(k)]]
<1>1. Evaluate(entry(k), w)
  BY DEF MemoryEntry
<1> HIDE DEF w
<1>2. Ranges /\ OneAccess
  BY DEF Inv
<1>3. /\ new'[<<k, "rd_ready">>] = Ready(k, "re", NextRead(k))
      /\ new'[<<k, "wr_ready">>] = Ready(k, "we", NextWrite(k))
      /\ new'[<<k, "bre">>] = cur[<<k, "re">>] /\ new'[<<k, "bwe">>] = cur[<<k, "we">>]
      /\ new'[<<k, "baddr">>] = address(k)
      /\ \A s \in Signals \ Latches(k) : new'[s] = new[s]
  BY <1>2, MemoryWrites
<1>4. Valued(new')
  BY <1>2, MemoryValued
<1>5. /\ Ranges' /\ OneAccess' /\ (Listed => Listed')
      /\ cur' = cur /\ started' = started /\ program' = program
      /\ phase = "evaluate" /\ phase' = "evaluate" /\ next_edge' = next_edge
      /\ entry(k) \in runnable /\ runnable' = runnable \ {entry(k)}
      /\ delta_events' = delta_events
  BY <1>1, <1>2, <1>4, MemoryTyped, Evaluated
<1>6. /\ entry(k) \notin WiringMethods /\ entry(k) # core_entry
      /\ \A j \in Memories : /\ set_ready(j) # entry(k)
                             /\ entry(k) = entry(j) => j = k
  BY DEF WiringMethods, set_xreg, set_xram, mux_xram, core_entry, set_ready, entry, Memories
<1>7. Beginning \/ FirstRise \/ Rise
  BY <1>5, <1>6 DEF Inv, FirstTick, Settling, Tick, Fall, WiringMethods
<1>8. \A m : m # entry(k) => (m \in runnable' <=> m \in runnable)
  BY <1>5
<1>9. Moved' <=> Moved
  BY <1>3, <1>5, Groups, SameMoved
<1>10. Stays(CoreSignals)' <=> Stays(CoreSignals)
  BY <1>3, <1>5, Groups DEF Stays
<1>11. ASSUME Unasked PROVE Unasked'
  <2>1. new'[<<k, "bre">>] # 1 /\ new'[<<k, "bwe">>] # 1
    BY <1>3, <1>11 DEF Unasked, high, read
  <2>2. \A j \in Memories \ {k} : new'[<<j, "bre">>] = new[<<j, "bre">>]
                            /\ new'[<<j, "bwe">>] = new[<<j, "bwe">>]
    <3>1. \A j \in Memories \ {k} : {<<j, "bre">>, <<j, "bwe">>} \subseteq Signals \ Latches(k)
      BY Groups, Members
    <3> QED
      BY <1>3, <3>1
  <2> QED
    BY <1>5, <1>11, <2>1, <2>2 DEF Unasked, high, read
<1>12. CASE Beginning
  <2>1. (Stays(Wires)' <=> Stays(Wires)) /\ new'[Clock] = new[Clock]
    <3>1. \A s \in Wires \cup {Clock} : s \in Signals \ Latches(k)
      BY Groups
    <3> QED
      BY <1>3, <1>5, <3>1 DEF Stays
  <2>2. Beginning'
    BY <1>5, <1>6, <1>8, <1>9, <1>10, <1>11, <1>12, <2>1 DEF Beginning, Listed
  <2> QED
    BY <1>5, <2>2 DEF Inv
<1>13. CASE FirstRise
  <2>1. \A s \in Wires \cup {Clock} : new'[s] = new[s]
    <3>1. \A s \in Wires \cup {Clock} : s \in Signals \ Latches(k)
      BY Groups
    <3> QED
      BY <1>3, <3>1
  <2>2. (FedXreg' <=> FedXreg) /\ (FedXram' <=> FedXram) /\ (FedMux' <=> FedMux)
    BY <1>5, <2>1, SameFed DEF Wires, Owned
  <2>3. \A m \in WiringMethods \cup {core_entry} : m \in runnable' <=> m \in runnable
    BY <1>6, <1>8
  <2>4. FirstRise'
    BY <1>5, <1>9, <1>10, <1>11, <1>13, <2>1, <2>2, <2>3 DEF FirstRise, Listed, WiringMethods
  <2> QED
    BY <1>5, <2>4 DEF Inv
<1>14. CASE Rise
  <2>1. Wired(cur)' /\ Wired(cur)
    BY <1>5, <1>14 DEF Rise
  <2> DEFINE Quiet == Wires \cup {Clock} \cup Answers("xreg") \cup Answers("xrambig")
  <2>2. Stays(Quiet)'
    <3>1. \A s \in Quiet : s \in Signals \ Latches(k)
      BY Groups, Members
    <3>2. Stays(Quiet)
      BY <1>14 DEF Rise
    <3> QED
      BY <1>3, <1>5, <3>1, <3>2 DEF Stays
  <2>3. (started => Kept(k))' /\ Latched(k)'
    BY <1>2, <1>5, <1>14, <2>1, RisingEdge DEF Rise
  <2>4. ASSUME NEW j \in Memories
        PROVE  /\ (started => Kept(j))'
               /\ (IF entry(j) \in runnable THEN Stays(Latches(j)) /\ (started => Counted(j))
                   ELSE Latched(j))'
    <3>1. CASE j = k
      <4>1. entry(j) \notin runnable'
        BY <1>5, <3>1
      <4> QED
        BY <2>3, <3>1, <4>1
    <3>2. CASE j # k
      <4>1. mem'[j] = mem[j] /\ rd_cnt'[j] = rd_cnt[j] /\ wr_cnt'[j] = wr_cnt[j]
        BY <1>2, <3>2, MemoryTyped
      <4>2. Latches(j) \subseteq Signals \ Latches(k)
        BY <3>2, Groups, Members
      <4>3. (Kept(j)' <=> Kept(j)) /\ (Counted(j)' <=> Counted(j))
        BY <1>5, <4>1, Same
      <4>4. Latched(j)' <=> Latched(j)
        BY <1>3, <1>5, <4>1, <4>2, SameLatched
      <4>5. Stays(Latches(j))' <=> Stays(Latches(j))
        BY <1>3, <1>5, <4>2 DEF Stays
      <4>6. entry(j) \in runnable' <=> entry(j) \in runnable
        BY <1>6, <1>8, <3>2
      <4> QED
        BY <1>5, <1>14, <4>3, <4>4, <4>5, <4>6 DEF Rise
    <3> QED
      BY <3>1, <3>2
  <2>5. runnable' \subseteq {core_entry, mux_xram} \cup {entry(j) : j \in Memories}
    BY <1>5, <1>14 DEF Rise
  <2>6. core_entry \in runnable' <=> core_entry \in runnable
    BY <1>6, <1>8
  <2>7. Listed'
    BY <1>5, <1>14 DEF Rise, Listed
  <2>8. (IF core_entry \in runnable THEN Stays(CoreSignals) ELSE Moved)'
    BY <1>9, <1>10, <1>14, <2>6 DEF Rise
  <2>9. Rise'
    BY <1>5, <1>14, <2>1, <2>2, <2>4, <2>5, <2>7, <2>8 DEF Rise, Listed
  <2> QED
    BY <1>5, <2>9 DEF Inv
<1> QED
  BY <1>7, <1>12, <1>13, <1>14

\* What a method writes has its range when each written value has.
LEMMA ValuedWrite ==
    ASSUME Ranges, NEW m, NEW w, Evaluate(m, w),
           \A s \in Signals : s[1] \in DOMAIN w /\ s[2] \in DOMAIN w[s[1]] =>
              IF s \in DataSignals THEN w[s[1]][s[2]] \in Values ELSE w[s[1]][s[2]] \in {0, 1}
    PROVE  Valued(new')
<1> DEFINE S == {s \in Signals : s[1] \in DOMAIN w /\ s[2] \in DOMAIN w[s[1]]}
<1>1. \A s \in Signals : new'[s] = IF s \in S THEN w[s[1]][s[2]] ELSE new[s]
  BY Written
<1>2. new' = [s \in Signals |-> new'[s]]
  BY Written
<1>3. /\ \A s \in Signals \ S : new'[s] = new[s]
      /\ \A s \in S \cap DataSignals : new'[s] \in Values
      /\ \A s \in S \ DataSignals : new'[s] \in {0, 1}
  BY <1>1
<1>4. Valued(new)
  BY DEF Ranges
<1> HIDE DEF S, Valued
<1> QED
  BY <1>2, <1>3, <1>4, ValuedChange

\* The lines of the buses and the accumulator keep their range, whatever the
\* core does.
LEMMA CoreValued ==
    ASSUME Ranges, Core
    PROVE  Valued(new')
<1> DEFINE Lines(l) == /\ DOMAIN l = {"re", "we", "waitready"}
                       /\ \A n \in {"re", "we", "waitready"} : l[n] \in {0, 1}
           Registers(c) == /\ DOMAIN c \subseteq CoreNames["core"]
                           /\ \A n \in DOMAIN c : IF n = "xreg_addr_sel" THEN c[n] \in {0, 1}
                                                 ELSE c[n] \in Values
<1>1. ASSUME NEW x, NEW y, NEW c, Lines(x), Lines(y), Registers(c),
             NEW w, w = [xreg |-> x, xram |-> y, core |-> c], Evaluate(core_entry, w)
      PROVE  Valued(new')
  <2>1. /\ DOMAIN w = {"xreg", "xram", "core"}
        /\ w["xreg"] = x /\ w["xram"] = y /\ w["core"] = c
    BY <1>1
  <2>2. /\ \A b \in Buses : \A n \in {"re", "we", "waitready"} : <<b, n>> \notin DataSignals
        /\ \A n \in CoreNames["core"] : <<"core", n>> \in DataSignals <=> n # "xreg_addr_sel"
    BY DEF Buses, DataSignals, CoreNames, Owned
  <2>3. ASSUME NEW s \in Signals, s[1] \in DOMAIN w, s[2] \in DOMAIN w[s[1]]
        PROVE  IF s \in DataSignals THEN w[s[1]][s[2]] \in Values ELSE w[s[1]][s[2]] \in {0, 1}
    <3>1. s = <<s[1], s[2]>>
      BY SignalPairs
    <3>2. CASE s[1] \in Buses
      BY <1>1, <2>1, <2>2, <2>3, <3>1, <3>2 DEF Buses
    <3>3. CASE s[1] = "core"
      BY <1>1, <2>1, <2>2, <2>3, <3>1, <3>3
    <3> QED
      BY <2>1, <2>3, <3>2, <3>3 DEF Buses
  <2> QED
    BY <1>1, <2>3, ValuedWrite
<1>2. /\ \A b \in Buses : /\ read(b, "re") \in {0, 1} /\ read(b, "we") \in {0, 1}
                          /\ read(b, "rd_data") \in Values
      /\ read("core", "ACC") \in Values
  BY CurTyped DEF read
<1>3. read("core", "xreg_addr_sel") \in {0, 1}
  BY SignalSet DEF Ranges, Valued, DataSignals, CoreSignals, Owned, read
<1>4. Lines(Released)
  BY DEF Released
<1>5. CASE Stall
  <2> DEFINE held(b) == IF Stalled(b)
                        THEN [Released EXCEPT !.re = read(b, "re"),
                                              !.we = read(b, "we"), !.waitready = 1]
                        ELSE Released
             acc == CASE Loaded("xram") -> read("xram", "rd_data")
                      [] Loaded("xreg") -> read("xreg", "rd_data")
                      [] OTHER -> read("core", "ACC")
             c == [ACC |-> acc]
             w == [xreg |-> held("xreg"), xram |-> held("xram"), core |-> c]
  <2>1. Evaluate(core_entry, w)
    BY <1>5 DEF Stall
  <2>2. \A b \in Buses : Lines(held(b))
    BY <1>2 DEF Released
  <2>3. Lines(held("xreg")) /\ Lines(held("xram"))
    BY <2>2 DEF Buses
  <2>4. acc \in Values
    BY <1>2 DEF Buses
  <2> HIDE DEF acc, held
  <2>5. Registers(c)
    BY <2>4 DEF CoreNames
  <2> HIDE DEF Lines, Registers, c
  <2> QED
    BY <1>1, <2>1, <2>3, <2>5
<1>6. ASSUME NEW i \in program, Plain(i), i.op \notin {"load", "store"} PROVE Valued(new')
  <2> DEFINE c == CASE i.op = "NOP" -> [r \in {} |-> 0]
                    [] i.op = "INC_A" -> [ACC |-> (read("core", "ACC") + 1) % Range]
                    [] i.op = "MOV" -> [r \in {i.r} |-> i.v]
             w == [xreg |-> Released, xram |-> Released, core |-> c]
  <2>1. Evaluate(core_entry, w)
    BY <1>6 DEF Plain
  <2>2. (read("core", "ACC") + 1) % Range \in Values
    <3>1. read("core", "ACC") + 1 \in Nat
      BY <1>2, MovxAssumption DEF Values
    <3> QED
      BY <3>1, Bits
  <2>3. i.op \in {"NOP", "INC_A", "MOV"} /\ (i.op = "MOV" => i.r \in {"R0", "R1", "DPTR"} /\ i.v \in Values)
    BY <1>6, Instruction DEF Pointers, BusWith
  <2>4. /\ i.op = "NOP" => DOMAIN c = {}
        /\ i.op = "INC_A" => DOMAIN c = {"ACC"} /\ c["ACC"] \in Values
        /\ i.op = "MOV" => DOMAIN c = {i.r} /\ c[i.r] \in Values
    BY <2>2, <2>3
  <2> HIDE DEF c
  <2>5. Registers(c)
    BY <2>3, <2>4 DEF CoreNames
  <2> HIDE DEF Lines, Registers
  <2> QED
    BY <1>1, <1>4, <2>1, <2>5
<1>7. ASSUME NEW i \in program, MOVX(i), i.op \in {"load", "store"} PROVE Valued(new')
  <2> DEFINE bus == BusWith[i.r]
             asked(b) == IF b = bus THEN [re |-> level(i.op = "load"),
                                       we |-> level(i.op = "store"), waitready |-> 1]
                         ELSE Released
             acc == IF i.op = "load" THEN read(bus, "rd_data") ELSE read("core", "ACC")
             sel == IF bus = "xreg" THEN level(i.r = "R1") ELSE read("core", "xreg_addr_sel")
             c == [ACC |-> acc, xreg_addr_sel |-> sel]
             w == [xreg |-> asked("xreg"), xram |-> asked("xram"), core |-> c]
  <2>1. Evaluate(core_entry, w)
    BY <1>7 DEF MOVX
  <2>2. \A b \in Buses : Lines(asked(b))
    BY DEF Released, level
  <2>3. Lines(asked("xreg")) /\ Lines(asked("xram"))
    BY <2>2 DEF Buses
  <2>4. bus \in Buses
    BY <1>7, Instruction DEF Pointers, BusWith, Buses
  <2>5. acc \in Values /\ sel \in {0, 1}
    BY <1>2, <1>3, <2>4 DEF level
  <2> HIDE DEF acc, sel, asked
  <2>6. Registers(c)
    BY <2>5 DEF CoreNames
  <2> HIDE DEF Lines, Registers, c
  <2> QED
    BY <1>1, <2>1, <2>3, <2>6
<1> QED
  BY <1>5, <1>6, <1>7 DEF Core, Execute

\* One edge of the core, whatever it does.
LEMMA CoreMoves ==
    ASSUME Ranges, OneAccess, Stays(CoreSignals), Core, Frame
    PROVE  /\ \E w : Evaluate(core_entry, w)
           /\ Moved' /\ cur' = cur
           /\ \A s \in Signals \ CoreSignals : new'[s] = new[s]
<1>1. CASE Stall
  <2>1. \E w : Evaluate(core_entry, w)
    BY <1>1 DEF Stall
  <2>2. cur' = cur
    BY <2>1, Written
  <2> QED
    BY <1>1, <2>1, <2>2, StallWrites DEF Moved
<1>2. CASE Execute
  <2>1. PICK i \in program : IF i.op \in {"load", "store"} THEN started /\ MOVX(i) ELSE Plain(i)
    BY <1>2 DEF Execute
  <2>2. \A b \in Buses : ~Stalled(b)
    BY <1>2 DEF Execute
  <2>3. program' = program
    BY DEF Frame
  <2>4. CASE i.op \in {"load", "store"}
    <3>1. started /\ MOVX(i)
      BY <2>1, <2>4
    <3>2. started'
      BY <3>1 DEF Frame
    <3>3. \E w : Evaluate(core_entry, w)
      BY <3>1 DEF MOVX
    <3>4. MovxMoved(i)' /\ cur' = cur /\ \A s \in Signals \ CoreSignals : new'[s] = new[s]
      BY <2>4, <3>1, <3>2, MovxWrites
    <3>5. \A b \in Buses : ~Stalled(b)'
      BY <2>2, <3>4, SameReads
    <3>6. Moved'
      BY <2>3, <3>4, <3>5 DEF Moved
    <3> QED
      BY <3>3, <3>4, <3>6
  <2>5. CASE i.op \notin {"load", "store"}
    <3>1. Plain(i)
      BY <2>1, <2>5
    <3>2. \E w : Evaluate(core_entry, w)
      BY <3>1 DEF Plain
    <3>3. PlainMoved(i)' /\ cur' = cur /\ \A s \in Signals \ CoreSignals : new'[s] = new[s]
      BY <2>5, <3>1, PlainWrites
    <3>4. \A b \in Buses : ~Stalled(b)'
      BY <2>2, <3>3, SameReads
    <3>5. Moved'
      BY <2>3, <3>3, <3>4 DEF Moved
    <3> QED
      BY <3>2, <3>3, <3>5
  <2> QED
    BY <2>4, <2>5
<1> QED
  BY <1>1, <1>2 DEF Core

\* The core runs, before or after the memories.
LEMMA CoreStep ==
    ASSUME Inv, Core, UNCHANGED memoryVars, Frame
    PROVE  Inv'
<1>1. Ranges /\ OneAccess
  BY DEF Inv
<1>2. PICK w : Evaluate(core_entry, w)
  <2>1. \E w : Evaluate(core_entry, w)
    BY DEF Core, Stall, Execute, MOVX, Plain
  <2> QED
    BY <2>1
<1>3. core_entry \in runnable /\ phase = "evaluate"
  BY <1>1, <1>2, Written
<1>4. /\ core_entry \notin WiringMethods
      /\ \A j \in Memories : core_entry # set_ready(j) /\ core_entry # entry(j)
  BY DEF WiringMethods, set_xreg, set_xram, mux_xram, core_entry, set_ready, entry, Memories
<1>5. Beginning \/ FirstRise \/ Rise
  BY <1>3, <1>4 DEF Inv, FirstTick, Settling, Tick, Fall, WiringMethods
<1>6. Stays(CoreSignals)
  BY <1>3, <1>5 DEF Beginning, FirstRise, Rise
<1>7. Moved' /\ cur' = cur /\ \A s \in Signals \ CoreSignals : new'[s] = new[s]
  BY <1>1, <1>6, CoreMoves
<1>8. Valued(new')
  BY <1>1, CoreValued
<1>9. /\ Ranges' /\ OneAccess' /\ (Listed => Listed')
      /\ cur' = cur /\ started' = started /\ program' = program
      /\ phase = "evaluate" /\ phase' = "evaluate" /\ next_edge' = next_edge
      /\ core_entry \in runnable /\ runnable' = runnable \ {core_entry}
      /\ delta_events' = delta_events
  BY <1>1, <1>2, <1>8, SameMemories, Evaluated
<1>10. \A m : m # core_entry => (m \in runnable' <=> m \in runnable)
  BY <1>9
<1>11. core_entry \notin runnable'
  BY <1>9
<1>12. Unasked' <=> Unasked
  <2>1. \A j \in Memories : Latches(j) \subseteq Signals \ CoreSignals
    BY Groups
  <2> QED
    BY <1>7, <2>1, SameUnasked
<1>13. \A s \in Wires \cup {Clock} : new'[s] = new[s]
  <2>1. \A s \in Wires \cup {Clock} : s \in Signals \ CoreSignals
    BY Groups
  <2> QED
    BY <1>7, <2>1
<1>14. CASE Beginning
  <2>1. Stays(Wires)' <=> Stays(Wires)
    BY <1>7, <1>13 DEF Stays
  <2>2. Beginning'
    BY <1>7, <1>9, <1>11, <1>12, <1>13, <1>14, <2>1 DEF Beginning, Listed
  <2> QED
    BY <1>9, <2>2 DEF Inv
<1>15. CASE FirstRise
  <2>1. (FedXreg' <=> FedXreg) /\ (FedXram' <=> FedXram) /\ (FedMux' <=> FedMux)
    BY <1>7, <1>13, SameFed DEF Wires, Owned
  <2>2. \A m \in WiringMethods : m \in runnable' <=> m \in runnable
    BY <1>4, <1>10
  <2>3. FirstRise'
    BY <1>7, <1>9, <1>11, <1>12, <1>13, <1>15, <2>1, <2>2 DEF FirstRise, Listed, WiringMethods
  <2> QED
    BY <1>9, <2>3 DEF Inv
<1>16. CASE Rise
  <2>1. Wired(cur)'
    BY <1>7, <1>16 DEF Rise
  <2> DEFINE Quiet == Wires \cup {Clock} \cup Answers("xreg") \cup Answers("xrambig")
  <2>2. Stays(Quiet)'
    <3>1. \A s \in Quiet : s \in Signals \ CoreSignals
      BY Groups, Members
    <3>2. Stays(Quiet)
      BY <1>16 DEF Rise
    <3> QED
      BY <1>7, <3>1, <3>2 DEF Stays
  <2>3. ASSUME NEW j \in Memories
        PROVE  /\ (started => Kept(j))'
               /\ (IF entry(j) \in runnable THEN Stays(Latches(j)) /\ (started => Counted(j))
                   ELSE Latched(j))'
    <3>1. mem'[j] = mem[j] /\ rd_cnt'[j] = rd_cnt[j] /\ wr_cnt'[j] = wr_cnt[j]
      BY DEF memoryVars
    <3>2. Latches(j) \subseteq Signals \ CoreSignals
      BY Groups, Members
    <3>3. (Kept(j)' <=> Kept(j)) /\ (Counted(j)' <=> Counted(j))
      BY <1>7, <3>1, Same
    <3>4. Latched(j)' <=> Latched(j)
      BY <1>7, <3>1, <3>2, SameLatched
    <3>5. Stays(Latches(j))' <=> Stays(Latches(j))
      BY <1>7, <3>2 DEF Stays
    <3>6. entry(j) \in runnable' <=> entry(j) \in runnable
      BY <1>4, <1>10
    <3> QED
      BY <1>9, <1>16, <3>3, <3>4, <3>5, <3>6 DEF Rise
  <2>4. runnable' \subseteq {core_entry, mux_xram} \cup {entry(j) : j \in Memories}
    BY <1>9, <1>16 DEF Rise
  <2>5. Listed'
    BY <1>9, <1>16 DEF Rise, Listed
  <2>6. Rise'
    BY <1>7, <1>9, <1>11, <1>16, <2>1, <2>2, <2>3, <2>4, <2>5 DEF Rise, Listed
  <2> QED
    BY <1>9, <2>6 DEF Inv
<1> QED
  BY <1>5, <1>14, <1>15, <1>16

-----------------------------------------------------------------------------
\* The methods, and what each waits for.
LEMMA MethodSet ==
    AllMethods = WiringMethods \cup {core_entry} \cup {entry(k) : k \in Memories}
                 \cup {set_ready(k) : k \in Memories}
<1>1. AllMethods = UNION {{<<o, m>> : m \in DOMAIN Sensitivity[o]} :
                            o \in {"core", "top", "xreg", "xrambig"}}
  BY DEF AllMethods, Sensitivity
<1>2. /\ DOMAIN Sensitivity["core"] = {"entry", "set_xram", "set_xreg"}
      /\ DOMAIN Sensitivity["top"] = {"mux_xram"}
      /\ DOMAIN Sensitivity["xreg"] = {"entry", "set_ready"}
      /\ DOMAIN Sensitivity["xrambig"] = {"entry", "set_ready"}
  BY DEF Sensitivity
<1>3. AllMethods = {<<"core", m>> : m \in DOMAIN Sensitivity["core"]}
                   \cup {<<"top", m>> : m \in DOMAIN Sensitivity["top"]}
                   \cup {<<"xreg", m>> : m \in DOMAIN Sensitivity["xreg"]}
                   \cup {<<"xrambig", m>> : m \in DOMAIN Sensitivity["xrambig"]}
  BY <1>1
<1> QED
  BY <1>2, <1>3 DEF WiringMethods, set_xreg, set_xram, mux_xram, core_entry, entry, set_ready, Memories

\* What each method is sensitive to.
LEMMA WaitsFor ==
    /\ SensitiveOf(core_entry) = {Edge(1)}
    /\ \A k \in Memories : SensitiveOf(entry(k)) = {Edge(1)} /\ SensitiveOf(set_ready(k)) = {Edge(0)}
    /\ SensitiveOf(set_xreg) =
          {Changed(s) : s \in Owned("core", {"ACC", "R0", "R1", "xreg_addr_sel"})}
    /\ SensitiveOf(set_xram) = {Changed(s) : s \in Owned("core", {"ACC", "DPTR"})}
    /\ SensitiveOf(mux_xram) =
          {Changed(s) : s \in Owned("xram", {"addr", "re", "we"})
                              \cup Owned("xrambig", {"rd_data", "ready"}) \cup {Clock}}
<1>1. Edge(1) = <<Clock, "posedge">> /\ Edge(0) = <<Clock, "negedge">>
  BY DEF Edge
<1>2. /\ SensitiveOf(core_entry) = Posedge
      /\ \A k \in Memories : SensitiveOf(entry(k)) = Posedge /\ SensitiveOf(set_ready(k)) = Negedge
      /\ SensitiveOf(set_xreg) = Change("core", {"ACC", "R0", "R1", "xreg_addr_sel"})
      /\ SensitiveOf(set_xram) = Change("core", {"ACC", "DPTR"})
      /\ SensitiveOf(mux_xram) = Change("xram", {"addr", "re", "we"})
                           \cup Change("xrambig", {"rd_data", "ready"})
                           \cup Change("top", {"clk"})
  BY DEF SensitiveOf, Sensitivity, core_entry, entry, set_ready, set_xreg, set_xram, mux_xram,
         Memories
<1>3. \A o : \A N : Change(o, N) = {Changed(s) : s \in Owned(o, N)}
  BY DEF Change, Changed, Owned
<1>4. Posedge = {Edge(1)} /\ Negedge = {Edge(0)}
  BY <1>1 DEF Posedge, Negedge, Clock
<1>5. SensitiveOf(mux_xram) =
          {Changed(s) : s \in Owned("xram", {"addr", "re", "we"})}
          \cup {Changed(s) : s \in Owned("xrambig", {"rd_data", "ready"})}
          \cup {Changed(s) : s \in {Clock}}
  BY <1>2, <1>3 DEF Owned, Clock
<1> QED
  BY <1>2, <1>3, <1>4, <1>5

\* The events of a signal are its own; edges are no changes.
LEMMA Events ==
    /\ \A s, t : Changed(s) = Changed(t) => s = t
    /\ \A s, x : Changed(s) # Edge(x)
    /\ Edge(1) # Edge(0)
  BY DEF Changed, Edge

\* Notify queues the methods that wait for what has happened.
LEMMA Notified ==
    ASSUME Notify
    PROVE  /\ phase = "notify"
           /\ \A m \in AllMethods : m \in runnable' <=> SensitiveOf(m) \cap delta_events # {}
           /\ runnable' \subseteq AllMethods /\ delta_events' = {}
           /\ phase' = IF runnable' = {} THEN "done" ELSE "evaluate"
           /\ cur' = cur /\ new' = new /\ update_list' = update_list
           /\ next_edge' = next_edge
  BY DEF Notify, SensitiveOf

\* Queueing the methods leaves the ranges.
LEMMA NotifiedRanges ==
    ASSUME Ranges, Notify, UNCHANGED memoryVars, Frame
    PROVE  Ranges' /\ started' = started /\ program' = program
<1>1. /\ phase = "notify"
      /\ runnable' \subseteq AllMethods
      /\ phase' = IF runnable' = {} THEN "done" ELSE "evaluate"
      /\ cur' = cur /\ new' = new /\ update_list' = update_list
      /\ next_edge' = next_edge
  BY Notified
<1>2. started' = started /\ program' = program
  <2>1. ~(phase = "done" /\ next_edge = 0)
    BY <1>1
  <2>2. started \in BOOLEAN
    BY DEF Ranges
  <2> QED
    BY <2>1, <2>2, Zenon DEF Frame
<1>3. Valued(cur)' /\ Valued(new)'
  BY <1>1 DEF Ranges, Valued
<1> HIDE DEF Valued
<1> QED
  BY <1>1, <1>2, <1>3, SameMemories DEF Ranges, MemoriesTyped

\* Notify, after a delta cycle or after the clock.
LEMMA NotifyStep ==
    ASSUME Inv, Notify, UNCHANGED memoryVars, Frame
    PROVE  Inv'
<1>1. Ranges /\ OneAccess
  BY DEF Inv
<1>2. /\ phase = "notify"
      /\ \A m \in AllMethods : m \in runnable' <=> SensitiveOf(m) \cap delta_events # {}
      /\ runnable' \subseteq AllMethods /\ delta_events' = {}
      /\ phase' = IF runnable' = {} THEN "done" ELSE "evaluate"
      /\ cur' = cur /\ new' = new /\ update_list' = update_list
      /\ next_edge' = next_edge
  BY Notified
<1>3. Ranges' /\ started' = started /\ program' = program
  BY <1>1, NotifiedRanges
<1>4. OneAccess'
  BY <1>1, <1>2, <1>3, SameAccess
<1>5. \A k \in Memories : (Kept(k)' <=> Kept(k)) /\ (Counted(k)' <=> Counted(k))
                          /\ (Served(k)' <=> Served(k))
  BY <1>2, Same DEF memoryVars
<1>6. (Answering' <=> Answering) /\ (Serving' <=> Serving)
  BY <1>3, <1>5 DEF Answering, Serving
<1>7. FirstTick \/ Settling \/ Tick
  BY <1>2 DEF Inv, Beginning, FirstRise, Rise, Fall
<1>8. CASE Settling
  <2>1. runnable = {} /\ new = cur /\ update_list = {}
        /\ delta_events \subseteq {Changed(s) : s \in Signals \ {Clock}}
    BY <1>2, <1>8 DEF Settling
  <2>2. Edge(1) \notin delta_events /\ Edge(0) \notin delta_events
    BY <2>1, Events
  <2>3. runnable' \subseteq WiringMethods
    BY <1>2, <2>2, MethodSet, WaitsFor
  <2>4. WiringMethods \subseteq AllMethods
    BY MethodSet
  <2>5. \A m \in WiringMethods : Due(m)' <=> Due(m)
    BY <1>2, <2>1, <2>4 DEF Due
  <2>6. Stays(Signals \ Wires)'
    BY <1>2, <2>1 DEF Stays
  <2>7. phase' # "evaluate" => runnable' = {} /\ new' = cur' /\ update_list' = {}
    BY <1>2, <2>1
  <2>8. Settling'
    BY <1>2, <1>6, <1>8, <2>3, <2>5, <2>6, <2>7 DEF Settling, WiringMethods
  <2> QED
    BY <1>3, <1>4, <2>8 DEF Inv
<1>9. CASE Tick
  <2>1. /\ runnable = {} /\ update_list = {} /\ new = cur
        /\ delta_events = {Changed(Clock), Edge(1 - next_edge)}
        /\ cur[Clock] = 1 - next_edge
        /\ Wired(cur)
    BY <1>2, <1>9 DEF Tick
  <2>2. \A s \in Signals \ {Clock} : Changed(s) \notin delta_events
    BY <2>1, Events
  <2>3. set_xreg \notin runnable' /\ set_xram \notin runnable' /\ mux_xram \in runnable'
    <3>1. {set_xreg, set_xram, mux_xram} \subseteq AllMethods
      BY MethodSet DEF WiringMethods
    <3>2. SensitiveOf(set_xreg) \cap delta_events = {}
      <4>1. Owned("core", {"ACC", "R0", "R1", "xreg_addr_sel"}) \subseteq Signals \ {Clock}
        BY Groups, Members DEF Owned
      <4> QED
        BY <2>2, <4>1, WaitsFor
    <3>3. SensitiveOf(set_xram) \cap delta_events = {}
      <4>1. Owned("core", {"ACC", "DPTR"}) \subseteq Signals \ {Clock}
        BY Groups, Members DEF Owned
      <4> QED
        BY <2>2, <4>1, WaitsFor
    <3>4. Changed(Clock) \in SensitiveOf(mux_xram) \cap delta_events
      BY <2>1, WaitsFor
    <3> QED
      BY <1>2, <3>1, <3>2, <3>3, <3>4
  <2>4. phase' = "evaluate"
    BY <1>2, <2>3
  <2>5. \A S : Stays(S)'
    BY <1>2, <2>1 DEF Stays
  <2>6. CASE next_edge = 0
    <3>1. delta_events = {Changed(Clock), Edge(1)}
      BY <2>1, <2>6
    <3>2. core_entry \in runnable'
      BY <1>2, <3>1, MethodSet, WaitsFor
    <3>3. \A k \in Memories : entry(k) \in runnable'
      BY <1>2, <3>1, MethodSet, WaitsFor
    <3>4. \A k \in Memories : set_ready(k) \notin runnable'
      BY <1>2, <3>1, MethodSet, WaitsFor, Events
    <3>5. runnable' \subseteq {core_entry, mux_xram} \cup {entry(k) : k \in Memories}
      BY <1>2, <2>3, <3>4, MethodSet DEF WiringMethods
    <3>6. Answering
      BY <1>9, <2>6 DEF Tick
    <3>7. \A k \in Memories : (started => Kept(k))' /\ (started => Counted(k))'
      BY <1>3, <1>5, <3>6 DEF Answering
    <3>8. Rise'
      BY <1>2, <2>1, <2>4, <2>5, <2>6, <3>2, <3>3, <3>5, <3>7 DEF Rise
    <3> QED
      BY <1>3, <1>4, <3>8 DEF Inv
  <2>7. CASE next_edge = 1
    <3>1. delta_events = {Changed(Clock), Edge(0)}
      BY <2>1, <2>7
    <3>2. core_entry \notin runnable' /\ \A k \in Memories : entry(k) \notin runnable'
      BY <1>2, <3>1, MethodSet, WaitsFor, Events
    <3>3. \A k \in Memories : set_ready(k) \in runnable'
      BY <1>2, <3>1, MethodSet, WaitsFor
    <3>4. runnable' \subseteq {mux_xram} \cup {set_ready(k) : k \in Memories}
      BY <1>2, <2>3, <3>2, MethodSet DEF WiringMethods
    <3>5. Serving /\ started
      BY <1>9, <2>7 DEF Tick
    <3>6. Fall'
      BY <1>2, <1>3, <1>6, <2>1, <2>4, <2>5, <2>7, <3>3, <3>4, <3>5 DEF Fall
    <3> QED
      BY <1>3, <1>4, <3>6 DEF Inv
  <2> QED
    BY <1>1, <2>6, <2>7 DEF Ranges
<1>10. CASE FirstTick
  <2>1. /\ runnable = {} /\ update_list = {} /\ new = cur
        /\ {Changed(Clock), Edge(1)} \subseteq delta_events /\ Edge(0) \notin delta_events
    BY <1>10 DEF FirstTick
  <2>2. core_entry \in runnable' /\ mux_xram \in runnable'
    BY <1>2, <2>1, MethodSet, WaitsFor DEF WiringMethods
  <2>3. runnable' \subseteq WiringMethods \cup {core_entry} \cup {entry(k) : k \in Memories}
    <3>1. \A k \in Memories : set_ready(k) \notin runnable'
      BY <1>2, <2>1, MethodSet, WaitsFor
    <3> QED
      BY <1>2, <3>1, MethodSet
  <2>4. \A m \in WiringMethods : m \notin runnable' => ~Due(m)
    BY <1>2, <2>1, MethodSet DEF Due
  <2>5. set_xreg \notin runnable' => FedXreg'
    BY <1>2, <1>10, <2>1, <2>4 DEF FirstTick, WiringMethods, WiredXreg, FedXreg, Aim, read
  <2>6. set_xram \notin runnable' => FedXram'
    BY <1>2, <1>10, <2>1, <2>4 DEF FirstTick, WiringMethods, WiredXram, FedXram, Aim, read
  <2>7. Unasked' <=> Unasked
    BY <1>2 DEF Unasked, high, read
  <2>8. Stays(CoreSignals)' /\ phase' = "evaluate"
    BY <1>2, <2>1, <2>2 DEF Stays
  <2>9. FirstRise'
    BY <1>2, <1>3, <1>10, <2>1, <2>2, <2>3, <2>5, <2>6, <2>7, <2>8 DEF FirstTick, FirstRise
  <2> QED
    BY <1>3, <1>4, <2>9 DEF Inv
<1> QED
  BY <1>7, <1>8, <1>9, <1>10

\* Moving on to the next edge leaves the ranges; the first falling edge is
\* what started remembers.
LEMMA TimeStepRanges ==
    ASSUME Ranges, TimeStep, UNCHANGED memoryVars, Frame
    PROVE  /\ Ranges' /\ program' = program /\ (started => started')
           /\ next_edge = 1 => started' = started
           /\ next_edge = 0 => started'
<1>1. /\ phase = "done" /\ phase' = "evaluate"
      /\ new' = [new EXCEPT ![Clock] = next_edge]
      /\ update_list' = {Clock} /\ next_edge' = 1 - next_edge
      /\ cur' = cur /\ runnable' = runnable
  BY DEF TimeStep
<1>2. next_edge \in {0, 1} /\ started \in BOOLEAN
  BY DEF Ranges
<1>3. program' = program /\ (started => started') /\ (next_edge = 1 => started' = started)
      /\ (next_edge = 0 => started') /\ started' \in BOOLEAN
  <2>1. program' = program /\ started' = (started \/ next_edge = 0)
    BY <1>1, <1>2 DEF Frame
  <2>2. next_edge = 1 => ~(next_edge = 0)
    OBVIOUS
  <2> QED
    BY <1>2, <2>1, <2>2, Zenon
<1>4. /\ DOMAIN new = Signals /\ Clock \in Signals /\ Clock \notin DataSignals
  BY Groups DEF Ranges, Valued, DataSignals, Owned, Clock
<1>5. Valued(cur)'
  BY <1>1 DEF Ranges, Valued
<1>6. Valued(new')
  <2>1. new' = [s \in Signals |-> new'[s]] /\ \A s \in Signals \ {Clock} : new'[s] = new[s]
    BY <1>1, <1>4
  <2>2. /\ \A s \in {Clock} \cap DataSignals : new'[s] \in Values
        /\ \A s \in {Clock} \ DataSignals : new'[s] \in {0, 1}
    BY <1>1, <1>2, <1>4
  <2>3. Valued(new)
    BY DEF Ranges
  <2> HIDE DEF Valued
  <2> QED
    BY <2>1, <2>2, <2>3, ValuedChange
<1> HIDE DEF Valued
<1>7. update_list' \subseteq Signals /\ next_edge' \in {0, 1}
  BY <1>1, <1>2, <1>4
<1> QED
  BY <1>1, <1>3, <1>5, <1>6, <1>7, SameMemories DEF Ranges, MemoriesTyped

\* The next edge of the clock.
LEMMA TimeStepStep ==
    ASSUME Inv, TimeStep, UNCHANGED memoryVars, Frame
    PROVE  Inv'
<1>1. Ranges /\ OneAccess
  BY DEF Inv
<1>2. /\ phase = "done" /\ phase' = "evaluate"
      /\ new' = [new EXCEPT ![Clock] = next_edge]
      /\ update_list' = {Clock} /\ next_edge' = 1 - next_edge
      /\ cur' = cur /\ runnable' = runnable /\ delta_events' = delta_events
  BY DEF TimeStep
<1>3. Settling
  BY <1>2 DEF Inv, Beginning, FirstTick, FirstRise, Tick, Rise, Fall
<1>4. /\ runnable = {} /\ new = cur /\ delta_events = {} /\ cur[Clock] = 1 - next_edge
  BY <1>2, <1>3 DEF Settling
<1>5. Wired(cur)
  BY <1>3, <1>4 DEF Settling, Due, Wired
<1>6. next_edge \in {0, 1} /\ started \in BOOLEAN
  BY <1>1 DEF Ranges
<1>7. /\ Ranges' /\ program' = program /\ (started => started')
      /\ next_edge = 1 => started' = started
      /\ next_edge = 0 => started'
  BY <1>1, TimeStepRanges
<1>8. OneAccess'
  BY <1>1, <1>2, <1>7, SameAccess
<1>9. DOMAIN new = Signals /\ Clock \in Signals
  BY <1>1, Groups DEF Ranges, Valued
<1>10. \A k \in Memories : (Kept(k)' <=> Kept(k)) /\ (Counted(k)' <=> Counted(k))
                          /\ (Served(k)' <=> Served(k))
  BY <1>2, Same DEF memoryVars
<1>11. ASSUME next_edge' = 0 PROVE Answering'
  <2>1. next_edge = 1
    BY <1>2, <1>6, <1>11
  <2>2. Answering
    BY <1>3, <2>1 DEF Settling
  <2>3. started' => started
    BY <1>7, <2>1
  <2> QED
    BY <1>10, <2>2, <2>3 DEF Answering
<1>12. next_edge' = 1 => Serving' /\ started'
  BY <1>2, <1>3, <1>6, <1>7, <1>10 DEF Settling, Serving
<1>13. Tick'
  <2>1. Stays(Signals \ {Clock})'
    BY <1>2, <1>4, <1>9 DEF Stays
  <2>2. new'[Clock] = 1 - next_edge' /\ cur'[Clock] = next_edge'
    BY <1>2, <1>4, <1>6, <1>9
  <2> QED
    BY <1>2, <1>4, <1>5, <1>11, <1>12, <2>1, <2>2 DEF Tick
<1> QED
  BY <1>7, <1>8, <1>13 DEF Inv

-----------------------------------------------------------------------------
\* A program that stores through both R0 and R1 uses a memory that takes time:
\* without delay, the second of two stores back to back is over before the
\* memory has seen its address.
OneStorePointer ==
    Delay["xreg"] = 0 =>
        \A p \in Programs : ~ \E i, j \in p : /\ i.op = "store" /\ i.r = "R0"
                                              /\ j.op = "store" /\ j.r = "R1"

\* Two stores by Ri go to the same place, when the memory has no delay.
LEMMA SameStore ==
    ASSUME OneStorePointer, Ranges, OneAccess, Delay["xreg"] = 0, high("xreg", "we"),
           NEW i \in program, i.op = "store", i.r \in {"R0", "R1"}
    PROVE  high("core", "xreg_addr_sel") <=> i.r = "R1"
<1>1. (IF high("core", "xreg_addr_sel") THEN "R1" ELSE "R0") \in StorePointers
  BY DEF OneAccess
<1>2. program \in Programs
  BY DEF Ranges
<1>3. ~({"R0", "R1"} \subseteq StorePointers)
  BY <1>2 DEF StorePointers, OneStorePointer
<1>4. i.r \in StorePointers
  BY DEF StorePointers
<1> QED
  BY <1>1, <1>3, <1>4

\* When the edge is over, a memory that will say it is done has done what the
\* core now asks of it: the core had to wait for it, or the memory is so fast
\* that it has served the access before, which was the same.
LEMMA EdgeServed ==
    ASSUME OneStorePointer, Ranges, OneAccess, Wired(cur), Moved, NEW k \in Memories,
           started => Kept(k), Latched(k), Update, UNCHANGED memoryVars
    PROVE  Served(k)'
<1> DEFINE b == BusOf(k)
           Stored == mem[k][Aim(new, b)] = new[<<"core", "ACC">>]
           Goal == /\ Writes(k)' /\ Writes(k) /\ (Delay[k] = 0 \/ new[<<k, "wr_ready">>] = 1) =>
                         Stored
                   /\ Reads(k)' /\ Aim(new, b) = Aim(cur, b)
                        /\ (Delay[k] = 0 \/ (Reads(k) /\ new[<<k, "rd_ready">>] = 1)) => Stored
<1>1. b \in Buses /\ cur' = new /\ mem' = mem /\ rd_cnt' = rd_cnt /\ wr_cnt' = wr_cnt
  BY Members DEF Update, memoryVars
<1>2. /\ high(k, "bre")' <=> Reads(k)
      /\ high(k, "bwe")' <=> Writes(k)
      /\ read(k, "baddr")' = Aim(cur, b)
      /\ high(k, "rd_ready")' <=> new[<<k, "rd_ready">>] = 1
      /\ high(k, "wr_ready")' <=> new[<<k, "wr_ready">>] = 1
  BY <1>1 DEF Latched, high, read, level
<1>3. Delay[k] # 0 => /\ (high(k, "bwe") /\ high(k, "wr_ready"))' => wr_cnt'[k] = 0
                      /\ (high(k, "bre") /\ high(k, "rd_ready"))' => rd_cnt'[k] = 0
  BY <1>1, <1>2 DEF Latched
<1>4. /\ read(k, "rd_data") = read(b, "rd_data")
      /\ high(k, "ready") <=> high(b, "ready")
  BY Members DEF Wired, WiredMux, read, high
<1>5. /\ Reads(k) <=> high(b, "re")
      /\ Writes(k) <=> high(b, "we")
      /\ Reads(k)' <=> high(b, "re")'
      /\ Writes(k)' <=> high(b, "we")'
  BY DEF Reads, Writes
<1>6. /\ high(b, "waitready") <=> Reads(k) \/ Writes(k)
      /\ ~(Reads(k) /\ Writes(k))
      /\ Reads(k) \/ Writes(k) => started /\ \A c \in Buses \ {b} : ~high(c, "waitready")
  BY <1>1, <1>5 DEF OneAccess, Buses
<1>7. SUFFICES Goal
  BY <1>1, <1>2, <1>3 DEF Served, Target, read
<1>8. ASSUME Latched(k), Writes(k), Delay[k] = 0 \/ new[<<k, "wr_ready">>] = 1
      PROVE  mem[k][Aim(cur, b)] = read("core", "ACC") /\ (Delay[k] # 0 => ~high(b, "ready"))
  BY <1>4, <1>8 DEF Latched, Target
<1>9. CASE StallMoved
  <2>1. CASE Stalled(b)
    <3>1. LinesAre(b, read(b, "re"), read(b, "we"))
      BY <1>1, <1>9, <2>1 DEF StallMoved
    <3>2. (Reads(k)' <=> Reads(k)) /\ (Writes(k)' <=> Writes(k))
      BY <1>1, <1>5, <3>1, LinesHigh DEF high
    <3>3. Aim(new, b) = Aim(cur, b)
      BY <1>9 DEF StallMoved, Stays, Owned, Aim, Pointers, BusWith
    <3>4. \A c \in Buses : Loaded(c) <=> c = b /\ Reads(k)
      BY <1>1, <1>5, <1>6, <2>1 DEF Loaded, Stalled
    <3>5. new[<<"core", "ACC">>] = IF Reads(k) THEN read(k, "rd_data") ELSE read("core", "ACC")
      BY <1>1, <1>4, <1>9, <3>4 DEF StallMoved, Buses
    <3>6. ASSUME Writes(k), Delay[k] = 0 \/ new[<<k, "wr_ready">>] = 1 PROVE Stored
      BY <1>6, <1>8, <3>3, <3>5, <3>6
    <3>7. ASSUME Reads(k), Delay[k] = 0 \/ new[<<k, "rd_ready">>] = 1 PROVE Stored
      <4>1. Kept(k) /\ ~Writes(k)
        BY <1>6, <3>7
      <4>2. CASE Delay[k] = 0
        BY <3>3, <3>5, <3>7, <4>1, <4>2 DEF Kept, Target
      <4>3. CASE Delay[k] # 0
        <5>1. read(k, "baddr") = Aim(cur, b)
          BY <3>7, <4>3 DEF Latched
        <5> QED
          BY <3>3, <3>5, <3>7, <4>1, <4>3, <5>1 DEF Kept
      <4> QED
        BY <4>2, <4>3
    <3> QED
      BY <3>2, <3>6, <3>7
  <2>2. CASE ~Stalled(b)
    <3>1. LinesAre(b, 0, 0)
      BY <1>1, <1>9, <2>2 DEF StallMoved
    <3> QED
      BY <1>1, <1>5, <3>1, LinesHigh
  <2> QED
    BY <2>1, <2>2
<1>10. ASSUME NEW i \in program, PlainMoved(i) PROVE Goal
  <2>1. LinesAre(b, 0, 0)
    BY <1>1, <1>10 DEF PlainMoved
  <2> QED
    BY <1>1, <1>5, <2>1, LinesHigh
<1>11. ASSUME NEW i \in program, MovxMoved(i), \A c \in Buses : ~Stalled(c) PROVE Goal
  <2>1. started /\ i.op \in {"load", "store"} /\ i.r \in Pointers
    BY <1>11, Instruction DEF MovxMoved
  <2>2. CASE b # BusWith[i.r]
    <3>1. LinesAre(b, 0, 0)
      BY <1>1, <1>11, <2>2 DEF MovxMoved
    <3> QED
      BY <1>1, <1>5, <3>1, LinesHigh
  <2>3. CASE b = BusWith[i.r]
    <3>1. LinesAre(b, level(i.op = "load"), level(i.op = "store"))
      BY <1>1, <1>11, <2>3 DEF MovxMoved
    <3>2. /\ Reads(k)' <=> i.op = "load"
          /\ Writes(k)' <=> i.op = "store"
      BY <1>1, <1>5, <2>1, <3>1, LinesHigh DEF level
    <3>3. Reads(k) \/ Writes(k) => high(b, "ready")
      BY <1>1, <1>6, <1>11 DEF Stalled
    <3>4. CASE i.op = "load"
      <4>1. new[<<"core", "ACC">>] = read(k, "rd_data")
        BY <1>4, <1>11, <2>3, <3>4 DEF MovxMoved
      <4>2. Delay[k] # 0 /\ Reads(k) => new[<<k, "rd_ready">>] # 1
        BY <1>4, <3>3 DEF Latched
      <4>3. Delay[k] = 0 => read(k, "rd_data") = Target(k)
        BY <1>4, <2>1, <3>3 DEF Kept
      <4> QED
        BY <3>2, <3>4, <4>1, <4>2, <4>3 DEF Target
    <3>5. CASE i.op = "store"
      <4>1. new[<<"core", "ACC">>] = read("core", "ACC")
        BY <1>11, <3>5 DEF MovxMoved
      <4>2. ASSUME Writes(k), Delay[k] = 0 PROVE Aim(new, b) = Aim(cur, b)
        <5>1. Stays(Owned("core", Pointers))
          BY <1>11 DEF MovxMoved
        <5>2. CASE b = "xram"
          BY <5>1, <5>2 DEF Stays, Owned, Aim, Pointers, BusWith
        <5>3. CASE b = "xreg"
          <6>1. k = "xreg"
            BY <5>3 DEF Memories, BusOf
          <6>2. i.r \in {"R0", "R1"}
            BY <2>1, <2>3, <5>3 DEF Pointers, BusWith
          <6>3. high("core", "xreg_addr_sel") <=> i.r = "R1"
            BY <1>5, <3>5, <4>2, <5>3, <6>1, <6>2, SameStore
          <6>4. new[<<"core", "xreg_addr_sel">>] = level(i.r = "R1")
            BY <1>11, <2>3, <5>3 DEF MovxMoved
          <6> QED
            BY <5>1, <5>3, <6>3, <6>4 DEF Stays, Owned, Aim, Pointers, BusWith, high, read, level
        <5> QED
          BY <1>1, <5>2, <5>3 DEF Buses
      <4> QED
        BY <1>8, <3>2, <3>3, <3>5, <4>1, <4>2
    <3> QED
      BY <2>1, <3>4, <3>5
  <2> QED
    BY <2>2, <2>3
<1> QED
  BY <1>9, <1>10, <1>11 DEF Moved

\* The update shows what has been written, and says what has changed.
LEMMA Updated ==
    ASSUME Ranges, Update, UNCHANGED memoryVars, Frame
    PROVE  /\ phase = "evaluate" /\ runnable = {}
           /\ cur' = new /\ new' = new /\ update_list' = {} /\ runnable' = {}
           /\ phase' = "notify" /\ next_edge' = next_edge
           /\ \A s : Changed(s) \in delta_events' <=> s \in update_list /\ new[s] # cur[s]
           /\ new[Clock] = cur[Clock] =>
                 delta_events' \subseteq {Changed(s) : s \in Signals \ {Clock}}
           /\ Clock \in update_list /\ new[Clock] # cur[Clock] =>
                 Edge(new[Clock]) \in delta_events'
           /\ \A x : Edge(x) \in delta_events' => Edge(x) = Edge(new[Clock])
           /\ started' = started /\ program' = program
           /\ Ranges'
<1> DEFINE changed == {s \in update_list : new[s] # cur[s]}
<1>1. /\ phase = "evaluate" /\ runnable = {}
      /\ cur' = new /\ new' = new /\ update_list' = {} /\ runnable' = runnable
      /\ phase' = "notify" /\ next_edge' = next_edge
      /\ delta_events' = {Changed(s) : s \in changed} \cup {Edge(new[s]) : s \in changed \cap {Clock}}
  BY DEF Update
<1>3. \A s : Changed(s) \in delta_events' <=> s \in changed
  BY <1>1, Events
<1>4. new[Clock] = cur[Clock] => delta_events' \subseteq {Changed(s) : s \in Signals \ {Clock}}
  BY <1>1 DEF Ranges
<1>7. Clock \in update_list /\ new[Clock] # cur[Clock] => Edge(new[Clock]) \in delta_events'
  BY <1>1
<1>8. \A x : Edge(x) \in delta_events' => Edge(x) = Edge(new[Clock])
  BY <1>1, Events
<1>5. started' = started /\ program' = program
  <2>1. ~(phase = "done" /\ next_edge = 0)
    BY <1>1
  <2>2. started \in BOOLEAN
    BY DEF Ranges
  <2> QED
    BY <2>1, <2>2, Zenon DEF Frame
<1>6. Ranges'
  <2>1. Valued(cur)' /\ Valued(new)'
    BY <1>1 DEF Ranges, Valued
  <2> HIDE DEF Valued
  <2> QED
    BY <1>1, <1>5, <2>1, SameMemories DEF Ranges, MemoriesTyped
<1> QED
  BY <1>1, <1>3, <1>4, <1>5, <1>6, <1>7, <1>8

\* Wires that rest on what drives them are fed.
LEMMA RestFed ==
    ASSUME Wired(cur), Stays(Wires) PROVE FedXreg /\ FedXram /\ FedMux
<1>1. \A s \in Wires : new[s] = cur[s]
  BY DEF Stays
<1> QED
  BY <1>1 DEF Wired, WiredXreg, WiredXram, WiredMux, FedXreg, FedXram, FedMux, Wires, Owned, read

\* After the edge's own delta cycle the wires are right, or their method is due.
LEMMA EdgeWires ==
    ASSUME Ranges, Update, UNCHANGED memoryVars, Frame, Listed, FedXreg, FedXram, FedMux
    PROVE  /\ ~Due(set_xreg)' => WiredXreg(new')
           /\ ~Due(set_xram)' => WiredXram(new')
           /\ ~Due(mux_xram)' => WiredMux(new')
<1>1. /\ new' = new
      /\ \A s : Changed(s) \in delta_events' <=> s \in update_list /\ new[s] # cur[s]
  BY Updated
<1>2. ASSUME NEW m, ~Due(m)', NEW S, SensitiveOf(m) = {Changed(s) : s \in S}
      PROVE  \A s \in S \cap Signals : new[s] = cur[s]
  <2>1. \A s \in S : Changed(s) \notin delta_events'
    BY <1>2 DEF Due
  <2> QED
    BY <1>1, <2>1 DEF Listed
<1>3. ASSUME ~Due(set_xreg)' PROVE WiredXreg(new')
  <2>1. \A s \in Owned("core", {"ACC", "R0", "R1", "xreg_addr_sel"}) \cap Signals : new[s] = cur[s]
    BY <1>2, <1>3, WaitsFor
  <2>2. \A n \in {"ACC", "R0", "R1", "xreg_addr_sel"} : new[<<"core", n>>] = cur[<<"core", n>>]
    BY <2>1, Groups, Members DEF Owned
  <2> QED
    BY <1>1, <2>2 DEF FedXreg, WiredXreg, Aim, read
<1>4. ASSUME ~Due(set_xram)' PROVE WiredXram(new')
  <2>1. \A s \in Owned("core", {"ACC", "DPTR"}) \cap Signals : new[s] = cur[s]
    BY <1>2, <1>4, WaitsFor
  <2>2. \A n \in {"ACC", "DPTR"} : new[<<"core", n>>] = cur[<<"core", n>>]
    BY <2>1, Groups, Members DEF Owned
  <2> QED
    BY <1>1, <2>2 DEF FedXram, WiredXram, Aim, read
<1>5. ASSUME ~Due(mux_xram)' PROVE WiredMux(new')
  <2> DEFINE S == Owned("xram", {"addr", "re", "we"}) \cup Owned("xrambig", {"rd_data", "ready"})
                  \cup {Clock}
  <2>1. \A s \in S \cap Signals : new[s] = cur[s]
    BY <1>2, <1>5, WaitsFor
  <2>2. {<<"xram", "re">>, <<"xram", "we">>, <<"xrambig", "rd_data">>, <<"xrambig", "ready">>}
           \subseteq S \cap Signals
    BY SignalSet DEF Owned, CoreSignals, Answers
  <2> QED
    BY <1>1, <2>1, <2>2 DEF FedMux, WiredMux, read
<1> QED
  BY <1>3, <1>4, <1>5

\* So the delta cycles that follow the edge begin.
LEMMA EdgeSettles ==
    ASSUME Inv, Update, UNCHANGED memoryVars, Frame,
           Listed, FedXreg, FedXram, FedMux,
           new[Clock] = cur[Clock], cur[Clock] = 1 - next_edge,
           OneAccess', next_edge = 1 => Answering', next_edge = 0 => Serving'
    PROVE  Inv'
<1>1. /\ cur' = new /\ new' = new /\ update_list' = {} /\ runnable' = {}
      /\ phase' = "notify" /\ next_edge' = next_edge
      /\ new[Clock] = cur[Clock] =>
            delta_events' \subseteq {Changed(s) : s \in Signals \ {Clock}}
      /\ Ranges'
  BY Updated DEF Inv
<1>2. /\ ~Due(set_xreg)' => WiredXreg(new')
      /\ ~Due(set_xram)' => WiredXram(new')
      /\ ~Due(mux_xram)' => WiredMux(new')
  BY EdgeWires DEF Inv
<1>3. Stays(Signals \ Wires)'
  BY <1>1 DEF Stays
<1>4. cur'[Clock] = 1 - next_edge'
  BY <1>1
<1>5. Settling'
  BY <1>1, <1>2, <1>3, <1>4 DEF Settling, WiringMethods
<1> QED
  BY <1>1, <1>5 DEF Inv

\* When the falling edge is over, a memory that says it is ready has done what
\* the core asks of it, and shows the byte.
LEMMA FallAnswers ==
    ASSUME Ranges, Fall, runnable = {}, cur' = new, UNCHANGED memoryVars, started' = started
    PROVE  Answering'
<1>1. ASSUME NEW k \in Memories PROVE Kept(k)' /\ Counted(k)'
  <2> DEFINE b == BusOf(k)
  <2>1. /\ new[<<k, "ready">>] = level(Answered(k))
        /\ new[<<k, "rd_data">>] = CASE Delay[k] = 0 -> Target(k)
                                   [] Delay[k] # 0 /\ Reads(k) -> mem[k][read(k, "baddr")]
                                   [] OTHER -> 0
    BY DEF Fall
  <2>2. \A s \in Signals \ (Answers("xreg") \cup Answers("xrambig")) : new[s] = cur[s]
    BY DEF Fall, Stays
  <2>3. /\ \A n \in {"ACC", "xreg_addr_sel", "R0", "R1", "DPTR"} :
              new[<<"core", n>>] = cur[<<"core", n>>]
        /\ \A c \in Buses : \A n \in {"re", "we", "waitready"} : new[<<c, n>>] = cur[<<c, n>>]
        /\ new[<<k, "baddr">>] = cur[<<k, "baddr">>]
    BY <2>2, Groups, Members
  <2>4. b \in Buses
    BY Members
  <2>5. Aim(new, b) = Aim(cur, b)
    BY <2>3 DEF Aim
  <2>6. Target(k)' = Target(k) /\ mem' = mem /\ rd_cnt' = rd_cnt /\ wr_cnt' = wr_cnt
    BY <2>5 DEF Target, memoryVars
  <2>7. high(k, "ready")' <=> Answered(k)
    BY <2>1 DEF high, read, level
  <2>8. /\ Reads(k)' <=> Reads(k)
        /\ Writes(k)' <=> Writes(k)
        /\ read(k, "rd_data")' = new[<<k, "rd_data">>]
        /\ read(k, "baddr")' = read(k, "baddr")
        /\ read("core", "ACC")' = read("core", "ACC")
    BY <2>3, <2>4 DEF Reads, Writes, high, read
  <2>9. /\ address(k) = Aim(cur, b)
        /\ high(k, "re") <=> Reads(k)
        /\ high(k, "we") <=> Writes(k)
    BY Members DEF Fall, Wired, WiredXreg, WiredXram, WiredMux, address, read, high, Reads, Writes
  <2>10. Served(k)
    BY DEF Fall, Serving
  <2>11. Answered(k) /\ (Reads(k) \/ Writes(k)) => Target(k) = read("core", "ACC")
    BY <2>9, <2>10 DEF Answered, Served
  <2>12. Delay[k] # 0 /\ Answered(k) => /\ Writes(k) => wr_cnt[k] = 0
                                        /\ Reads(k) => rd_cnt[k] = 0
    BY <2>9, <2>10 DEF Answered, Served
  <2>13. Kept(k)'
    BY <2>1, <2>6, <2>7, <2>8, <2>11 DEF Kept
  <2>14. Counted(k)'
    BY <2>6, <2>7, <2>8, <2>12 DEF Counted
  <2> QED
    BY <2>13, <2>14
<1> QED
  BY <1>1 DEF Answering

\* While every signal is 0 the wires agree with what drives them.
LEMMA ZeroWired ==
    ASSUME \A s \in Signals : cur[s] = 0 PROVE Wired(cur)
<1>1. /\ \A s \in Wires : cur[s] = 0
      /\ \A n \in {"ACC", "xreg_addr_sel", "R0", "R1", "DPTR"} : cur[<<"core", n>>] = 0
      /\ cur[<<"xram", "re">>] = 0 /\ cur[<<"xram", "we">>] = 0
      /\ cur[<<"xrambig", "rd_data">>] = 0 /\ cur[<<"xrambig", "ready">>] = 0
  BY Groups, Members DEF Buses, Memories
<1> QED
  BY <1>1 DEF Wired, WiredXreg, WiredXram, WiredMux, Aim, Wires, Owned

\* The update of each stage leads to the next.
LEMMA UpdateStep ==
    ASSUME OneStorePointer, Inv, Update, UNCHANGED memoryVars, Frame
    PROVE  Inv'
<1>1. /\ phase = "evaluate" /\ runnable = {}
      /\ cur' = new /\ new' = new /\ update_list' = {} /\ runnable' = {}
      /\ phase' = "notify" /\ next_edge' = next_edge
      /\ new[Clock] = cur[Clock] =>
            delta_events' \subseteq {Changed(s) : s \in Signals \ {Clock}}
      /\ started' = started /\ program' = program
      /\ Ranges'
  BY Updated DEF Inv
<1>2. Ranges /\ OneAccess
  BY DEF Inv
<1>3. mem' = mem /\ rd_cnt' = rd_cnt /\ wr_cnt' = wr_cnt
  BY DEF memoryVars
<1>4. CASE Beginning
  <2>1. Moved /\ Listed /\ Stays(Wires) /\ next_edge = 0 /\ ~started /\ new[Clock] = 1 /\ Unasked
    BY <1>1, <1>4 DEF Beginning, Listed
  <2>2. OneAccess'
    BY <1>1, <1>2, <2>1, MovedOneAccess
  <2>3. \A s \in Signals : cur[s] = 0
    BY <1>4 DEF Beginning
  <2>4. FedXreg /\ FedXram /\ FedMux
    BY <2>1, <2>3, ZeroWired, RestFed
  <2>5. (~Due(set_xreg)' => WiredXreg(cur')) /\ (~Due(set_xram)' => WiredXram(cur'))
    BY <1>1, <1>2, <2>1, <2>4, EdgeWires
  <2>6. Clock \in update_list /\ new[Clock] # cur[Clock]
    BY <2>1, <2>3, Groups DEF Listed
  <2>7. {Changed(Clock), Edge(1)} \subseteq delta_events' /\ Edge(0) \notin delta_events'
    BY <1>2, <2>1, <2>6, Updated, Events
  <2>8. \A b \in Buses : ~high(b, "re")' /\ ~high(b, "we")'
    BY <1>1, <2>1, <2>2 DEF OneAccess
  <2>9. ~high("xrambig", "re")' /\ ~high("xrambig", "we")'
    <3>1. <<"xrambig", "re">> \in Wires /\ <<"xrambig", "we">> \in Wires
      BY DEF Wires, Owned
    <3> QED
      BY <1>1, <2>1, <2>3, <3>1, Groups DEF Stays, high, read
  <2>10. Unasked'
    BY <1>1, <2>1, <2>8, <2>9 DEF Unasked, Memories, Buses
  <2>11. FirstTick'
    BY <1>1, <2>1, <2>5, <2>7, <2>10 DEF FirstTick
  <2> QED
    BY <1>1, <2>2, <2>11 DEF Inv
<1>9. CASE FirstRise
  <2>1. /\ Moved /\ Listed /\ FedXreg /\ FedXram /\ FedMux /\ next_edge = 0 /\ ~started
        /\ new[Clock] = 1 /\ cur[Clock] = 1 /\ Unasked
    BY <1>1, <1>9 DEF FirstRise, Listed
  <2>2. OneAccess'
    BY <1>1, <1>2, <2>1, MovedOneAccess
  <2>3. ASSUME NEW k \in Memories PROVE Served(k)'
    <3>1. ~Reads(k)' /\ ~Writes(k)'
      BY <1>1, <2>1, <2>2, Members DEF OneAccess, Reads, Writes
    <3>2. ~high(k, "bre")' /\ ~high(k, "bwe")'
      BY <1>1, <2>1 DEF Unasked, high, read
    <3> QED
      BY <3>1, <3>2 DEF Served
  <2>4. Serving'
    BY <2>3 DEF Serving
  <2> QED
    BY <2>1, <2>2, <2>4, EdgeSettles
<1>5. CASE Settling
  <2>1. /\ \A s \in Signals \ Wires : cur'[s] = cur[s]
        /\ WiredXreg(new) /\ WiredXram(new) /\ WiredMux(new)
    BY <1>1, <1>5 DEF Settling, Stays, Due
  <2>2. OneAccess'
    BY <1>1, <1>2, <2>1, Groups, SameAccess
  <2>3. \A k \in Memories : (Kept(k)' <=> Kept(k)) /\ (Counted(k)' <=> Counted(k))
                            /\ (Served(k)' <=> Served(k))
    BY <1>3, <2>1, Same
  <2>4. (Answering' <=> Answering) /\ (Serving' <=> Serving)
    BY <1>1, <2>3 DEF Answering, Serving
  <2>5. cur'[Clock] = cur[Clock] /\ new[Clock] = cur[Clock]
    BY <1>1, <2>1, Groups
  <2>6. Stays(Signals \ Wires)'
    BY <1>1 DEF Stays
  <2>7. Settling'
    BY <1>1, <1>5, <2>1, <2>4, <2>5, <2>6 DEF Settling
  <2> QED
    BY <1>1, <2>2, <2>7 DEF Inv
<1>6. CASE Tick
  <2>1. /\ update_list = {Clock} /\ Stays(Signals \ {Clock})
        /\ cur[Clock] = next_edge /\ new[Clock] = 1 - next_edge /\ Wired(cur)
        /\ next_edge = 0 => Answering
        /\ next_edge = 1 => Serving /\ started
    BY <1>1, <1>6 DEF Tick
  <2>2. \A s \in Signals \ {Clock} : cur'[s] = cur[s]
    BY <1>1, <2>1 DEF Stays
  <2>3. OneAccess'
    BY <1>1, <1>2, <2>2, Groups, SameAccess
  <2>4. \A k \in Memories : (Kept(k)' <=> Kept(k)) /\ (Counted(k)' <=> Counted(k))
                            /\ (Served(k)' <=> Served(k))
    BY <1>3, <2>2, Same
  <2>5. (Answering' <=> Answering) /\ (Serving' <=> Serving)
    BY <1>1, <2>4 DEF Answering, Serving
  <2>6. next_edge \in {0, 1}
    BY <1>2 DEF Ranges
  <2>7. delta_events' = {Changed(Clock), Edge(1 - next_edge)}
    <3>1. {s \in update_list : new[s] # cur[s]} = {Clock}
      BY <2>1, <2>6
    <3> QED
      BY <2>1, <3>1 DEF Update
  <2>8. Wired(cur)'
    <3>1. /\ \A s \in Wires : new[s] = cur[s]
          /\ \A n \in {"ACC", "xreg_addr_sel", "R0", "R1", "DPTR"} :
                new[<<"core", n>>] = cur[<<"core", n>>]
          /\ \A s \in {<<"xram", "re">>, <<"xram", "we">>, <<"xrambig", "rd_data">>,
                       <<"xrambig", "ready">>} : new[s] = cur[s]
      BY <1>1, <2>2, Groups, Members DEF Buses, Memories
    <3>2. {<<"xreg", "addr">>, <<"xreg", "wr_data">>, <<"xram", "addr">>, <<"xram", "wr_data">>,
           <<"xram", "rd_data">>, <<"xram", "ready">>, <<"xrambig", "re">>, <<"xrambig", "we">>}
             \subseteq Wires
      BY DEF Wires, Owned
    <3>3. WiredXreg(new) /\ WiredXram(new)
      BY <2>1, <3>1, <3>2 DEF Wired, WiredXreg, WiredXram, Aim
    <3>4. WiredMux(new)
      BY <2>1, <3>1, <3>2 DEF Wired, WiredMux
    <3> QED
      BY <1>1, <3>3, <3>4 DEF Wired
  <2>9. Tick'
    BY <1>1, <2>1, <2>5, <2>7, <2>8 DEF Tick
  <2> QED
    BY <1>1, <2>3, <2>9 DEF Inv
<1>7. CASE Rise
  <2>1. /\ Moved /\ Listed /\ Stays(Wires \cup {Clock}) /\ next_edge = 0 /\ Wired(cur)
        /\ cur[Clock] = 1 - next_edge
        /\ \A k \in Memories : (started => Kept(k)) /\ Latched(k)
    BY <1>1, <1>7 DEF Rise, Listed, Stays
  <2>2. OneAccess'
    BY <1>1, <1>2, <2>1, MovedOneAccess
  <2>3. Serving'
    BY <1>2, <2>1, EdgeServed DEF Serving
  <2>4. FedXreg /\ FedXram /\ FedMux /\ new[Clock] = cur[Clock]
    BY <2>1, RestFed DEF Stays
  <2> QED
    BY <2>1, <2>2, <2>3, <2>4, EdgeSettles
<1>8. CASE Fall
  <2>1. /\ Listed /\ next_edge = 1 /\ Wired(cur) /\ cur[Clock] = 1 - next_edge
        /\ Stays(Signals \ (Answers("xreg") \cup Answers("xrambig")))
    BY <1>8 DEF Fall, Listed
  <2>2. Stays(Wires \cup {Clock})
    BY <2>1, Groups, Members DEF Stays
  <2>3. \A s \in CoreSignals : cur'[s] = cur[s]
    BY <1>1, <2>1, Groups, Members DEF Stays
  <2>4. OneAccess'
    BY <1>1, <1>2, <2>3, SameAccess
  <2>5. Answering'
    BY <1>1, <1>2, <1>8, FallAnswers
  <2>6. FedXreg /\ FedXram /\ FedMux /\ new[Clock] = cur[Clock]
    BY <2>1, <2>2, RestFed DEF Stays
  <2> QED
    BY <2>1, <2>4, <2>5, <2>6, EdgeSettles
<1> QED
  BY <1>1, <1>4, <1>5, <1>6, <1>7, <1>8, <1>9 DEF Inv, FirstTick

-----------------------------------------------------------------------------
\* No step leaves the ranges, whatever the programs.
LEMMA NextRanges ==
    ASSUME Ranges, [Next]_vars PROVE Ranges'
<1>1. CASE UNCHANGED vars
  BY <1>1 DEF vars, kernelVars, memoryVars, Ranges, Valued
<1>2. CASE Next
  <2>1. Frame
    BY <1>2 DEF Next, Frame
  <2>3. ASSUME NEW m, NEW w, Evaluate(m, w), UNCHANGED memoryVars, Valued(new') PROVE Ranges'
    BY <2>1, <2>3, SameMemories, EvaluatedRanges
  <2>4. ASSUME NEW k \in Memories, MemoryEntry(k) PROVE Ranges'
    <3>1. \E w : Evaluate(entry(k), w)
      BY <2>4 DEF MemoryEntry
    <3> QED
      BY <2>1, <2>4, <3>1, MemoryTyped, MemoryValued, EvaluatedRanges
  <2>5. CASE Core /\ UNCHANGED memoryVars
    <3>1. \E w : Evaluate(core_entry, w)
      BY <2>5 DEF Core, Stall, Execute, MOVX, Plain
    <3> QED
      BY <2>3, <2>5, <3>1, CoreValued
  <2>6. CASE SetXreg /\ UNCHANGED memoryVars
    <3>1. \E w : Evaluate(set_xreg, w)
      BY <2>6 DEF SetXreg
    <3> QED
      BY <2>3, <2>6, <3>1, SetXregValued
  <2>7. CASE SetXram /\ UNCHANGED memoryVars
    <3>1. \E w : Evaluate(set_xram, w)
      BY <2>7 DEF SetXram
    <3> QED
      BY <2>3, <2>7, <3>1, SetXramValued
  <2>8. CASE MuxXram /\ UNCHANGED memoryVars
    <3>1. \E w : Evaluate(mux_xram, w)
      BY <2>8 DEF MuxXram
    <3> QED
      BY <2>3, <2>8, <3>1, MuxValued
  <2>9. ASSUME NEW k \in Memories, SetReady(k), UNCHANGED memoryVars PROVE Ranges'
    <3>1. \E w : Evaluate(set_ready(k), w)
      BY <2>9 DEF SetReady
    <3> QED
      BY <2>3, <2>9, <3>1, SetReadyValued
  <2>10. CASE Update /\ UNCHANGED memoryVars
    BY <2>1, <2>10, Updated
  <2>11. CASE Notify /\ UNCHANGED memoryVars
    BY <2>1, <2>11, NotifiedRanges
  <2>12. CASE TimeStep /\ UNCHANGED memoryVars
    BY <2>1, <2>12, TimeStepRanges
  <2> QED
    BY <1>2, <2>4, <2>5, <2>6, <2>7, <2>8, <2>9, <2>10, <2>11, <2>12
       DEF Next, Wiring, Answer, Kernel
<1> QED
  BY <1>1, <1>2

-----------------------------------------------------------------------------
\* The invariant holds at first.
LEMMA InitInv == Init => Inv
<1> SUFFICES ASSUME Init PROVE Inv
  OBVIOUS
<1>1. /\ cur = [s \in Signals |-> 0] /\ new = [cur EXCEPT ![Clock] = 1]
      /\ update_list = {Clock} /\ runnable = AllMethods /\ delta_events = {}
      /\ next_edge = 0 /\ phase = "evaluate"
      /\ mem \in [Memories -> [Values -> Values]]
      /\ rd_cnt = [k \in Memories |-> 0] /\ wr_cnt = [k \in Memories |-> 0]
      /\ program \in Programs /\ started = FALSE
  BY DEF Init, KernelInit
<1>2. /\ \A s \in Signals : cur[s] = 0 /\ new[s] = IF s = Clock THEN 1 ELSE 0
      /\ Clock \in Signals /\ new[Clock] = 1
  BY <1>1, Groups
<1>3. Ranges
  <2>1. Valued(cur) /\ Valued(new)
    <3>1. DataSignals \subseteq Signals \ {Clock}
      BY SignalSet DEF DataSignals, CoreSignals, Wires, Latches, Answers, Owned, Clock
    <3>2. cur \in [Signals -> Values \cup {0, 1}] /\ new \in [Signals -> Values \cup {0, 1}]
      BY <1>1
    <3> QED
      BY <1>2, <3>1, <3>2, Bits DEF Valued
  <2>2. \A k \in Memories : Delay[k] \in Nat
    BY MovxAssumption
  <2>3. /\ rd_cnt \in [Memories -> Nat] /\ wr_cnt \in [Memories -> Nat]
        /\ \A k \in Memories : rd_cnt[k] \in 0 .. Delay[k] /\ wr_cnt[k] \in 0 .. Delay[k]
    BY <1>1, <2>2
  <2>4. /\ update_list \subseteq Signals /\ runnable \subseteq AllMethods
        /\ phase \in {"evaluate", "notify", "done"} /\ next_edge \in {0, 1}
        /\ program \in Programs /\ started \in BOOLEAN
        /\ mem \in [Memories -> [Values -> Values]]
    BY <1>1, <1>2
  <2> HIDE DEF Valued
  <2> QED
    BY <2>1, <2>3, <2>4 DEF Ranges
<1>4. OneAccess
  <2>1. ASSUME NEW b \in Buses PROVE ~high(b, "re") /\ ~high(b, "we") /\ ~high(b, "waitready")
    <3>1. {<<b, "re">>, <<b, "we">>, <<b, "waitready">>} \subseteq Signals
      BY Groups, Members
    <3> QED
      BY <1>2, <3>1 DEF high, read
  <2> QED
    BY <2>1 DEF OneAccess, Buses
<1>5. Beginning
  <2>1. core_entry \in runnable
    BY <1>1, MethodSet
  <2>2. Unasked
    <3>1. /\ \A k \in Memories : <<k, "re">> \in Signals /\ <<k, "we">> \in Signals
          /\ \A k \in Memories : {<<k, "bre">>, <<k, "bwe">>} \subseteq Signals \ {Clock}
      BY SignalSet, Groups, Members DEF CoreSignals, Wires, Owned
    <3>2. ASSUME NEW k \in Memories PROVE ~high(k, "re") /\ ~high(k, "we")
      BY <1>2, <3>1 DEF high, read
    <3>3. ASSUME NEW k \in Memories PROVE new[<<k, "bre">>] # 1 /\ new[<<k, "bwe">>] # 1
      BY <1>2, <3>1
    <3> QED
      BY <3>2, <3>3 DEF Unasked
  <2>3. Stays(Wires) /\ Stays(CoreSignals)
    BY <1>2, Groups DEF Stays
  <2> QED
    BY <1>1, <1>2, <2>1, <2>2, <2>3 DEF Beginning
<1> QED
  BY <1>3, <1>4, <1>5 DEF Inv

\* Every step keeps the invariant.
LEMMA NextInv ==
    ASSUME OneStorePointer, Inv, [Next]_vars PROVE Inv'
<1>1. CASE UNCHANGED vars
  <2>1. /\ cur' = cur /\ new' = new /\ update_list' = update_list /\ runnable' = runnable
        /\ delta_events' = delta_events /\ next_edge' = next_edge /\ phase' = phase
        /\ mem' = mem /\ rd_cnt' = rd_cnt /\ wr_cnt' = wr_cnt
        /\ program' = program /\ started' = started
    BY <1>1 DEF vars, kernelVars, memoryVars
  <2>2. Ranges' <=> Ranges
    BY <2>1 DEF Ranges, Valued
  <2>3. OneAccess' <=> OneAccess
    BY <2>1 DEF OneAccess, StorePointers, high, read
  <2>4. \A S : Stays(S)' <=> Stays(S)
    BY <2>1 DEF Stays
  <2>5. Moved' <=> Moved
    BY <2>1, SameMoved
  <2>6. \A k \in Memories : /\ Kept(k)' <=> Kept(k)
                            /\ Counted(k)' <=> Counted(k)
                            /\ Served(k)' <=> Served(k)
                            /\ Latched(k)' <=> Latched(k)
    BY <2>1, Same, SameLatched
  <2>7. (Answering' <=> Answering) /\ (Serving' <=> Serving)
    BY <2>1, <2>6 DEF Answering, Serving
  <2>8. \A m : Due(m)' <=> Due(m)
    BY <2>1 DEF Due
  <2>14. Unasked' <=> Unasked
    BY <2>1 DEF Unasked, high, read
  <2>9. Beginning' <=> Beginning
    BY <2>1, <2>4, <2>5, <2>14 DEF Beginning
  <2>10. Settling' <=> Settling
    BY <2>1, <2>4, <2>7, <2>8 DEF Settling
  <2>11. Tick' <=> Tick
    BY <2>1, <2>4, <2>7 DEF Tick
  <2>12. Rise' <=> Rise
    BY <2>1, <2>4, <2>5, <2>6 DEF Rise
  <2>13. Fall' <=> Fall
    BY <2>1, <2>4, <2>7 DEF Fall, Answered, Target, Reads, high, read, address, level
  <2>15. FirstTick' <=> FirstTick
    BY <2>1, <2>8, <2>14 DEF FirstTick
  <2>16. (FedXreg' <=> FedXreg) /\ (FedXram' <=> FedXram) /\ (FedMux' <=> FedMux)
    BY <2>1, SameFed
  <2>17. FirstRise' <=> FirstRise
    BY <2>1, <2>4, <2>5, <2>14, <2>16 DEF FirstRise
  <2> QED
    BY <2>2, <2>3, <2>9, <2>10, <2>11, <2>12, <2>13, <2>15, <2>17 DEF Inv
<1>2. CASE Next
  <2>1. Frame
    BY <1>2 DEF Next, Frame
  <2>2. ASSUME NEW k \in Memories, MemoryEntry(k) PROVE Inv'
    BY <2>1, <2>2, MemoryStep
  <2>3. CASE Core /\ UNCHANGED memoryVars
    BY <2>1, <2>3, CoreStep
  <2>4. CASE Wiring /\ UNCHANGED memoryVars
    BY <2>1, <2>4, SetXramStep, SetXregStep, MuxStep DEF Wiring
  <2>5. CASE Answer /\ UNCHANGED memoryVars
    BY <2>1, <2>5, SetReadyStep DEF Answer
  <2>6. CASE Update /\ UNCHANGED memoryVars
    BY <2>1, <2>6, UpdateStep
  <2>7. CASE Notify /\ UNCHANGED memoryVars
    BY <2>1, <2>7, NotifyStep
  <2>8. CASE TimeStep /\ UNCHANGED memoryVars
    BY <2>1, <2>8, TimeStepStep
  <2> QED
    BY <1>2, <2>2, <2>3, <2>4, <2>5, <2>6, <2>7, <2>8 DEF Next, Kernel
<1> QED
  BY <1>1, <1>2

\* Signals, members of the memories and lists of the scheduler keep their
\* ranges: whatever the programs, the delays and the width of a byte, core_8051,
\* sram, xram and the multiplexer write no value a register could not hold.
THEOREM Typed == Spec => []TypeOK
<1>1. Init => Ranges
  BY InitInv DEF Inv
<1>2. Ranges /\ [Next]_vars => Ranges'
  BY NextRanges
<1>3. Ranges => TypeOK
  BY DEF Ranges, Valued, TypeOK
<1> QED
  BY <1>1, <1>2, <1>3, PTL DEF Spec

\* The stages of a clock cycle follow each other as Inv says: what the core
\* asks for, what a memory has latched, counted and answered, and the wires in
\* between always fit together.
THEOREM Invariance == ASSUME OneStorePointer PROVE Spec => []Inv
<1>1. Init => Inv
  BY InitInv
<1>2. Inv /\ [Next]_vars => Inv'
  BY NextInv
<1> QED
  BY <1>1, <1>2, PTL DEF Spec
-----------------------------------------------------------------------------
(***************************************************************************)
(* The refinement.  What a program sees of the signals v and the memories  *)
(* m: an access counts as done from the moment the core asks for it.       *)
(***************************************************************************)
Sent(v, b, access) == v[<<b, "waitready">>] = 1 /\ v[<<b, access>>] = 1

AccOf(v, m) == CASE Sent(v, "xram", "re") -> m["xrambig"][Aim(v, "xram")]
                 [] Sent(v, "xreg", "re") -> m["xreg"][Aim(v, "xreg")]
                 [] OTHER -> v[<<"core", "ACC">>]

PointersOf(v) == [r \in Pointers |-> v[<<"core", r>>]]

BytesOf(v, m, b) == IF Sent(v, b, "we")
                    THEN [m[MemoryOf(b)] EXCEPT ![Aim(v, b)] = v[<<"core", "ACC">>]]
                    ELSE m[MemoryOf(b)]
DataOf(v, m) == [b \in Buses |-> BytesOf(v, m, b)]

\* These are the accumulator, the registers and the bytes ImplementsAtomicMovx
\* gives to the abstract specification.
LEMMA SeenVars ==
    /\ Atomic!avars = <<AccOf(cur, mem), PointersOf(cur), DataOf(cur, mem)>>
    /\ Atomic!avars' = <<AccOf(cur', mem'), PointersOf(cur'), DataOf(cur', mem')>>
  BY DEF Atomic!avars, AccOf, PointersOf, DataOf, BytesOf, Sent, Aim, Pending, Aimed, high, read

\* The abstract steps in these terms.
LEMMA SeenSteps ==
    /\ /\ AccOf(cur', mem') = (AccOf(cur, mem) + 1) % Range
       /\ PointersOf(cur') = PointersOf(cur) /\ DataOf(cur', mem') = DataOf(cur, mem)
       => Atomic!Compute
    /\ \A r \in Pointers : \A x \in Values :
          /\ PointersOf(cur') = [PointersOf(cur) EXCEPT ![r] = x]
          /\ AccOf(cur', mem') = AccOf(cur, mem) /\ DataOf(cur', mem') = DataOf(cur, mem)
          => Atomic!Point(r)
    /\ \A r \in Pointers :
          /\ AccOf(cur', mem') = DataOf(cur, mem)[BusWith[r]][PointersOf(cur)[r]]
          /\ PointersOf(cur') = PointersOf(cur) /\ DataOf(cur', mem') = DataOf(cur, mem)
          => Atomic!Load(r)
    /\ \A r \in Pointers :
          /\ DataOf(cur', mem') = [DataOf(cur, mem) EXCEPT
                                     ![BusWith[r]][PointersOf(cur)[r]] = AccOf(cur, mem)]
          /\ AccOf(cur', mem') = AccOf(cur, mem) /\ PointersOf(cur') = PointersOf(cur)
          => Atomic!Store(r)
<1>1. /\ Atomic!Compute <=> /\ AccOf(cur', mem') = (AccOf(cur, mem) + 1) % Range
                            /\ PointersOf(cur') = PointersOf(cur)
                            /\ DataOf(cur', mem') = DataOf(cur, mem)
  BY DEF Atomic!Compute, AccOf, PointersOf, DataOf, BytesOf, Sent, Aim, Pending, Aimed, high, read
<1>2. ASSUME NEW r \in Pointers
      PROVE  Atomic!Point(r) <=>
                /\ \E x \in Values : PointersOf(cur') = [PointersOf(cur) EXCEPT ![r] = x]
                /\ AccOf(cur', mem') = AccOf(cur, mem) /\ DataOf(cur', mem') = DataOf(cur, mem)
  BY DEF Atomic!Point, Atomic!Values, Values,
         AccOf, PointersOf, DataOf, BytesOf, Sent, Aim, Pending, Aimed, high, read
<1>3. ASSUME NEW r \in Pointers
      PROVE  Atomic!Load(r) <=>
                /\ AccOf(cur', mem') = DataOf(cur, mem)[BusWith[r]][PointersOf(cur)[r]]
                /\ PointersOf(cur') = PointersOf(cur) /\ DataOf(cur', mem') = DataOf(cur, mem)
  BY DEF Atomic!Load,
         AccOf, PointersOf, DataOf, BytesOf, Sent, Aim, Pending, Aimed, high, read
<1>4. ASSUME NEW r \in Pointers
      PROVE  Atomic!Store(r) <=>
                /\ DataOf(cur', mem') = [DataOf(cur, mem) EXCEPT
                                          ![BusWith[r]][PointersOf(cur)[r]] = AccOf(cur, mem)]
                /\ AccOf(cur', mem') = AccOf(cur, mem) /\ PointersOf(cur') = PointersOf(cur)
  BY DEF Atomic!Store,
         AccOf, PointersOf, DataOf, BytesOf, Sent, Aim, Pending, Aimed, high, read
<1> QED
  BY <1>1, <1>2, <1>3, <1>4

\* Only the signals the core drives matter.
LEMMA SeenSame ==
    ASSUME NEW v, NEW u, NEW m, \A s \in CoreSignals : u[s] = v[s]
    PROVE  /\ AccOf(u, m) = AccOf(v, m) /\ PointersOf(u) = PointersOf(v)
           /\ DataOf(u, m) = DataOf(v, m)
<1>1. /\ \A n \in {"ACC", "xreg_addr_sel", "R0", "R1", "DPTR"} :
             u[<<"core", n>>] = v[<<"core", n>>]
      /\ \A b \in Buses : \A n \in {"re", "we", "waitready"} : u[<<b, n>>] = v[<<b, n>>]
  BY Members
<1>2. Aim(u, "xram") = Aim(v, "xram") /\ Aim(u, "xreg") = Aim(v, "xreg")
  BY <1>1 DEF Aim
<1>3. \A b \in Buses : \A a \in {"re", "we"} : Sent(u, b, a) <=> Sent(v, b, a)
  BY <1>1 DEF Sent
<1>4. \A b \in Buses : BytesOf(u, m, b) = BytesOf(v, m, b)
  BY <1>1, <1>2, <1>3 DEF BytesOf, Buses
<1>5. AccOf(u, m) = AccOf(v, m)
  BY <1>1, <1>2, <1>3 DEF AccOf, Buses
<1>6. PointersOf(u) = PointersOf(v)
  BY <1>1 DEF PointersOf, Pointers, BusWith
<1> QED
  BY <1>4, <1>5, <1>6 DEF DataOf

\* With nothing asked for, a program sees what is there.
LEMMA SeenQuiet ==
    ASSUME NEW v, NEW m, \A b \in Buses : v[<<b, "waitready">>] # 1
    PROVE  /\ AccOf(v, m) = v[<<"core", "ACC">>]
           /\ DataOf(v, m) = [b \in Buses |-> m[MemoryOf(b)]]
  BY DEF AccOf, DataOf, BytesOf, Sent, Buses
\* On an edge that finds no bus stalled, the accumulator and the memories hold
\* what the program sees: an access that was answered is done.
LEMMA SeenClear ==
    ASSUME Ranges, OneAccess, started => Wired(cur) /\ \A k \in Memories : Kept(k),
           \A b \in Buses : ~Stalled(b)
    PROVE  /\ AccOf(cur, mem) = cur[<<"core", "ACC">>]
           /\ DataOf(cur, mem) = [b \in Buses |-> mem[MemoryOf(b)]]
<1>1. ASSUME NEW b \in Buses, high(b, "waitready")
      PROVE  mem[MemoryOf(b)][Aim(cur, b)] = cur[<<"core", "ACC">>]
  <2> DEFINE k == MemoryOf(b)
  <2>1. k \in Memories /\ BusOf(k) = b
    BY DEF MemoryOf, Memories, BusOf, Buses
  <2>2. started
    BY <1>1 DEF OneAccess
  <2>3. high(b, "ready")
    BY <1>1 DEF Stalled
  <2>4. high(k, "ready")
    BY <2>2, <2>3 DEF Wired, WiredMux, high, read, MemoryOf, Buses
  <2>5. Reads(k) \/ Writes(k)
    BY <1>1, <2>1 DEF OneAccess, Reads, Writes
  <2>6. Kept(k)
    BY <2>1, <2>2
  <2>7. Target(k) = read("core", "ACC")
    BY <2>4, <2>5, <2>6 DEF Kept
  <2> QED
    BY <2>1, <2>7 DEF Target, read
<1>2. AccOf(cur, mem) = cur[<<"core", "ACC">>]
  <2>1. Sent(cur, "xram", "re") => mem["xrambig"][Aim(cur, "xram")] = cur[<<"core", "ACC">>]
    BY <1>1 DEF Sent, high, read, Buses, MemoryOf
  <2>2. Sent(cur, "xreg", "re") => mem["xreg"][Aim(cur, "xreg")] = cur[<<"core", "ACC">>]
    BY <1>1 DEF Sent, high, read, Buses, MemoryOf
  <2> QED
    BY <2>1, <2>2 DEF AccOf
<1>3. ASSUME NEW b \in Buses PROVE BytesOf(cur, mem, b) = mem[MemoryOf(b)]
  <2>1. CASE Sent(cur, b, "we")
    <3>1. mem[MemoryOf(b)][Aim(cur, b)] = cur[<<"core", "ACC">>]
      BY <1>1, <2>1 DEF Sent, high, read
    <3>2. mem[MemoryOf(b)] \in [Values -> Values]
      BY DEF Ranges, MemoryOf, Memories, Buses
    <3>3. Aim(cur, b) \in Values
      BY CurTyped
    <3>4. [mem[MemoryOf(b)] EXCEPT ![Aim(cur, b)] = cur[<<"core", "ACC">>]] = mem[MemoryOf(b)]
      BY <3>1, <3>2, <3>3
    <3> QED
      BY <2>1, <3>4 DEF BytesOf
  <2>2. CASE ~Sent(cur, b, "we")
    BY <2>2 DEF BytesOf
  <2> QED
    BY <2>1, <2>2
<1> QED
  BY <1>2, <1>3 DEF DataOf

\* While the core stalls, what the program sees stays: a load already shows
\* the byte the accumulator will take.
LEMMA SeenStall ==
    ASSUME Ranges, OneAccess, StallMoved, cur' = new, mem' = mem
    PROVE  UNCHANGED Atomic!avars
<1>1. PICK b \in Buses : Stalled(b)
  BY DEF StallMoved
<1>2. \A c \in Buses : high(c, "waitready") => c = b
  BY <1>1 DEF OneAccess, Stalled, Buses
<1>3. \A c \in Buses : read(c, "re") \in {0, 1} /\ read(c, "we") \in {0, 1}
  BY CurTyped DEF read
<1>4. \A c \in Buses : /\ high(c, "re") <=> read(c, "re") = 1
                       /\ high(c, "we") <=> read(c, "we") = 1
  BY DEF high
<1>5. /\ high(b, "waitready")
      /\ high(b, "re") \/ high(b, "we")
      /\ ~(high(b, "re") /\ high(b, "we"))
  BY <1>1 DEF Stalled, OneAccess
<1>6. LinesAre(b, read(b, "re"), read(b, "we"))
  BY <1>1 DEF StallMoved
<1>7. \A a \in {"re", "we"} : Sent(cur', b, a) <=> Sent(cur, b, a)
  <2>1. new[<<b, "re">>] = cur[<<b, "re">>] /\ new[<<b, "we">>] = cur[<<b, "we">>]
        /\ new[<<b, "waitready">>] = 1
    BY <1>4, <1>5, <1>6 DEF LinesAre, level, read
  <2>2. cur[<<b, "waitready">>] = 1
    BY <1>5 DEF high, read
  <2> QED
    BY <2>1, <2>2 DEF Sent
<1>8. ASSUME NEW c \in Buses, c # b, NEW a \in {"re", "we"}
      PROVE  ~Sent(cur, c, a) /\ ~Sent(cur', c, a)
  <2>1. ~Stalled(c) /\ ~high(c, "waitready")
    BY <1>2, <1>8 DEF Stalled
  <2>2. LinesAre(c, 0, 0)
    BY <2>1 DEF StallMoved
  <2> QED
    BY <2>1, <2>2 DEF LinesAre, Sent, high, read, level
<1>9. \A n \in {"xreg_addr_sel", "R0", "R1", "DPTR"} : new[<<"core", n>>] = cur[<<"core", n>>]
  BY DEF StallMoved, Stays, Owned
<1>10. Aim(cur', "xram") = Aim(cur, "xram") /\ Aim(cur', "xreg") = Aim(cur, "xreg")
  BY <1>9 DEF Aim
<1>11. ~Sent(cur, b, "re") => cur'[<<"core", "ACC">>] = cur[<<"core", "ACC">>]
  <2>1. ASSUME ~Sent(cur, b, "re"), NEW c \in Buses PROVE ~Loaded(c)
    BY <1>2, <1>5, <2>1 DEF Loaded, Stalled, Sent, high, read
  <2>2. ~Sent(cur, b, "re") => ~Loaded("xram") /\ ~Loaded("xreg")
    BY <2>1 DEF Buses
  <2> QED
    BY <2>2 DEF StallMoved, read
<1>12. AccOf(cur', mem') = AccOf(cur, mem)
  BY <1>7, <1>8, <1>10, <1>11 DEF AccOf, Buses
<1>13. ASSUME NEW c \in Buses PROVE BytesOf(cur', mem', c) = BytesOf(cur, mem, c)
  <2>1. CASE c = b
    <3>1. Sent(cur, b, "we") => ~Sent(cur, b, "re")
      BY <1>5 DEF Sent, high, read
    <3>2. Aim(cur', b) = Aim(cur, b)
      BY <1>10 DEF Buses
    <3> QED
      BY <1>7, <1>11, <2>1, <3>1, <3>2 DEF BytesOf
  <2>2. CASE c # b
    BY <1>8, <2>2 DEF BytesOf
  <2> QED
    BY <2>1, <2>2
<1>14. DataOf(cur', mem') = DataOf(cur, mem)
  BY <1>13 DEF DataOf
<1>15. PointersOf(cur') = PointersOf(cur)
  BY <1>9 DEF PointersOf, Pointers, BusWith
<1> QED
  BY <1>12, <1>14, <1>15, SeenVars
\* The lines of a bus after an edge.
LEMMA LinesSent ==
    ASSUME cur' = new, NEW b, NEW r, NEW w, LinesAre(b, r, w)
    PROVE  /\ cur'[<<b, "waitready">>] = 1 <=> r = 1 \/ w = 1
           /\ Sent(cur', b, "re") <=> r = 1
           /\ Sent(cur', b, "we") <=> w = 1
<1>1. cur'[<<b, "waitready">>] = IF r = 1 \/ w = 1 THEN 1 ELSE 0
  BY DEF LinesAre, level
<1>2. cur'[<<b, "re">>] = r /\ cur'[<<b, "we">>] = w
  BY DEF LinesAre
<1> QED
  BY <1>1, <1>2 DEF Sent

\* The three kinds of step of the core that executes an instruction.
LEMMA SeenPlain ==
    ASSUME Ranges, NEW i \in program, PlainMoved(i), cur' = new, mem' = mem,
           AccOf(cur, mem) = cur[<<"core", "ACC">>],
           DataOf(cur, mem) = [b \in Buses |-> mem[MemoryOf(b)]]
    PROVE  [Atomic!Next]_Atomic!avars
<1>1. \A b \in Buses : cur'[<<b, "waitready">>] # 1
  BY LinesSent DEF PlainMoved
<1>2. /\ AccOf(cur', mem') = cur'[<<"core", "ACC">>]
      /\ DataOf(cur', mem') = [b \in Buses |-> mem'[MemoryOf(b)]]
  BY <1>1, SeenQuiet
<1>3. DataOf(cur', mem') = DataOf(cur, mem)
  BY <1>2
<1>4. cur'[<<"core", "ACC">>] = IF i.op = "INC_A" THEN (cur[<<"core", "ACC">>] + 1) % Range
                                ELSE cur[<<"core", "ACC">>]
  BY DEF PlainMoved, read
<1>5. \A r \in Pointers : cur'[<<"core", r>>] = IF i.op = "MOV" /\ r = i.r THEN i.v
                                                ELSE cur[<<"core", r>>]
  BY DEF PlainMoved, read
<1>6. CASE i.op = "INC_A"
  <2>1. PointersOf(cur') = PointersOf(cur)
    BY <1>5, <1>6 DEF PointersOf
  <2>2. Atomic!Compute
    BY <1>2, <1>3, <1>4, <1>6, <2>1, SeenSteps
  <2> QED
    BY <2>2 DEF Atomic!Next
<1>7. CASE i.op = "NOP"
  <2>1. PointersOf(cur') = PointersOf(cur)
    BY <1>5, <1>7 DEF PointersOf
  <2> QED
    BY <1>2, <1>3, <1>4, <1>7, <2>1, SeenVars
<1>8. CASE i.op = "MOV"
  <2>1. i.r \in Pointers /\ i.v \in Values
    BY <1>8, Instruction
  <2>2. PointersOf(cur') = [PointersOf(cur) EXCEPT ![i.r] = i.v]
    BY <1>5, <1>8, <2>1 DEF PointersOf
  <2>3. AccOf(cur', mem') = AccOf(cur, mem)
    BY <1>2, <1>4, <1>8
  <2>4. Atomic!Point(i.r)
    BY <1>3, <2>1, <2>2, <2>3, SeenSteps
  <2>5. i.r \in Atomic!Pointers
    BY <2>1 DEF Pointers, Atomic!Pointers
  <2> QED
    BY <2>4, <2>5 DEF Atomic!Next
<1> QED
  BY <1>6, <1>7, <1>8 DEF PlainMoved

\* MOVX is one load or one store.
LEMMA SeenMovx ==
    ASSUME Ranges, NEW i \in program, MovxMoved(i), cur' = new, mem' = mem,
           AccOf(cur, mem) = cur[<<"core", "ACC">>],
           DataOf(cur, mem) = [b \in Buses |-> mem[MemoryOf(b)]]
    PROVE  Atomic!Next
<1> DEFINE bus == BusWith[i.r]
<1>1. i.op \in {"load", "store"}
  BY DEF MovxMoved
<1>2. i.r \in Pointers /\ i.r \in Atomic!Pointers
  BY <1>1, Instruction DEF Pointers, Atomic!Pointers
<1>3. bus \in Buses
  BY <1>2 DEF Pointers, BusWith, Buses
<1>4. /\ LinesAre(bus, level(i.op = "load"), level(i.op = "store"))
      /\ \A b \in Buses \ {bus} : LinesAre(b, 0, 0)
  BY <1>3 DEF MovxMoved
<1>5. /\ cur'[<<"core", "xreg_addr_sel">>] = IF bus = "xreg" THEN level(i.r = "R1")
                                            ELSE cur[<<"core", "xreg_addr_sel">>]
      /\ i.op = "store" => cur'[<<"core", "ACC">>] = cur[<<"core", "ACC">>]
      /\ \A r \in Pointers : cur'[<<"core", r>>] = cur[<<"core", r>>]
  BY <1>1 DEF MovxMoved, Stays, Owned, read
<1>6. PointersOf(cur') = PointersOf(cur)
  BY <1>5 DEF PointersOf
<1>7. Aim(cur', bus) = cur[<<"core", i.r>>]
  <2>1. i.r \in {"R0", "R1", "DPTR"}
    BY <1>2 DEF Pointers, BusWith
  <2>2. (i.r = "DPTR" => bus = "xram") /\ (i.r \in {"R0", "R1"} => bus = "xreg")
    BY DEF BusWith
  <2> HIDE DEF bus
  <2>3. {"R0", "R1", "DPTR"} = Pointers
    BY DEF Pointers, BusWith
  <2> QED
    BY <1>5, <2>1, <2>2, <2>3 DEF Aim, level
<1>8. PointersOf(cur)[i.r] = cur[<<"core", i.r>>]
  BY <1>2 DEF PointersOf
<1> HIDE DEF bus
<1>9. ASSUME NEW b \in Buses \ {bus} PROVE ~Sent(cur', b, "re") /\ ~Sent(cur', b, "we")
  <2>1. LinesAre(b, 0, 0)
    BY <1>4
  <2>2. (Sent(cur', b, "re") <=> 0 = 1) /\ (Sent(cur', b, "we") <=> 0 = 1)
    BY <2>1, LinesSent, Zenon
  <2> QED
    BY <2>2
<1>10. /\ Sent(cur', bus, "re") <=> i.op = "load"
       /\ Sent(cur', bus, "we") <=> i.op = "store"
  BY <1>1, <1>4 DEF LinesAre, Sent, level
<1>11. \A b \in Buses \ {bus} : BytesOf(cur', mem', b) = mem[MemoryOf(b)]
  BY <1>9 DEF BytesOf
<1>12. CASE i.op = "load"
  <2>1. AccOf(cur', mem') = mem[MemoryOf(bus)][Aim(cur', bus)]
    BY <1>3, <1>9, <1>10, <1>12 DEF AccOf, Buses, MemoryOf
  <2>2. BytesOf(cur', mem', bus) = mem[MemoryOf(bus)]
    BY <1>10, <1>12 DEF BytesOf
  <2>3. DataOf(cur', mem') = DataOf(cur, mem)
    BY <1>11, <2>2 DEF DataOf
  <2>4. DataOf(cur, mem)[bus] = mem[MemoryOf(bus)]
    BY <1>3
  <2>5. Atomic!Load(i.r)
    BY <1>2, <1>6, <1>7, <1>8, <2>1, <2>3, <2>4, SeenSteps DEF bus
  <2> QED
    BY <1>2, <2>5 DEF Atomic!Next
<1>13. CASE i.op = "store"
  <2> DEFINE a == cur[<<"core", i.r>>]
             x == cur[<<"core", "ACC">>]
  <2>1. AccOf(cur', mem') = AccOf(cur, mem)
    <3>1. ~Sent(cur', "xram", "re") /\ ~Sent(cur', "xreg", "re")
      BY <1>9, <1>10, <1>13 DEF Buses
    <3> QED
      BY <1>5, <1>13, <3>1 DEF AccOf
  <2>2. BytesOf(cur', mem', bus) = [mem[MemoryOf(bus)] EXCEPT ![a] = x]
    BY <1>5, <1>7, <1>10, <1>13 DEF BytesOf
  <2>3. DataOf(cur', mem') = [DataOf(cur, mem) EXCEPT ![bus] = [mem[MemoryOf(bus)] EXCEPT ![a] = x]]
    <3> HIDE DEF a, x
    <3> DEFINE stored == [mem[MemoryOf(bus)] EXCEPT ![a] = x]
    <3>1. DataOf(cur', mem') = [b \in Buses |-> IF b = bus THEN stored ELSE mem[MemoryOf(b)]]
      BY <1>11, <2>2 DEF DataOf
    <3> HIDE DEF stored
    <3>2. [DataOf(cur, mem) EXCEPT ![bus] = stored]
            = [b \in Buses |-> IF b = bus THEN stored ELSE mem[MemoryOf(b)]]
      OBVIOUS
    <3> QED
      BY <3>1, <3>2 DEF stored
  <2>4. DataOf(cur, mem)[bus] = mem[MemoryOf(bus)]
    BY <1>3
  <2>5. DataOf(cur', mem') = [DataOf(cur, mem) EXCEPT ![bus][a] = x]
    BY <2>3, <2>4
  <2>6. Atomic!Store(i.r)
    BY <1>2, <1>6, <1>8, <2>1, <2>5, SeenSteps DEF bus
  <2> QED
    BY <1>2, <2>6 DEF Atomic!Next
<1> QED
  BY <1>1, <1>12, <1>13
\* The core's step on an edge, as its update makes it visible.
LEMMA SeenMoved ==
    ASSUME Ranges, OneAccess, started => Wired(cur) /\ \A k \in Memories : Kept(k),
           Moved, cur' = new, mem' = mem
    PROVE  [Atomic!Next]_Atomic!avars
<1>1. CASE StallMoved
  BY <1>1, SeenStall
<1>2. CASE /\ \A b \in Buses : ~Stalled(b)
           /\ \E i \in program : PlainMoved(i) \/ MovxMoved(i)
  <2>1. /\ AccOf(cur, mem) = cur[<<"core", "ACC">>]
        /\ DataOf(cur, mem) = [b \in Buses |-> mem[MemoryOf(b)]]
    BY <1>2, SeenClear
  <2>2. PICK i \in program : PlainMoved(i) \/ MovxMoved(i)
    BY <1>2
  <2> QED
    BY <2>1, <2>2, SeenPlain, SeenMovx
<1> QED
  BY <1>1, <1>2 DEF Moved

\* A memory stores what the program already saw stored.
LEMMA SeenStored ==
    ASSUME Ranges, OneAccess, Wired(cur) \/ Unasked, NEW k \in Memories, MemoryEntry(k),
           cur' = cur
    PROVE  UNCHANGED Atomic!avars
<1> DEFINE b == BusOf(k)
           a == Aim(cur, b)
           x == cur[<<"core", "ACC">>]
<1>1. /\ mem'[k] = IF Stores(k) THEN [mem[k] EXCEPT ![address(k)] = read(BusOf(k), "wr_data")]
                   ELSE mem[k]
      /\ \A j \in Memories \ {k} : mem'[j] = mem[j]
  BY MemoryTyped
<1>2. b \in Buses /\ MemoryOf(b) = k /\ \A c \in Buses \ {b} : MemoryOf(c) \in Memories \ {k}
  BY DEF BusOf, Buses, MemoryOf, Memories
<1>3. Wired(cur) => address(k) = a /\ read(b, "wr_data") = x
  BY <1>2 DEF Wired, WiredXreg, WiredXram, Buses, address, read
<1> HIDE DEF b, a, x
<1>4. CASE ~Stores(k)
  <2>1. \A c \in Buses : mem'[MemoryOf(c)] = mem[MemoryOf(c)]
    BY <1>1, <1>2, <1>4
  <2>2. \A c \in Buses : BytesOf(cur', mem', c) = BytesOf(cur, mem, c)
    BY <2>1 DEF BytesOf
  <2>3. mem'["xreg"] = mem["xreg"] /\ mem'["xrambig"] = mem["xrambig"]
    BY <1>1, <1>4 DEF Memories
  <2>4. AccOf(cur', mem') = AccOf(cur, mem)
    BY <2>3 DEF AccOf
  <2> QED
    BY <2>2, <2>4, SeenVars DEF DataOf, PointersOf
<1>5. CASE Stores(k)
  <2>1. high(k, "we") /\ Wired(cur)
    BY <1>5 DEF Stores, Unasked
  <2>2. high(b, "we")
    BY <2>1 DEF Wired, WiredMux, high, read, b, BusOf, Memories
  <2>3. high(b, "waitready") /\ ~high(b, "re")
    BY <1>2, <2>2 DEF OneAccess
  <2>4. Sent(cur, b, "we") /\ ~Sent(cur, b, "re")
    BY <2>2, <2>3 DEF Sent, high, read
  <2>5. \A c \in Buses \ {b} : ~Sent(cur, c, "re") /\ ~Sent(cur, c, "we")
    BY <1>2, <2>3 DEF OneAccess, Sent, high, read, Buses
  <2>6. mem[k] \in [Values -> Values] /\ a \in Values
    BY <1>2, CurTyped DEF Ranges, a
  <2>7. mem'[k] = [mem[k] EXCEPT ![a] = x]
    BY <1>1, <1>3, <1>5, <2>1 DEF b
  <2>8. [mem'[k] EXCEPT ![a] = x] = mem'[k]
    BY <2>6, <2>7
  <2>9. ASSUME NEW c \in Buses PROVE BytesOf(cur', mem', c) = BytesOf(cur, mem, c)
    <3>1. CASE c = b
      BY <1>2, <2>4, <2>7, <2>8, <3>1 DEF BytesOf, a, x
    <3>2. CASE c # b
      BY <1>1, <1>2, <2>5, <3>2 DEF BytesOf
    <3> QED
      BY <3>1, <3>2
  <2>10. ~Sent(cur, "xram", "re") /\ ~Sent(cur, "xreg", "re")
    BY <2>4, <2>5 DEF Buses
  <2>11. AccOf(cur', mem') = AccOf(cur, mem)
    BY <2>10 DEF AccOf
  <2> QED
    BY <2>9, <2>11, SeenVars DEF DataOf, PointersOf
<1> QED
  BY <1>4, <1>5
\* An update shows the program one step of its own, or none.
LEMMA SeenUpdate ==
    ASSUME Inv, Update, UNCHANGED memoryVars, Frame
    PROVE  [Atomic!Next]_Atomic!avars
<1>1. runnable = {} /\ cur' = new /\ mem' = mem
  BY Updated DEF Inv, memoryVars
<1>2. Ranges /\ OneAccess
  BY DEF Inv
<1>3. ASSUME Stays(CoreSignals) PROVE UNCHANGED Atomic!avars
  <2>1. \A s \in CoreSignals : cur'[s] = cur[s]
    BY <1>1, <1>3 DEF Stays
  <2> QED
    BY <1>1, <2>1, SeenSame, SeenVars
<1>4. CASE Beginning \/ FirstRise
  <2>1. Moved /\ ~started
    BY <1>1, <1>4 DEF Beginning, FirstRise
  <2> QED
    BY <1>1, <1>2, <2>1, SeenMoved
<1>5. CASE Settling \/ Tick \/ Fall
  <2>1. Stays(Signals \ Wires) \/ Stays(Signals \ {Clock}) \/ Stays(Signals) \/
        Stays(Signals \ (Answers("xreg") \cup Answers("xrambig")))
    BY <1>5 DEF Settling, Tick, Fall, Stays
  <2>2. Stays(CoreSignals)
    BY <2>1, Groups, Members DEF Stays
  <2> QED
    BY <1>3, <2>2
<1>6. CASE Rise
  <2>1. Wired(cur) /\ Moved /\ \A k \in Memories : started => Kept(k)
    BY <1>1, <1>6 DEF Rise
  <2> QED
    BY <1>1, <1>2, <2>1, SeenMoved
<1> QED
  BY <1>1, <1>4, <1>5, <1>6, Updated DEF Inv, FirstTick

\* Every step is a step of the abstract specification or leaves it alone.
LEMMA SeenNext ==
    ASSUME Inv, [Next]_vars PROVE [Atomic!Next]_Atomic!avars
<1>1. Ranges /\ OneAccess
  BY DEF Inv
<1>2. ASSUME cur' = cur, mem' = mem PROVE UNCHANGED Atomic!avars
  BY <1>2, SeenVars
<1>3. CASE UNCHANGED vars
  BY <1>2, <1>3 DEF vars, kernelVars, memoryVars
<1>4. ASSUME NEW k \in Memories, MemoryEntry(k) PROVE UNCHANGED Atomic!avars
  <2>1. entry(k) \in runnable /\ phase = "evaluate" /\ cur' = cur
    BY <1>1, <1>4, Written DEF MemoryEntry
  <2>2. entry(k) \notin WiringMethods /\ \A j \in Memories : set_ready(j) # entry(k)
    BY DEF WiringMethods, set_xreg, set_xram, mux_xram, set_ready, entry, Memories
  <2>3. Beginning \/ FirstRise \/ Rise
    BY <2>1, <2>2 DEF Inv, FirstTick, Settling, Tick, Fall, WiringMethods
  <2>4. Wired(cur) \/ Unasked
    BY <2>3 DEF Beginning, FirstRise, Rise
  <2> QED
    BY <1>1, <1>4, <2>1, <2>4, SeenStored
<1>5. CASE Next
  <2>1. Frame
    BY <1>5 DEF Next, Frame
  <2>2. CASE UNCHANGED memoryVars /\ (Core \/ Wiring \/ Answer \/ Notify \/ TimeStep)
    <3>1. cur' = cur /\ mem' = mem
      BY <2>2 DEF memoryVars, Core, Stall, Execute, MOVX, Plain, Wiring, SetXram, SetXreg, MuxXram,
                  Answer, SetReady, Evaluate, write, Notify, TimeStep
    <3> QED
      BY <1>2, <3>1
  <2>3. CASE UNCHANGED memoryVars /\ Update
    BY <2>1, <2>3, SeenUpdate
  <2> QED
    BY <1>4, <1>5, <2>2, <2>3 DEF Next, Kernel
<1> QED
  BY <1>3, <1>5

\* The abstract specification begins where the design does.
LEMMA SeenInit == Init => Atomic!Init
<1> SUFFICES ASSUME Init PROVE Atomic!Init
  OBVIOUS
<1>1. /\ cur = [s \in Signals |-> 0] /\ mem \in [Memories -> [Values -> Values]]
  BY DEF Init, KernelInit
<1>2. /\ \A n \in {"ACC", "xreg_addr_sel", "R0", "R1", "DPTR"} : cur[<<"core", n>>] = 0
      /\ \A b \in Buses : cur[<<b, "waitready">>] = 0
  BY <1>1, Groups, Members
<1>3. /\ AccOf(cur, mem) = 0
      /\ DataOf(cur, mem) = [b \in Buses |-> mem[MemoryOf(b)]]
  BY <1>2, SeenQuiet
<1>4. \A r \in Pointers : cur[<<"core", r>>] \in Values
  BY <1>2, Bits DEF Pointers, BusWith
<1>5. PointersOf(cur) \in [Pointers -> Values]
  BY <1>4 DEF PointersOf
<1>6. {BusWith[r] : r \in Pointers} = Buses
  <2>1. Pointers = {"R0", "R1", "DPTR"}
    BY DEF Pointers, BusWith
  <2>2. BusWith["R0"] = "xreg" /\ BusWith["R1"] = "xreg" /\ BusWith["DPTR"] = "xram"
    BY DEF BusWith
  <2> QED
    BY <2>1, <2>2 DEF Buses
<1>7. DataOf(cur, mem) \in [Buses -> [Values -> Values]]
  BY <1>1, <1>3 DEF MemoryOf, Memories, Buses
<1>8. Atomic!Init <=> /\ AccOf(cur, mem) = 0 /\ PointersOf(cur) \in [Pointers -> Values]
                      /\ DataOf(cur, mem) \in [{BusWith[r] : r \in Pointers} -> [Values -> Values]]
  BY DEF Atomic!Init, Atomic!Values, Atomic!Pointers, Pointers, Values,
         AccOf, PointersOf, DataOf, BytesOf, Sent, Aim, Pending, Aimed, high, read
<1> QED
  BY <1>3, <1>5, <1>6, <1>7, <1>8

\* MOVX is atomic: for every program, every delay of either memory and every
\* width of a byte, with the methods of an edge in any order, a load gives the
\* byte last stored at its address and a store changes that byte and no other.
\* The one exception is the finding of the run movx_stale: a program that
\* stores through R0 and R1, on a memory without delay.
THEOREM Atomicity == ASSUME OneStorePointer PROVE Spec => ImplementsAtomicMovx
<1>1. Init => Atomic!Init
  BY SeenInit
<1>2. Inv /\ [Next]_vars => [Atomic!Next]_Atomic!avars
  BY SeenNext
<1> QED
  BY Invariance, <1>1, <1>2, PTL DEF Spec, ImplementsAtomicMovx, Atomic!Spec

=============================================================================
