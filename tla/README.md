# A formal model of the ECC accelerator and its 8051 co-simulation

The repository is a hardware/software co-design of elliptic-curve scalar
multiplication over GF(2^8): a SystemC accelerator (`src/src/8051/ecc.h`, and a
copy with a test bench in `src/src/multiplier.cpp`), a software golden model
(`src/src/sw_sim/ecc.cpp`), and an 8051 instruction set simulator that runs a small
program (`src/src/8051/io_port.c`) which feeds the accelerator over its ports.

This directory holds TLA+ modules of the accelerator, clock edge by clock edge,
the TLC configurations that check them on small instances, and proofs about them
that TLAPS checks. All paths below are relative to the repository's root as
`PROJECT.json` gives them (`src/src/...`).

## 1. Inventory

The accelerator is a tower of units. Each has a clock, an active-low `rst_n`,
and, except for the innermost, a `start`/`finish` handshake with the unit above.

| Component | State it keeps | Operations | Talks to |
|---|---|---|---|
| `PE` (x8) | `w4`, one bit of the accumulator | `calc`, `update` | its neighbour (`m_pre`) and `MULT` |
| `MULT` | `state`, `counter`, latched `b0..b7`, `p0..p7` | `fsm`, `done`, `count`, `calc` | `CORE` |
| `CORE` | `state`, `cnt_a`, `cnt_mult`, `add_input_2nd`, `mult_clean`, `c`, `sqr`, `out`, `finish`, `newstart` | `fsm`, `count`, `done`, `done_start`, `proc`; modes add, mul, inv | `PN`, `PD`, `PA` |
| `PN` | none of its own | `comb` (y := x + y) | `PD`, `PA` |
| `PD` | `state` 0..11, ten result registers | `fsm`, `equal`, `sequ`, `comb` | `PA`, `SCALAR_MULT`; owns a `CORE` and a `PN` |
| `PA` | `state` 0..16, thirteen result registers | `fsm`, `equal`, `sequ`, `comb` | `SCALAR_MULT`; owns a `CORE`, a `PN`, a `PD` |
| `SCALAR_MULT` | `state`, `cnt` (signed 8 bits), `A`, `R`, `P_o`, `finish` | `fsm`, `count`, `done`, `sequ`, `comb` | `ECC`; owns a `PA` and a `PD` |
| `ECC` | `state`, `read_cnt`, `write_cnt`, the `sm_*` operands, `P_o_r`, `result`, `valid` | `fsm`, `counter`, `read_data`, `sm_out`, `write_data`, `output` | ports P0..P3 of the 8051 |
| firmware `io_port.c` | its program counter | writes P0 = 1 and six bytes to P1 | `ECC`, over ports |
| `ECC_mon` | `cnt` | `monitor`; calls `sc_stop` | reads the four ports |
| golden model `sw_sim/ecc.cpp` | local variables | field and point arithmetic, scalar multiplication, key exchange | the reference for all of the above |
| test benches of `multiplier.cpp` | their program counter | reset and request sequences | every unit, stand-alone |
| `simulation.py` | local variables | reductions, inversion by an addition chain, scalar multiplication with one inversion | a study for wider fields |
| 8051 core `core_8051.cpp` | registers, flags, RAM, PC, interrupt state | one instruction per clock; timers, interrupts, idle mode, wait states | ports, memories |
| memories `sram`, `xram`; multiplexer `top` | contents, wait counters, latched lines, `ready` | read, write, count | the 8051 core |
| SystemC scheduler | runnable methods, signals to update, pending events | evaluate, update, notify, advance time | runs every method above |

What is hard in this code:

* **Two counters that never communicate.** `CORE.count` chooses the operand bit fed
  to the array and `MULT.count` counts the rounds. They are restarted by different
  events, and the width appears in them as the unrelated literals 7 and 12.
* **An accumulator that never stops.** The PE row computes in every cycle, also
  after the product is ready; only `mult_clean`, a register of `CORE`, keeps one
  multiplication from adding to the residue of the last.
* **Registers sampled on every edge.** `sequ` of `PD` and `PA` copies `core_out`
  into a register whether or not the operation has finished, while the same
  registers drive the operand lines.
* **A request nobody waits for.** `PA` starts its negation unit with every request
  but looks at its answer on one path only.
* **An incomplete sensitivity list.** `SCALAR_MULT.comb` does not react to `start`,
  `n` and `P`, so in state 0 the units below may or may not see a request that
  `fsm`, `count` and `sequ` see.
* **No handshake on the ports.** ECC reads one byte in each of six consecutive
  clocks, the firmware writes one per clock, and P0 is a level nobody clears.
* **Resets** at any time, over registers some of which have no reset branch.
* **Interrupts** nested by priority, with one return register per priority instead of
  a stack, and timers that write the same register as the instruction of the edge.
* **Everything inside a clock edge.** Core, memories and multiplexer of an external
  access are methods that SystemC may run in any order, with values that pass
  from one to the next over several delta cycles, on both edges of the clock, and
  latches that still hold the access before.
* **Flags put together by hand** from three slices of a byte, ports that are a latch
  and a set of pins, and a stack shared by calls, pushes and interrupts.

`PROJECT.json` lists the hazards one by one, each at its line, with the properties
that would catch it.

What makes each component correct, in a sentence: `CORE` returns the golden model's
sum, product or inverse a fixed number of edges after a request, whatever ran or was
aborted before; `PD` and `PA` keep the operands of `CORE` stable and return the
golden model's point; `SCALAR_MULT` keeps the double-and-add invariant and never
uses `PA` and `PD` at once; `ECC` assembles the frame that was sent, asks
`SCALAR_MULT` only when it can hear, and sends the bytes of the right result; the
demonstration prints the frame and its answer, and ends. In the 8051: service
routines nest and are served; a `MOVX` is one atomic load or store to the program;
programs compute what arithmetic says, whatever interrupts them.

## 2. Modules and how they correspond to the code

```
 GF2m -- FieldUnit -- Core ------ MCCore                      (refines UnitSpec)
   |         |
   |         +------- PointUnit - PointDouble - MCPointDouble (refines UnitSpec)
   +- PointArith ---------'  '--- PointAdd ---- MCPointAdd    (refines UnitSpec)
          '-- Study ---.     '-------------.
 UnitSpec, Handshake   '-- ScalarMult - GoldenScalarMult - MCScalarMult
                                                              (refines Handshake)

 IoPort - EccPort - EccMonitor - MCEccMonitor                 (uses Handshake)

 NestedCalls            Interrupts - MCInterrupts             (refines NestedCalls)
 AtomicMovx   SystemC - Movx - MCMovx                         (refines AtomicMovx)
 Alu - Core8051 --------- MCCore8051           (its firmware run refines IoPort)
 IoPortImage ------------'

 Proofs:  FieldProofs  extends PointUnit (and so GF2m, FieldUnit, PointArith)
          CoreProofs   extends Core, FieldProofs
          PointDoubleProofs, PointAddProofs   extend the unit, FieldProofs
          ScalarMultProofs  extends GoldenScalarMult (and so ScalarMult)
          EccPortProofs     extends EccMonitor (and so EccPort)
          CpuProofs         extends Interrupts, Alu
          MovxProofs        extends Movx
```

Conventions used throughout:

* **One step is one clock edge.** The clocked SystemC methods all read the values
  from before the edge, so a step is their conjunction (`Clocked`, or the list of
  methods in `Posedge`). Combinational methods settle between edges and are
  operators with the name of the signal. Methods are also sensitive to `rst_n`:
  `Reset` and `Release` run them with the new value of `rst_n`.
* **A registered unit below is used by its contract.** `UnitSpec` is the handshake
  with a fixed latency, `Handshake` the same without one. The real unit is shown to
  implement the contract (`ImplementsUnit`, `ImplementsHandshake`), and the unit above
  is composed with the contract's `Edge` in its place. Each contract is `Safety`
  (what a step may do), which is proved of the units, and `Answers` (that an answer
  comes), which TLC checks with it. So `Core` is a proof
  obligation of `PointDouble`, which is one of `PointAdd`, which is one of
  `ScalarMult`, which is one of `EccPort`. Each contract also carries the client's
  duty (operands stay from the request to the finish cycle); it is checked of each
  client as `OperandsStable` or `UnitsUsedProperly`, and assumed in the environment
  of each unit as `ClientHolds`.
* **Field elements are sets of exponents**, so that GF(2^M) is parameterised by M
  and exclusive-or is the symmetric difference.
* Operators named `Fault_*` are seeded faults: plausible wrong versions of the
  definition that follows them. They are used by no specification; they are put in
  the place of the definition to confirm that a property notices.

| Module | Code | State and actions |
|---|---|---|
| `GF2m` | `addition`, `multiplication`, `inverse` of the golden model | operators; `Mul` as the recursive function the C++ loop computes; `FieldProduct` and `IsInverse` are independent definitions for the properties |
| `FieldUnit` | the contract of `CORE` | `CoreResult`, `CoreLatency` |
| `Core` | `CORE`, `MULT`, `PE` | all registers are variables; `CORE_fsm`, `CORE_count`, `CORE_done`, `CORE_done_start`, `MULT_fsm`, `MULT_count`, `MULT_latch`, `PE_update` are the methods |
| `UnitSpec`, `Handshake` | the `start`/`finish` protocol of all units | abstract specifications |
| `PointArith` | `equal`, `point_negation`, `point_doubling`, `point_addition`, `scalar_multiplication` of the golden model | operators, and the group law for the properties |
| `PointUnit` | `PN`; the operation lists of `PD` and `PA` (`comb`, one entry per state) | `PdProgram`, `PaProgram`, what the units really return (`PdResult`, `PaResult`) and when |
| `PointDouble`, `PointAdd` | `PD`, `PA` | `fsm`, `sequ`, and the signals of `comb`; `reg` is the register file as one function |
| `ScalarMult` | `SCALAR_MULT` | `fsm`, `count`, `done`, `sequ`; `seen` says whether `comb` has run since `start` rose |
| `GoldenScalarMult` | `SCALAR_MULT` beside `scalar_multiplication` | no state of its own: that the two agree, and what that supposes of the golden model |
| `IoPort` | `io_port.c` | the firmware as its port writes |
| `EccPort` | `ECC`, the reset of `top` | the six methods of `ECC`, composed with `IoPort` |
| `EccMonitor` | `ECC_mon`, end of `sc_main` | `monitor`; ends when `sc_stop` is called |
| `Interrupts` | `entry`, `check_interrupt`, `set_interrupt`, `extintr`, `timer` and `write_SFR` of `core_8051` | what one edge does: `Stall`, `Take`, `Sleep`, or an instruction (`Plain`, `Write...`, `Reti`), each with `SetInterrupt` for the lines of that edge |
| `NestedCalls` | what two interrupt priorities promise | abstract specification: a stack of return addresses of depth two |
| `SystemC` | scheduler, signals and clock of the SystemC library, as far as this design uses them | `Evaluate` one method, `Update`, `Notify`, `TimeStep` |
| `Movx` | `MOVX` and the wait states of `core_8051`, `set_xram`, `set_xreg`, `mux_xram`, `sram`, `xram` | one action per method, run by `SystemC` |
| `AtomicMovx` | what `MOVX` promises | abstract specification: a load and a store in one step |
| `Alu` | `add`, `sub`, `da` | operators, slice by slice as in the C++ |
| `Core8051` | all instructions but `MOVX`; direct, bit and indirect addressing, `read_SFR`, `write_SFR`, calls | `Execute` is one instruction; `Interrupt` an entry |
| `IoPortImage` | `io_port.t` | the 312 bytes the simulator loads |
| `Study` | `simulation.py` | operators: reductions, `inverse_Itoh`, `scalar_multiple_projective` |

Points worth knowing when reading them next to the code:

* `pn_P` of `PD` and `PA` is bound to the negation unit but never written. The model
  has it as what it is, the all-zero vector (`pn_P == Origin`), so both units test
  "is P the zero vector" where the comments say "is P its own negative".
* While `core_start` is low the operand lines of `PD`/`PA` keep their last value. No
  unit looks at them then and the model uses one value, `Idle`.
* `SCALAR_MULT.comb` misses a start in state 0 unless `a`, `p`, `A`, `R` or `state`
  changes in the same cycle; `seen` is chosen freely, and both outcomes are checked.
* After `main` the firmware jumps to itself and P0 stays 1, so `ECC` begins a second
  computation on six copies of the last byte. `FrameReceived` states this of the
  repetition too, and `Report` that the demonstration never shows it.
* In `Interrupts` the program is arbitrary: any instruction may be next, and a
  register it writes takes any value, except for three assumptions, each stated at its
  action: RETI ends a routine and serves for nothing else, `IP` is written and the core
  put to sleep only outside routines. `IE` stands for the enabled sources while EA is
  set, the bits of TCON for `flag` and `running`; TCON's edge bits only invert the
  lines, which are arbitrary anyway.
* An instruction that writes TCON or a timer does so after `set_interrupt` on the same
  edge. Its value stays, and a request that arose on that edge is lost (`WriteTCON`).
* `Core8051` and `Interrupts` are two views of one method, `entry`. `Interrupts` has
  the exact conditions under which a request is taken and an arbitrary program;
  `Core8051` has the program and lets a request come between any two instructions, which
  includes whatever `Interrupts` allows. Registers R0 to R7 are apart from the RAM,
  as in the code; RETI returns through a register and not through the stack.
* Some ways in which this 8051 is not the usual one are in `Core8051` as they are in the
  code: `read_SFR` knows no `8F` and `9F` (it tests `8E` and `9E` twice), `JBC` tests
  the pins of a port and clears its latch, `CJNE` sets AC and OV as SUBB does,
  and `A5` is a no-operation of four bytes. The stack pointer starts at 0, because
  nothing drives `reset`.
* The delta cycles of an edge are steps of `Movx`; `Atomic` maps them to
  `AtomicMovx` by taking a store that is on its way as done and a load that waits as
  answered by what is in the memory.
* `MOVX` may not be among the first two instructions (`started`): every method runs
  once at time 0 and, of the first rising edge, again in the next delta cycle, so no
  falling edge, on which a memory answers, lies between those two. The start-up code of
  every compiled program comes first.
* The clock starts at time 0: `sc_clock` notifies its first rise as a delta event, which
  `prepare_to_simulate` triggers with every other method already queued. So `KernelInit`
  starts with that rise written, and the methods of the first edge run together with
  those that the first changes wake.
* The reset branch of `ECC_mon` cannot run in the co-simulation: its `rst_n` is a
  signal of `sc_main` that nothing lowers.

## 3. Runs

Passing runs:

| Run | Question | Bounds |
|---|---|---|
| `core` | `CORE` never adds to a residue, its counters agree, and it keeps its contract (`FieldCorrect`, `ImplementsUnit`) | M = 8, eleven operands, its polynomial 27, every mode, back to back, resets anywhere |
| `pd_gf8` | `PD` computes the golden doubling, keeps `CORE`'s operands, keeps its contract | M = 3, every point of a curve and three degenerate vectors, one reset |
| `pa_gf8` | `PA` likewise, and the negation unit is at rest when the next request comes (`NoStaleNegation`) | M = 3, 16 requests: every doubling, every addition to one of the points, opposite points, infinities, the zero vector; back to back, one reset |
| `scalar_mult` | double-and-add invariant, proper use of `PA` and `PD`, the contract `ECC` relies on, agreement with the golden model and with the study | 8-bit scalars 1..127 over the cyclic group of order 257; on what `PA` and `PD` return, every scalar below the order of each point of a curve of 14 points in GF(8); unit latencies 2 and 3, resets anywhere; `GroupsFit`: both groups have what the proofs about the unit suppose |
| `demo` | framing, rendezvous of `ECC` with `SCALAR_MULT`, bytes of the answer, stability of its operands, every frame answered; what the demonstration prints, and that it ends | four byte values, the frames of `SomeFrames`, with and without the monitor, any boot time and any computation time |
| `interrupts` | service routines nest (`RoutinesNest`), a foremost request is served again and again (`ForemostServed`), a timer wakes a sleeping program (`Wakes`) | an external line and a timer of equal or higher priority, a period of three edges, every program |
| `movx` | each `MOVX` is one atomic step (`ImplementsAtomicMovx`), and no access hangs (`AccessesEnd`) | two addresses, one-bit bytes, delays 0 (`xreg`) and 2 (`xrambig`) of `top.h`, every program over three instruction sets, every order of methods |
| `cpu` | nine programs compute what arithmetic says (`ProgramsCompute`), returns match calls, every program ends; the compiled firmware is `IoPort` (`FirmwareSendsFrame`) | the real byte width, the pins of `ProgramPins`, one interrupt between any two instructions, 80 bytes of RAM |

Runs that show a disagreement (`findings` in `PROJECT.json`):

* `pa_opposite` -- adding a point to its negative: the comments of `PA.fsm`
  (`calculate Q_neg`, `P_o.is_inf = true`) and the golden model answer infinity;
  the unit does not, because `pn_P` is never written (`src/src/8051/ecc.h:1413`, and
  in `PD` at `:939`). `GoldenAddition` and `GoldenDoubling` hold on all other operands.
* `sm_top_bit` -- the loop ends when `cnt` is 1 *or 2*, so a scalar that begins 1 0 in
  binary loses its top bit: 22 P comes out as 6 P (the golden model's key exchange
  uses 22). The contract `ImplementsHandshake` says
  exactly what the unit returns for every scalar (`SmResult`).
* `sm_never_ends` -- `cnt` is signed: a scalar with its eighth bit set shifts to -1
  and the loop never ends (nor does it for 0).
* `movx_stale` -- `sram::set_ready` (`src/src/8051/sram.cpp:84`) answers a write as soon
  as the latched `bwe` is set, also when `bwe` is that of the store before. Store through
  R0, store through R1, load through R1: the load returns the old byte. `movx` shows
  that nothing else goes wrong: a program that stores through one register on
  `xreg`, or uses `DPTR`, sees atomic accesses.

The model was also compared with the compiled SystemC: 59 P = (0, 163, 247) in 2102
cycles for the demonstration's operands, 22 P = 6 P, P for n = 1, and no end for
n = 0, 128 and 200.

### Why the bounds are enough

The units are data-oblivious: apart from the degenerate-operand tests, no path
depends on an operand's value. A product is linear in each operand, the registers of
`CORE` are exclusive-ors of operand bits, and every operand is a sum of single bits; so
zero and the single bits, in all pairs, decide additions and multiplications at M = 8. For
inversion, which is not linear, they are samples beside 202 and 170, the
operands of the demonstration; `FieldCorrect` compares it with an independent definition.

`MaxResets = 1` bounds only how often `rst_n` falls in `PD` and `PA`: a reset puts
every register with a reset branch into the state `Init` describes, so a second one adds
only other contents of registers that are written before they are read. `Core` and
`ScalarMult` need no such bound. A curve over GF(8) has every kind of pair: generic, equal,
opposite, of order two, infinity on either side (with two encodings, as the code does
not normalise them). For `PA` all 49 pairs with resets are beyond a run of five minutes; the
requests of `pa_gf8` take every path of its state machine.

The cyclic group is larger than any multiple formed, so two different multiples are never
confused; 8-bit scalars are the real width. The curve adds what the group abstracts:
what `PA` and `PD` really return. `AgreesWithStudy` stops below the order less one,
where the study divides by a zero and returns P for -P. The reductions of
the study are checked at their own widths, 163 and 167, on every power of x (they are
linear), and the addition chains on their exponents, as assumptions of `MCScalarMult`
that TLC evaluates in that run.

In `EccPort` the data are only moved, never computed with, so four byte values suffice
to tell the six positions apart, and `Mix` makes each part of the answer depend on
several operands. `sc_main` stops after 3000 cycles (`src/src/8051/8051_iss.cpp:6` and `:78`),
more than the 2102 the demonstration needs. That budget is not modelled: `Ends` says that
the monitor comes to its own end, in unbounded time.

Two sources suffice in `Interrupts` for each of the decisions of `check_interrupt` (order
among equals, a higher priority over the order, a routine interrupted by another or
not), two program addresses for a return to the wrong one, and the reload value 2 is
the smallest with which a timer can be caught between two requests.

In `Movx` two addresses tell the right byte from a wrong one and one-bit bytes the new
one from the old; delay 2 is that of the built memory and has a state of the
counter between its ends. The program is any sequence over its instruction set, so the
three sets of `SomePrograms` are enough to have moving pointers, both memories at
once, and loads through one register behind stores through the other.

In `Core8051` nothing is scaled down but the RAM, of which the programs use the first 64
bytes. Between them the nine programs use every opcode group, every addressing mode
and every disjunct of `Execute`; their pins are bytes at the edges (0, 15, 127, 128,
255, and digits that need each adjustment). One interrupt, at any place, suffices because the
routine leaves the state as it found it, except for what PSW does not hold.

### Fairness

The only fairness is that of the scheduler: the clock keeps ticking
(`WF_vars(Posedge)`; in `PointDouble`, `PointAdd` and `ScalarMult` the same condition is
spelled out as `Ticking`, because `Posedge` is enabled exactly when `rst_n` is high and
TLC need not evaluate ENABLED of the field arithmetic; `sm_never_ends`, with few
requests, uses `FairSpec`, which has it as it stands). Nothing obliges anyone to reset a
unit, so liveness is stated "unless it is reset". `EccPort` adds that the start-up
code of the firmware ends, which `cpu` shows of the compiled one, and that `SCALAR_MULT`
answers, which `ImplementsHandshake` shows for the scalars 1..127; `sm_never_ends` shows
why the others are excluded. While a unit is idle these conditions also bring the client back
at last; every liveness property is about a request that was made, so none rests on
it.

`Interrupts` has free inputs whose change is never owed, so its clock (`Ticking`)
demands a step only while an edge with unchanged lines would do something; that also
says that a memory is ready at last, which is `AccessesEnd` of `Movx`. `RoutinesEnd` is
the program's part: a routine that may execute comes to its RETI. `Movx` and
`Core8051` have plain `WF_vars(Next)`: `sc_start` goes on. `demo` sets
CHECK_DEADLOCK FALSE: `sc_stop` ends it.

## 4. Proofs

TLC checks small instances; the theorems below hold for every value of the constants.
Each module assumes only the named `...Assumption`s about its constants and, where a theorem
says `ASSUME`, the hypotheses discussed with it. An inductive invariant was checked with
TLC on small instances before it was proved. `PROJECT.json` ("theorems") names the
property of the runs that each theorem states.

### The field: `FieldProofs`

Lemmas for every width M that the units' proofs share. `SetInduction` is induction over the
naturals, as a fact about a set (from `WFMin` of the library: the order of the naturals
is well-founded); `Iteration` shows that a step function has a sequence of iterates, and from
it a recursive function `f[n \in S] == ...` is unfolded into its equations (`MulUnfolds`,
`DivisionUnfolds`, `InvUnfolds`, `EdgesUnfold`). The theorem:

* `MulIsFieldProduct` -- the interleaved multiplication of the golden model, M rounds of
  shift, reduce and add, is the remainder of the product of polynomials. By induction over
  the rounds: division is linear (`CancelLinear`, `RemainderLinear`), a shift raises every
  exponent by one before the remainder is taken (`CancelUp`, `RemainderUp`), so a round adds
  one term (`OneTermMore`).

### The field unit: `CoreProofs`

For every width M >= 2 and every set of operands and polynomials (`MAssumption`,
`InputAssumption`):

* `Typed`, `InLockstep`, `CleanStarts` -- `Spec => []TypeOK`, `[]Lockstep`, `[]CleanStart`;
* `ComputesGolden` -- the output is the golden model's result when `finish` is high, and 0
  at any other time;
* `ComputesField` -- `Spec => []FieldCorrect`: sums, products and inverses of the field;
* `RefinesUnit` -- `Spec => Unit!Safety`, the safety part of `ImplementsUnit`.

Thereby the literal 7 of the code is no coincidence of the width 8. `Lockstep` and
`CleanStart` are not inductive: whether they hold in the first round of a multiplication
depends on the cycle before it. The invariant of the control is

```
IInv == TypeOK /\ Resting /\ Multiplying /\ Between
```

`Resting` describes the unit outside state 1 (the multiplier rests, in state 0 the
array is empty and the counters are preset), `Multiplying` a round (the counters add
up to M - 1 and nothing is being cleared), `Between` the two cycles between the
multiplications of an inversion (the product is taken; the array is cleared while
the next one is requested). That of the data is

```
DataInv == Accumulating /\ Produced /\ Chained /\ Answering
```

After k rounds the accumulator is the golden model's partial product (`Accumulating`), after
the last the product (`Produced`); `c` and `sqr` hold the partial power of an inversion
(`Chained`); `out` follows from them (`Answering`). There is one lemma per kind of
clock edge and part. For the refinement, `EdgesLeft` counts the edges to the answer.

`ComputesField` supposes that the golden model's u^(2^M - 2) is an inverse of each operand u
in use. That is Fermat's theorem for an irreducible polynomial, which is not proved here;
TLC decides it in `core` for the operands and the polynomial of the run: `ImplementsUnit`
compares what `CORE` returns with the golden model's power, and `FieldCorrect` with the
independent definition of an inverse.
`ComputesGolden` has no such hypothesis.

### The point units: `PointDoubleProofs` and `PointAddProofs`

For every width, every set of requests and every number of resets:

* `Typed`, `StableOperands` -- `[]TypeOK` and the client's duty towards the units below:
  no operand line moves from a request to its finish cycle, although `sequ` rewrites a
  register on every edge;
* `DoublesAsGolden`, `AddsAsGolden` -- `[]GoldenDoubling`, `[]GoldenAddition`: what is shown
  with `finish` is the golden model's point (for `PA` on the operands on which the missing
  negation makes no difference, see `pa_opposite`);
* `NegationIsGone` -- `Spec => NoStaleNegation` (`PA`);
* `RefinesUnit` -- `Spec => Unit!Safety`, with the latency as the sum over the list.

```
IInv == TypeOK /\ Computing /\ Negating /\ Passing /\ Computed            (PD)
IInv == TypeOK /\ Computing /\ Doubling /\ Negating /\ Passing /\ Computed (PA)
```

`Computing` says where the `CORE` below is in its operation and on which operands,
`Doubling` and `Negating` the same of the `PD` and `PN` (in the doubling state nobody waits for
`pn0`, but `pd0` outlasts it), `Passing` which requests reach which states, and
`Computed` that each state left behind has put its result in its register. No operation
of a list writes a register that it or an earlier one reads, or that an earlier one has
written (`SingleAssignment`, from the lists once and for all); that is what `Computed` and
`StableOperands` rest on.

### Scalar multiplication: `ScalarMultProofs`

For every width W of the scalar, any latencies of the units and any requests:

* `UsesUnitsProperly` -- `Spec => UnitsUsedProperly`: `pa0` and `pd0` never work at once and
  each keeps its operands while it works. It supposes nothing of the points;
* `Typed` -- `Spec => []TypeOK`, the signed counter included, if the operations return points
  (`Closed`);
* `LoopKept` -- `Spec => []LoopInvariant`, if they also add and double the multiples that
  double-and-add forms (`GroupLaws`);
* `RefinesHandshake` -- `Spec => Unit!Safety`, the safety part of `ImplementsHandshake`, for
  scalars the counter can hold (`AllInRange`; `sm_never_ends` shows what the others do);
* `Agreement` -- `Spec => []AgreesWithGolden`: what `SCALAR_MULT` shows in its finish cycle is
  what `scalar_multiplication` of the golden model returns, unless the scalar begins 1 0
  (`sm_top_bit`), if moreover the golden model's own operations add and double those
  multiples (`GoldenLaws`).

`Control` (the state machine, and which unit may work in which state) is inductive without
any knowledge of the points; `Registers` and `Multiplying` add the widths and what the
registers hold. The hypotheses are about the constants: `Closed`, `GroupLaws` and `GoldenLaws`
are evaluated by TLC for the cyclic group, for `PA` and `PD` on the curve and for the golden
model on it (`GroupsFit`), and `AllInRange` is true of the scalars of `scalar_mult`.
`GroupLaws` asks for no more than is true: not that P + (-P) is infinity, since `PA` does
not return it.

`Agreement` compares a machine with a loop that ends differently: the golden model
doubles once more after the last addition and stops at 0, the unit stops at 1 or 2. Both
are brought to the multiple n P: the unit by `Multiplying`, the golden model by an
invariant of its iterations (`GoldenInv`: c bits left, low consumed, n = 2^k c + low), which
`GoldenStep` carries through one iteration and `GoldenMultiplies` to the end, where
`PowersExceed` says that n iterations are enough.

### Interrupts, ports, arithmetic of the 8051

`CpuProofs` proves, for every set of sources, program, reload value and choice of
enables and priorities (`InterruptAssumption`):

* `Typed` -- `Spec => []TypeOK`,
* `Nesting` -- `Spec => RoutinesNest`, the refinement of `NestedCalls`.

Here `TypeOK` is inductive (`TypedInit`, `TypedStep`) and it is all the refinement
needs: `Take` has a return register free because `check_interrupt` refuses a second
routine of the same priority. `TakeCalls` and `RetiReturns` do the work, and
`NestedStep` has a step for each thing an edge can do; those that touch neither
`intack` nor a return register leave `Frames` alone (`FramesKept`).

`EccPortProofs` proves, for every number of byte values, every set of frames and every
function of the operands that `SCALAR_MULT` may compute (`FramesAssumption`):

* `Framing` -- `Spec => []FrameReceived`, `Meeting` -- `Spec => []Rendezvous`,
  `Bytes` -- `Spec => []ValidBytes`, `Stable` -- `Spec => OperandsStable`,
  `Typed` -- `Spec => []TypeOK`.

None of the first three is inductive alone. The invariant `IInv` adds `InStep` (the firmware
is one byte ahead of `ECC`: `sent = read_cnt + 2` while the frame is read), `Reading`
(the fields read so far hold the frame's bytes, `Received`) and `Writing` (where the result is
from the finish cycle to the last byte). `NextByte` is the heart of the framing: the byte
on P1 is the one `ECC` is about to read. There is one lemma per conjunct for a clock
edge; the release of `rst_n` changes nothing else (`StandStill`).

* `Reporting` -- `MonSpec => []Report`: the monitor prints the level P1 had before the
  frame, its six bytes and the three parts of the result, in this order. To `IInv` it adds
  `MonIInv`: nothing has moved before `rst_n` is up (`Untouched`), the monitor's count is a
  function of ECC's state (`Counted`), each line printed is the right one (`Printed`), and
  `SCALAR_MULT` is busy with this frame (`Asked`).

`CpuProofs` also proves what the arithmetic of the 8051 computes, for every byte and carry:

* `AddCorrect` and `SubCorrect` -- the byte is the sum or difference modulo 256, CF
  the carry or borrow, AC that of the lower digit, OV that the signed result does not
  fit,
* `DecimalAddition` -- `add` followed by `da` adds numbers of two decimal digits, with the
  hundred in CF.

The arguments are by slices: `Slices` writes a byte as 128 t + 16 m + l, `Carry` splits a
slice's sum into what stays and what is carried, and the rest is linear arithmetic. `da`
reads the AC and CF that `add` left, so `DecimalAddition` needs the flags of `AddCorrect`.

### External accesses: `MovxProofs`

For every number of byte values, every delay of either memory, every set of programs and
every order in which SystemC runs the methods of an edge (`MovxAssumption`):

* `Typed` -- `Spec => []TypeOK`;
* `Invariance` -- `Spec => []Inv`, the inductive invariant;
* `Atomicity` -- `Spec => ImplementsAtomicMovx`: to the program each `MOVX` is one atomic load or
  store.

The difficulty is that a value is nowhere in one place: between the edge on which the
core asks and the one on which it goes on, the address, the byte and the answer pass
through signals that hold an old and a new value, latches of the memory and a
multiplexer. `Inv` therefore follows the scheduler: a clock cycle is in one of seven stages,
three of which occur once, and `Inv` is a disjunction over them.

| Stage | What has run | What holds |
|---|---|---|
| `Beginning` | some of the methods that all run once at time 0, and the first rise of the clock | every signal is 0 and the wires stay so; no access is on its way (`Unasked`) |
| `FirstTick` | the changes of the beginning and the first rise are notified together | a wire differs from its source only while the method that drives it is due |
| `FirstRise` | some of the methods of the first rising edge and of the wires, mixed | wires whose method has run are written to their sources (`FedXreg`, `FedXram`, `FedMux`); `Unasked` still |
| `Settling` | an edge is over, its changes spread over delta cycles | of the wires, the same as in `FirstTick`; `Answering` or `Serving`, by the edge |
| `Tick` | the clock has changed, nothing has run | `Wired`: every wire equals what it is computed from |
| `Rise` | some of the methods of the rising edge | `Moved`, what the core's method wrote, if it has run; `Latched`, what a memory's did |
| `Fall` | some of the methods of the falling edge | the answers of the memories that have run |

Two facts carry a request from one edge to the next. `Served` holds after a rising edge: if a
memory has latched the lines and its counter has ended, the byte at the address meant is the
accumulator (a store) or will be (a load). `Kept` and `Counted` hold after a falling one: a
memory that says it is ready has done it and shows the byte. `OneAccess` is the core's
side. The lemmas go stage by stage and method by method; `NextInv` puts them together, one
case for each action of the scheduler.

`Atomicity` maps the concrete state to that of `AtomicMovx` (`AccOf`, `PointersOf`,
`DataOf`): a store on its way counts as done, a load the core waits for as made. Only the
update that ends the rising edge moves the abstract state (`SeenPlain`, `SeenMovx`);
every other step is a stutter, in particular the one in which the byte arrives in the
memory (`SeenStored`) and the one in which the core takes it over (`SeenStall`).

The two last theorems suppose `OneStorePointer`: a program that stores through both R0 and
R1 does so in a memory that takes time. This is no convenience: without it the
refinement fails, and `movx_stale` shows the load that returns an old byte. `Typed` does not
need it: no program makes a register leave its range. `Inv` was evaluated by TLC first, with the
most general programs that satisfy the hypothesis and two pairs of delays (1,033,360 and
1,155,040 states).

### What is only model-checked

* Liveness and ENABLED are out of the prover's reach: `FrameAnswered`, `Ends`,
  `ForemostServed`, `Wakes`, `AccessesEnd`, `ProgramsEnd`, and the `Answers` part of the
  refinements.
* The arithmetic behind the hypotheses: that the golden model's power is an inverse, and that
  what `PA`, `PD` and the golden model return adds up as multiples of a point does (the
  group law of the curve). TLC decides both on the instances; so it does
  `AgreesWithStudy`, whose projective formulas rest on that arithmetic.
* `ProgramsCompute`, `ReturnsToCaller` and `FirmwareSendsFrame` are about given programs,
  whose bytes are the subject: TLC executes them.
* The type invariant of `Core8051`. It is no fact of the core for every program: the code
  indexes the RAM with `vSP + 1` and `vSP - 1` and the code memory with a 16-bit counter, so a
  program that lets the stack or the counter run out of its memory leaves the model
  (section 5). What remains is the claim that the given programs do not, and
  TLC checks it. The parts that hold of every byte and flag are theorems: the
  arithmetic in `CpuProofs`.

## 5. Not modelled

* The vendored SystemC library (`src/src/systemc-2.3.3`) is most of the repository's
  source and not its subject. Its scheduler is modelled as far as the design depends on
  it (`SystemC`: method processes, signals, one clock that starts at time 0; no threads,
  immediate notification or dynamic sensitivity); its data types appear as the widths of registers.
* `genmult.py` prints `PE` and `MULT` for a given width; `Core` has the width as a
  constant. File loading, waveform tracing, the assembly listing and printing are I/O.
* In the 8051 core: programs that write `PCON`, `IP`, `TCON` or a timer are in
  `Interrupts` and not in `Core8051`; a stack that leaves the RAM is undefined in the
  C++ (`vSP + 1` is not wrapped in CALL, nor `vSP - 1` in RET) and excluded.
* `PN` is used by its contract: its methods wire one addition of a `CORE`.
* The test benches of `multiplier.cpp`, beyond their request patterns, which the
  environments of `Core` to `EccPort` contain.
* `simulation.py`: the carry-less product (shift and add, Karatsuba) is taken at its
  contract, and its affine point operations repeat the golden model's.
* Peripherals not instantiated by `top`.
* In the golden model, reading the pattern file and printing, and the uninitialised vector
  of `multiplication` (`src/src/sw_sim/ecc.cpp:42`): `Mul` starts from the zero vector its
  comment promises. With an arbitrary vector no product is defined and
  nothing more can be said of it.

## 6. Plan

Done: the field unit with its first proofs, the point units, the scalar multiplier, the
ports and the demonstration -- in this order, because each unit relies on the contract of
the one before it --, the interrupt system of the 8051 with its proofs, external
accesses on the SystemC scheduler, the instructions and the compiled firmware, the study, and the
proofs of the ports. Then the values: products of the field, the results and refinements of
`CORE`, `PD` and `PA`, the loop of `SCALAR_MULT` and its agreement with the golden model,
what the monitor prints, and the accesses of `MOVX`.

What would come next:

1. The group law of the curve for every width, which would discharge `GroupLaws` and `GoldenLaws`;
   it needs the field axioms of `Mul`, of which `MulIsFieldProduct` is the first.
2. A condition on programs under which `Core8051` keeps its stack and counter in its memories,
   and the type invariant under it, instruction group by instruction group.
