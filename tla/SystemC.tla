------------------------------ MODULE SystemC ------------------------------
(***************************************************************************)
(* The scheduler of the SystemC library, as far as this design uses it:    *)
(* method processes with static sensitivity, signals and one clock.  A     *)
(* delta cycle evaluates every runnable method, in any order, then updates *)
(* the signals that were written, then notifies the methods that are       *)
(* sensitive to a change.  When none is runnable time moves to the next    *)
(* edge of the clock.  Methods and signals are pairs <<owner, name>>.      *)
(***************************************************************************)
EXTENDS Integers

CONSTANTS Methods,      \* the method processes of the design
          Sensitive     \* the events each of them is sensitive to

VARIABLES
    cur, new,           \* m_cur_val and m_new_val of every signal
    update_list,        \* the signals that asked for an update
    runnable,           \* the methods queued for execution
    delta_events,       \* the events notified for the next delta cycle
    next_edge,          \* the clock's edge among the timed events
    phase               \* of the delta cycle; "done" when crunch has returned

kernelVars == <<cur, new, update_list, runnable, delta_events, next_edge, phase>>

Clock == <<"top", "clk">>

\* The events of a signal: any change and, of the clock, its edges.
Changed(s) == <<s, "change">>
Edge(level) == <<Clock, IF level = 1 THEN "posedge" ELSE "negedge">>

\* The values v of the signals after the writes w, which are records of names
\* and values by owner.
Overwritten(v, w) ==
    [s \in DOMAIN v |-> IF s[1] \in DOMAIN w /\ s[2] \in DOMAIN w[s[1]]
                        THEN w[s[1]][s[2]] ELSE v[s]]

\* sc_signal::write, for all the signals a method writes.
write(w) ==
    /\ new' = Overwritten(new, w)
    /\ update_list' = update_list \cup {s \in DOMAIN new : new'[s] # new[s]}
    /\ UNCHANGED cur

-----------------------------------------------------------------------------
\* Every method is queued at first.  The clock starts at time 0, so its rise is
\* a delta notification: posedge_action is queued with them, and as nothing in
\* this phase reads what it writes, the write stands in the initial state.
KernelInit(values) ==
    /\ cur = values /\ new = [values EXCEPT ![Clock] = 1] /\ update_list = {Clock}
    /\ runnable = Methods /\ delta_events = {}
    /\ next_edge = 0 /\ phase = "evaluate"

\* One method process is popped and runs to its end.
Evaluate(m, w) ==
    /\ phase = "evaluate" /\ m \in runnable
    /\ runnable' = runnable \ {m}
    /\ write(w)
    /\ UNCHANGED <<delta_events, next_edge, phase>>

\* perform_update: a signal that really changes notifies its events.
Update ==
    LET changed == {s \in update_list : new[s] # cur[s]} IN
    /\ phase = "evaluate" /\ runnable = {}
    /\ cur' = new /\ update_list' = {}
    /\ delta_events' = {Changed(s) : s \in changed}
                       \cup {Edge(new[s]) : s \in changed \cap {Clock}}
    /\ phase' = "notify"
    /\ UNCHANGED <<new, runnable, next_edge>>

\* trigger, for all events: a method is queued once, whatever it waits for.
Notify ==
    /\ phase = "notify"
    /\ runnable' = {m \in Methods : Sensitive[m] \cap delta_events # {}}
    /\ delta_events' = {}
    /\ phase' = IF runnable' = {} THEN "done" ELSE "evaluate"
    /\ UNCHANGED <<cur, new, update_list, next_edge>>

\* The next timed event runs posedge_action or negedge_action of sc_clock,
\* the only method of its evaluation phase, which orders the other edge.
TimeStep ==
    /\ phase = "done"
    /\ new' = [new EXCEPT ![Clock] = next_edge]
    /\ update_list' = {Clock}
    /\ next_edge' = 1 - next_edge
    /\ phase' = "evaluate"
    /\ UNCHANGED <<cur, runnable, delta_events>>
=============================================================================
