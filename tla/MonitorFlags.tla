---------------------------- MODULE MonitorFlags ----------------------------
(***************************************************************************)
(* What the two monitors of the sysmodule promise to its server thread,    *)
(* and what SysRgb takes them for: start and stop are one step each, and a *)
(* monitor stores readings only between the two.                           *)
(***************************************************************************)
EXTENDS Naturals

CONSTANTS
    NUM_CORES,  \* the threads of the CPU monitor, one for each core
    Samples     \* the readings

Mons == {"cpu", "gen"}
Threads == {t \in Mons \X (1..NUM_CORES) : t[1] = "cpu" \/ t[2] = 1}

VARIABLES
    on,         \* the monitors that are on
    reading     \* the reading each thread stored last

vars == <<on, reading>>

Init ==
    /\ on = [m \in Mons |-> FALSE]
    /\ reading = [t \in Threads |-> 0]

Start(m) ==
    /\ on' = [on EXCEPT ![m] = TRUE]
    /\ UNCHANGED reading

Stop(m) ==
    /\ on' = [on EXCEPT ![m] = FALSE]
    /\ UNCHANGED reading

Sample(t) ==
    /\ on[t[1]]
    /\ \E s \in Samples : reading' = [reading EXCEPT ![t] = s]
    /\ UNCHANGED on

Next ==
    \/ \E m \in Mons : Start(m) \/ Stop(m)
    \/ \E t \in Threads : Sample(t)

Spec == Init /\ [][Next]_vars
=============================================================================
