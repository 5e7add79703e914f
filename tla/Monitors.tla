------------------------------ MODULE Monitors ------------------------------
(***************************************************************************)
(* The monitors of the sysmodule: CpuMon (cpu_mon.cpp), a thread for each  *)
(* core, and GenMon (gen_mon.cpp), one thread.  start and stop are called  *)
(* by the server thread, one call at a time; it drops their result.        *)
(* Creating a thread and starting it can fail, and start then leaves what  *)
(* it has done as it is, with the flag set.                                *)
(***************************************************************************)
EXTENDS Naturals

CONSTANTS
    NUM_CORES,  \* the threads of the CPU monitor, one for each core
    Samples,    \* the readings
    Faults      \* what can fail: "create", "start"

ASSUME CoresAssumption == NUM_CORES \in Nat \ {0}
ASSUME FaultsAssumption == Faults \subseteq {"create", "start"}

Mons == {"cpu", "gen"}
Count(m) == IF m = "cpu" THEN NUM_CORES ELSE 1
Threads == {t \in Mons \X (1..NUM_CORES) : t[1] = "cpu" \/ t[2] = 1}
GenModes == {"GPU", "SOCTemperature"}

VARIABLES
    pc,         \* where the server thread is: in no call, or in a loop over
    mon, core,  \* ... the threads of this monitor, at this one
    running,    \* _running of each
    thread,     \* each thread: none, created, at the head of its loop
                \* ("check"), in it ("read"), or returned ("exited")
    mode,       \* GenMon::_mode
    sensor,     \* GenMon::_tsCheck
    reading,    \* _idle of each core, and _temperature
    failed      \* history: a thread could not be had since the last start

call == <<pc, mon, core>>
vars == <<call, running, thread, mode, sensor, reading, failed>>

At == <<mon, core>>

TypeOK ==
    /\ pc \in {"idle", "create", "start", "wait"}
    /\ mon \in Mons /\ core \in 1..Count(mon)
    /\ running \in [Mons -> BOOLEAN]
    /\ thread \in [Threads -> {"none", "created", "check", "read", "exited"}]
    /\ mode \in GenModes
    /\ sensor \in BOOLEAN
    /\ reading \in [Threads -> Samples \cup {0}]
    /\ failed \in [Mons -> BOOLEAN]

Init ==
    /\ pc = "idle" /\ mon = "cpu" /\ core = 1
    /\ running = [m \in Mons |-> FALSE]
    /\ thread = [t \in Threads |-> "none"]
    /\ mode = "GPU"
    /\ sensor = FALSE
    /\ reading = [t \in Threads |-> 0]
    /\ failed = [m \in Mons |-> FALSE]

-----------------------------------------------------------------------------
(* The server thread *)

\* Seeded fault: start does not look whether it runs.
BeginAgain(m, what) ==
    /\ mon' = m /\ core' = 1 /\ pc' = what
    /\ running' = [running EXCEPT ![m] = (what = "create")]

\* Seeded fault: the CPU monitor starts with the second core.
BeginSecond(m, what) ==
    /\ running[m] # (what = "create")
    /\ mon' = m /\ core' = (IF what = "create" THEN Count(m) ELSE 1) /\ pc' = what
    /\ running' = [running EXCEPT ![m] = (what = "create")]

\* Seeded fault: the flag is cleared when the threads have exited.
BeginUncleared(m, what) ==
    /\ running[m] # (what = "create")
    /\ mon' = m /\ core' = 1 /\ pc' = what
    /\ running' = [running EXCEPT ![m] = TRUE]

\* The head of start and of stop: the flag is set or cleared before anything is
\* done; a monitor that runs is not started, one that does not is not stopped.
Begin(m, what) ==
    /\ running[m] # (what = "create")
    /\ mon' = m /\ core' = 1 /\ pc' = what
    /\ running' = [running EXCEPT ![m] = (what = "create")]

StartCpu ==
    /\ pc = "idle"
    /\ Begin("cpu", "create")
    /\ failed' = [failed EXCEPT !["cpu"] = FALSE]
    /\ UNCHANGED <<thread, mode, sensor, reading>>

\* setMode, which reaches a thread that runs, and start, which tries to open the
\* sensor each time until it has it.
StartGen(md) ==
    /\ pc = "idle"
    /\ mode' = md
    /\ sensor' \in {sensor, TRUE}
    /\ \/ Begin("gen", "create") /\ failed' = [failed EXCEPT !["gen"] = FALSE]
       \/ running["gen"] /\ UNCHANGED <<call, running, failed>>
    /\ UNCHANGED <<thread, reading>>

Create ==
    /\ pc = "create"
    /\ thread' = [thread EXCEPT ![At] = "created"]
    /\ pc' = "start"
    /\ UNCHANGED <<mon, core, running, mode, sensor, reading, failed>>

\* The loops over the threads of a monitor: the next one, or the end.
Advance(loop) ==
    IF core < Count(mon)
    THEN core' = core + 1 /\ pc' = loop
    ELSE core' = core /\ pc' = "idle"

StartThread ==
    /\ pc = "start"
    /\ thread' = [thread EXCEPT ![At] = "check"]
    /\ Advance("create")
    /\ UNCHANGED <<mon, running, mode, sensor, reading, failed>>

\* start returns at the first thread it cannot create or start.
StartFails ==
    /\ pc \in Faults
    /\ failed' = [failed EXCEPT ![mon] = TRUE]
    /\ pc' = "idle"
    /\ UNCHANGED <<mon, core, running, thread, mode, sensor, reading>>

Stop(m) ==
    /\ pc = "idle"
    /\ Begin(m, "wait")
    /\ UNCHANGED <<thread, mode, sensor, reading, failed>>

\* Seeded fault: the thread is closed when it has not exited.
CloseRunning ==
    /\ pc = "wait"
    /\ Advance("wait")
    /\ UNCHANGED <<mon, running, thread, mode, sensor, reading, failed>>

\* threadWaitForExit and threadClose.  To wait for a thread that is not there
\* fails at once; one that was never started never exits.
Close ==
    /\ pc = "wait"
    /\ thread[At] \in {"none", "exited"}
    /\ thread' = [thread EXCEPT ![At] = "none"]
    /\ Advance("wait")
    /\ UNCHANGED <<mon, running, mode, sensor, reading, failed>>

-----------------------------------------------------------------------------
(* The threads *)

\* What GenMon reads of the modes the server sets: nothing sets _nvCheck.
Reads(t) == t[1] = "cpu" \/ (mode = "SOCTemperature" /\ sensor)

\* A turn of the loop: the flag is read, and the mode.  A turn that reads nothing
\* sleeps and comes back.
Check(t) ==
    /\ thread[t] = "check"
    /\ thread' = [thread EXCEPT ![t] =
                      IF ~running[t[1]] THEN "exited" ELSE IF Reads(t) THEN "read" ELSE "check"]
    /\ UNCHANGED <<call, running, mode, sensor, reading, failed>>

\* The reading that was begun is stored, whatever the server did meanwhile.
Store(t) ==
    /\ thread[t] = "read"
    /\ thread' = [thread EXCEPT ![t] = "check"]
    /\ \E s \in Samples : reading' = [reading EXCEPT ![t] = s]
    /\ UNCHANGED <<call, running, mode, sensor, failed>>

-----------------------------------------------------------------------------
Server == Create \/ StartThread \/ StartFails \/ Close
Caller ==
    \/ StartCpu
    \/ \E md \in GenModes : StartGen(md)
    \/ \E m \in Mons : Stop(m)
Turn(t) == Check(t) \/ Store(t)

Next == Server \/ Caller \/ \E t \in Threads : Turn(t)

Spec == Init /\ [][Next]_vars

\* A call goes on when it can, and the scheduler lets every thread run, also on a
\* core it shares; nobody has to call.
Fairness == WF_vars(Server) /\ \A t \in Threads : WF_vars(Turn(t))
FairSpec == Spec /\ Fairness

(***************************************************************************)
(* Properties                                                              *)
(***************************************************************************)

\* A stack is given to a thread only when no other is on it: stop has waited for
\* the one before, however the calls follow each other.
StackFree ==
    [][\A t \in Threads :
          thread'[t] = "created" /\ thread[t] # "created" => thread[t] = "none"]_vars

\* A monitor that is reported as running has all its threads, unless one could
\* not be had since it was started; then no later start repairs it.
RunsWhole ==
    pc = "idle" =>
        \A t \in Threads :
            running[t[1]] /\ ~failed[t[1]] => thread[t] \in {"check", "read"}

\* The threads keep the promise of MonitorFlags, failures included: a monitor is
\* on until its stop returns, and off it stores nothing.
On == [m \in Mons |-> running[m] \/ (pc = "wait" /\ mon = m)]
Promise == INSTANCE MonitorFlags WITH on <- On
Implements == Promise!Spec

\* What a thread has before it when its flag is down.
Left(t) == CASE thread[t] = "read" -> 2 [] thread[t] = "check" -> 1 [] OTHER -> 0

\* The call is over, at the next thread, at the start of the one it created, or the
\* thread it waits for is nearer to its exit.
Nearer ==
    \/ pc' = "idle"
    \/ core' > core
    \/ pc = "create" /\ pc' = "start" /\ core' = core
    \/ pc = "wait" /\ call' = call /\ Left(At)' < Left(At)

\* In a call nothing is done twice: each step brings its end nearer, but for the
\* turns of threads that are not the one it is at, which change nothing for it.
Progress ==
    [][pc # "idle" =>
          \/ Nearer
          \/ (\E t \in Threads \ {At} : Turn(t)) /\ UNCHANGED <<call, thread[At]>>]_vars

\* The server comes back from every call, but for a stop that waits for a thread
\* that was never started.
ServerReturns ==
    []<>(pc = "idle" \/ (pc = "wait" /\ thread[At] = "created"))
=============================================================================
