---------------------------- MODULE MonitorsProofs ----------------------------
(***************************************************************************)
(* Proofs about the monitors, for every number of cores, all readings and  *)
(* whatever can fail.                                                      *)
(***************************************************************************)
EXTENDS Monitors, TLAPS

LEMMA ThreadType == \A t \in Threads : t[1] \in Mons /\ t[2] \in 1..NUM_CORES /\ t = <<t[1], t[2]>>
BY DEF Threads

LEMMA AtType == TypeOK => At \in Threads /\ At[1] = mon /\ At[2] = core
BY CoresAssumption DEF TypeOK, At, Threads, Mons, Count

\* A thread of the monitor in the call is told from the one the call is at by its
\* number.
LEMMA OtherThread ==
    ASSUME TypeOK, NEW t \in Threads, t # At
    PROVE  t[1] # mon \/ t[2] # core
BY ThreadType DEF At

LEMMA InitType == Init => TypeOK
<1> SUFFICES ASSUME Init PROVE TypeOK
  OBVIOUS
<1>1. mon \in Mons /\ core \in 1..Count(mon)
  BY CoresAssumption DEF Init, Mons, Count
<1>2. /\ running \in [Mons -> BOOLEAN] /\ failed \in [Mons -> BOOLEAN]
      /\ thread \in [Threads -> {"none", "created", "check", "read", "exited"}]
      /\ reading \in [Threads -> Samples \cup {0}]
  BY DEF Init
<1>3. pc = "idle" /\ mode \in GenModes /\ sensor \in BOOLEAN
  BY DEF Init, GenModes
<1> QED
  BY <1>1, <1>2, <1>3 DEF TypeOK

LEMMA BeginType ==
    ASSUME TypeOK, NEW m \in Mons, NEW what \in {"create", "wait"}, Begin(m, what)
    PROVE  /\ pc' = what /\ mon' = m /\ core' \in 1..Count(m)
           /\ running' \in [Mons -> BOOLEAN]
<1>1. (what = "create") \in BOOLEAN
  OBVIOUS
<1>2. 1 \in 1..Count(m)
  BY CoresAssumption DEF Count
<1> QED
  BY <1>1, <1>2 DEF Begin, TypeOK

LEMMA AdvanceType ==
    ASSUME TypeOK, NEW loop \in {"create", "wait"}, Advance(loop)
    PROVE  core' \in 1..Count(mon) /\ pc' \in {loop, "idle"}
<1>1. Count(mon) \in Nat /\ core \in 1..Count(mon)
  BY CoresAssumption DEF TypeOK, Count
<1> QED
  BY <1>1 DEF Advance

LEMMA NextType == TypeOK /\ [Next]_vars => TypeOK'
<1> SUFFICES ASSUME TypeOK, [Next]_vars PROVE TypeOK'
  OBVIOUS
<1> USE DEF TypeOK, call
<1>1. CASE StartCpu
  BY <1>1, BeginType DEF StartCpu, Mons
<1>2. ASSUME NEW md \in GenModes, StartGen(md) PROVE TypeOK'
  <2>1. mode' \in GenModes /\ sensor' \in BOOLEAN /\ UNCHANGED <<thread, reading>>
    BY <1>2 DEF StartGen
  <2>2. CASE Begin("gen", "create") /\ failed' = [failed EXCEPT !["gen"] = FALSE]
    BY <2>1, <2>2, BeginType DEF Mons
  <2>3. CASE UNCHANGED <<call, running, failed>>
    BY <2>1, <2>3
  <2> QED
    BY <1>2, <2>2, <2>3 DEF StartGen
<1>3. CASE Create
  BY <1>3, AtType DEF Create
<1>4. CASE StartThread
  BY <1>4, AtType, AdvanceType DEF StartThread
<1>5. CASE StartFails
  BY <1>5 DEF StartFails
<1>6. ASSUME NEW m \in Mons, Stop(m) PROVE TypeOK'
  BY <1>6, BeginType DEF Stop
<1>7. CASE Close
  BY <1>7, AtType, AdvanceType DEF Close
<1>8. ASSUME NEW t \in Threads, Turn(t) PROVE TypeOK'
  <2>1. CASE Check(t)
    BY <2>1 DEF Check
  <2>2. CASE Store(t)
    BY <2>2 DEF Store
  <2> QED
    BY <1>8, <2>1, <2>2 DEF Turn
<1>9. CASE UNCHANGED vars
  BY <1>9 DEF vars
<1> QED
  BY <1>1, <1>2, <1>3, <1>4, <1>5, <1>6, <1>7, <1>8, <1>9 DEF Next, Server, Caller

\* Every place of a call names a thread there is, and every thread is in a state
\* of a thread.
THEOREM TypeCorrect == Spec => []TypeOK
BY InitType, NextType, PTL DEF Spec

-----------------------------------------------------------------------------
(***************************************************************************)
(* The inductive invariant.                                                *)
(***************************************************************************)
Alive(t) == thread[t] \in {"check", "read"}
Starting(m) == pc \in {"create", "start"} /\ mon = m

\* There are threads of a monitor that runs, and those a stop has not come to.
Owned ==
    \A t \in Threads :
        thread[t] # "none" => running[t[1]] \/ (pc = "wait" /\ mon = t[1] /\ core <= t[2])

\* A thread exits for the flag only.
ExitsForFlag == \A t \in Threads : thread[t] = "exited" => ~running[t[1]]

\* What the flags are in a call.
InCall ==
    /\ pc \in {"create", "start"} => running[mon] /\ ~failed[mon]
    /\ pc = "wait" => ~running[mon]

\* How far a start is.
StartedSoFar ==
    \A t \in Threads :
        Starting(t[1]) =>
            /\ t[2] < core => Alive(t)
            /\ t[2] = core => thread[t] = (IF pc = "create" THEN "none" ELSE "created")
            /\ t[2] > core => thread[t] = "none"

\* RunsWhole, outside of any start of the monitor.
Whole ==
    \A t \in Threads :
        running[t[1]] /\ ~failed[t[1]] /\ ~Starting(t[1]) => Alive(t)

IInv == TypeOK /\ Owned /\ ExitsForFlag /\ InCall /\ StartedSoFar /\ Whole

LEMMA InitInv == Init => IInv
<1> SUFFICES ASSUME Init PROVE IInv
  OBVIOUS
<1>1. Owned /\ ExitsForFlag /\ InCall /\ StartedSoFar
  BY DEF Init, Owned, ExitsForFlag, InCall, StartedSoFar, Starting
<1>2. Whole
  BY ThreadType DEF Init, Whole
<1> QED
  BY <1>1, <1>2, InitType DEF IInv

\* A start or stop that begins.
LEMMA BeginStart ==
    ASSUME IInv, NEW m \in Mons, pc = "idle", Begin(m, "create"), UNCHANGED thread,
           failed' = [failed EXCEPT ![m] = FALSE]
    PROVE  (Owned /\ ExitsForFlag /\ InCall /\ StartedSoFar /\ Whole)'
<1> USE DEF IInv
<1>1. /\ ~running[m] /\ mon' = m /\ core' = 1 /\ pc' = "create"
      /\ running' = [running EXCEPT ![m] = TRUE]
  BY DEF Begin, TypeOK
<1>2. \A t \in Threads : t[1] = m => thread[t] = "none"
  BY <1>1 DEF Owned
<1>3. \A k \in Mons : /\ running'[k] = (running[k] \/ k = m)
                      /\ failed'[k] = (failed[k] /\ k # m)
  BY <1>1 DEF TypeOK
<1>4. Owned' /\ ExitsForFlag'
  BY <1>2, <1>3, ThreadType DEF Owned, ExitsForFlag
<1>5. InCall'
  BY <1>1, <1>3 DEF InCall
<1>6. StartedSoFar'
  <2> SUFFICES ASSUME NEW t \in Threads, Starting(t[1])'
               PROVE  ~(t[2] < core') /\ thread'[t] = "none"
    BY <1>1 DEF StartedSoFar
  <2>1. t[1] = m /\ t[2] \in Nat /\ t[2] >= 1
    BY <1>1, ThreadType DEF Starting
  <2> QED
    BY <1>1, <1>2, <2>1
<1>7. Whole'
  BY <1>1, <1>3, ThreadType DEF Whole, Starting, Alive
<1> QED
  BY <1>4, <1>5, <1>6, <1>7

LEMMA BeginStop ==
    ASSUME IInv, NEW m \in Mons, Stop(m)
    PROVE  (Owned /\ ExitsForFlag /\ InCall /\ StartedSoFar /\ Whole)'
<1> USE DEF IInv
<1>1. /\ pc = "idle" /\ mon' = m /\ core' = 1 /\ pc' = "wait" /\ UNCHANGED <<thread, failed>>
      /\ running' = [running EXCEPT ![m] = FALSE]
  BY DEF Stop, Begin
<1>2. \A k \in Mons : running'[k] = (running[k] /\ k # m)
  BY <1>1 DEF TypeOK
<1>3. \A t \in Threads : core' <= t[2]
  BY <1>1, ThreadType
<1>4. Owned'
  BY <1>1, <1>2, <1>3, ThreadType DEF Owned
<1>5. ExitsForFlag' /\ InCall' /\ StartedSoFar'
  BY <1>1, <1>2, ThreadType DEF ExitsForFlag, InCall, StartedSoFar, Starting
<1>6. Whole'
  BY <1>1, <1>2, ThreadType DEF Whole, Starting, Alive
<1> QED
  BY <1>4, <1>5, <1>6

\* The loop of start, from one thread to the next.
LEMMA StartStep ==
    ASSUME IInv, StartThread
    PROVE  (Owned /\ ExitsForFlag /\ InCall /\ StartedSoFar /\ Whole)'
<1> USE DEF IInv
<1>1. /\ pc = "start" /\ UNCHANGED <<mon, running, failed>>
      /\ thread' = [thread EXCEPT ![At] = "check"]
      /\ At \in Threads /\ At[1] = mon /\ At[2] = core
  BY AtType DEF StartThread
<1>2. running[mon] /\ ~failed[mon]
  BY <1>1 DEF InCall
<1>3. /\ core \in Nat /\ Count(mon) \in Nat /\ core <= Count(mon)
      /\ \A t \in Threads : t[2] \in Nat /\ (t[1] = mon => t[2] <= Count(mon))
  BY CoresAssumption, ThreadType DEF TypeOK, Count, Threads
<1>4. Owned' /\ ExitsForFlag'
  BY <1>1, <1>2 DEF Owned, ExitsForFlag, TypeOK
<1>5. \/ core < Count(mon) /\ core' = core + 1 /\ pc' = "create"
      \/ core = Count(mon) /\ core' = core /\ pc' = "idle"
  BY <1>1, <1>3 DEF StartThread, Advance
<1>6. InCall'
  BY <1>1, <1>2, <1>5 DEF InCall
<1>7. \A t \in Threads : t[1] = mon => /\ t[2] <= core => Alive(t)'
                                       /\ t[2] > core => thread'[t] = "none"
  <2> SUFFICES ASSUME NEW t \in Threads, t[1] = mon
               PROVE  /\ t[2] <= core => Alive(t)'
                      /\ t[2] > core => thread'[t] = "none"
    OBVIOUS
  <2>1. CASE t = At
    BY <1>1, <1>3, <2>1 DEF Alive, TypeOK
  <2>2. CASE t # At
    <3>1. t[2] # core /\ thread'[t] = thread[t]
      BY <1>1, <2>2, OtherThread DEF TypeOK
    <3> QED
      BY <1>1, <1>3, <3>1 DEF StartedSoFar, Starting, Alive
  <2> QED
    BY <2>1, <2>2
<1>8. StartedSoFar'
  BY <1>1, <1>3, <1>5, <1>7 DEF StartedSoFar, Starting, Alive
<1>9. Whole'
  <2> SUFFICES ASSUME NEW t \in Threads, running'[t[1]], ~failed'[t[1]], ~Starting(t[1])'
               PROVE  Alive(t)'
    BY DEF Whole, Alive
  <2>1. CASE t[1] = mon
    BY <1>1, <1>3, <1>5, <1>7, <2>1 DEF Starting
  <2>2. CASE t[1] # mon
    <3>1. thread'[t] = thread[t] /\ ~Starting(t[1])
      BY <1>1, <2>2 DEF Starting, TypeOK
    <3> QED
      BY <1>1, <3>1 DEF Whole, Alive
  <2> QED
    BY <2>1, <2>2
<1> QED
  BY <1>4, <1>6, <1>8, <1>9

LEMMA CreateStep ==
    ASSUME IInv, Create \/ StartFails
    PROVE  (Owned /\ ExitsForFlag /\ InCall /\ StartedSoFar /\ Whole)'
<1> USE DEF IInv
<1>1. CASE Create
  <2>1. /\ pc = "create" /\ pc' = "start" /\ UNCHANGED <<mon, core, running, failed>>
        /\ thread' = [thread EXCEPT ![At] = "created"]
        /\ At \in Threads /\ At[1] = mon /\ At[2] = core
    BY <1>1, AtType DEF Create
  <2>2. running[mon]
    BY <2>1 DEF InCall
  <2>3. \A t \in Threads : t # At => thread'[t] = thread[t] /\ (t[1] = mon => t[2] # core)
    BY <2>1, OtherThread DEF TypeOK
  <2>4. thread'[At] = "created"
    BY <2>1 DEF TypeOK
  <2>5. Owned' /\ ExitsForFlag' /\ InCall'
    BY <2>1, <2>2, <2>3, <2>4 DEF Owned, ExitsForFlag, InCall
  <2>6. core \in Nat
    BY DEF TypeOK
  <2>7. StartedSoFar'
    <3> SUFFICES ASSUME NEW t \in Threads, t[1] = mon
                 PROVE  /\ t[2] < core => Alive(t)'
                        /\ t[2] = core => thread'[t] = "created"
                        /\ t[2] > core => thread'[t] = "none"
      BY <2>1 DEF StartedSoFar, Starting, Alive
    <3>1. CASE t = At
      BY <2>1, <2>4, <2>6, <3>1
    <3>2. CASE t # At
      BY <2>1, <2>3, <3>2 DEF StartedSoFar, Starting, Alive
    <3> QED
      BY <3>1, <3>2
  <2>8. Whole'
    BY <2>1, <2>3 DEF Whole, Starting, Alive
  <2> QED
    BY <2>5, <2>7, <2>8
<1>2. CASE StartFails
  <2>1. /\ pc \in {"create", "start"} /\ pc' = "idle" /\ UNCHANGED <<mon, core, running, thread>>
        /\ failed' = [failed EXCEPT ![mon] = TRUE]
    BY <1>2, FaultsAssumption DEF StartFails
  <2>2. \A m \in Mons : failed'[m] = (failed[m] \/ m = mon)
    BY <2>1 DEF TypeOK
  <2>3. Owned' /\ ExitsForFlag' /\ InCall' /\ StartedSoFar'
    BY <2>1 DEF Owned, ExitsForFlag, InCall, StartedSoFar, Starting
  <2>4. Whole'
    BY <2>1, <2>2, ThreadType DEF Whole, Starting, Alive
  <2> QED
    BY <2>3, <2>4
<1> QED
  BY <1>1, <1>2

\* The loop of stop.
LEMMA CloseStep ==
    ASSUME IInv, Close
    PROVE  (Owned /\ ExitsForFlag /\ InCall /\ StartedSoFar /\ Whole)'
<1> USE DEF IInv
<1>1. /\ pc = "wait" /\ UNCHANGED <<mon, running, failed>>
      /\ thread' = [thread EXCEPT ![At] = "none"]
      /\ At \in Threads /\ At[1] = mon /\ At[2] = core
  BY AtType DEF Close
<1>2. ~running[mon]
  BY <1>1 DEF InCall
<1>3. /\ core \in Nat /\ Count(mon) \in Nat /\ core <= Count(mon)
      /\ \A t \in Threads : t[2] \in Nat /\ (t[1] = mon => t[2] <= Count(mon))
  BY CoresAssumption, ThreadType DEF TypeOK, Count, Threads
<1>4. \/ core < Count(mon) /\ core' = core + 1 /\ pc' = "wait"
      \/ core = Count(mon) /\ pc' = "idle"
  BY <1>1, <1>3 DEF Close, Advance
<1>5. Owned'
  <2> SUFFICES ASSUME NEW t \in Threads, thread'[t] # "none", ~running'[t[1]]
               PROVE  pc' = "wait" /\ mon' = t[1] /\ core' <= t[2]
    BY DEF Owned
  <2>1. t # At /\ thread'[t] = thread[t]
    BY <1>1 DEF TypeOK
  <2>2. mon = t[1] /\ core <= t[2]
    BY <1>1, <2>1 DEF Owned
  <2>3. core < t[2]
    BY <1>3, <2>1, <2>2, OtherThread
  <2> QED
    BY <1>1, <1>3, <1>4, <2>2, <2>3
<1>6. ExitsForFlag'
  BY <1>1 DEF ExitsForFlag, TypeOK
<1>7. InCall' /\ StartedSoFar'
  BY <1>1, <1>2, <1>4 DEF InCall, StartedSoFar, Starting
<1>8. Whole'
  <2> SUFFICES ASSUME NEW t \in Threads, running'[t[1]], ~failed'[t[1]]
               PROVE  Alive(t)'
    BY DEF Whole, Alive
  <2>1. t # At /\ thread'[t] = thread[t] /\ ~Starting(t[1])
    BY <1>1, <1>2 DEF TypeOK, Starting
  <2> QED
    BY <1>1, <2>1 DEF Whole, Alive
<1> QED
  BY <1>5, <1>6, <1>7, <1>8

\* A thread's own step.
LEMMA TurnStep ==
    ASSUME IInv, NEW s \in Threads, Turn(s)
    PROVE  (Owned /\ ExitsForFlag /\ InCall /\ StartedSoFar /\ Whole)'
<1> USE DEF IInv
<1>1. UNCHANGED <<pc, mon, core, running, failed>> /\ thread[s] \in {"check", "read"}
  BY DEF Turn, Check, Store, call
<1>2. \A t \in Threads : t # s => thread'[t] = thread[t]
  BY DEF Turn, Check, Store, TypeOK
<1>3. IF thread[s] = "check" /\ ~running[s[1]]
      THEN thread'[s] = "exited" ELSE thread'[s] \in {"check", "read"}
  BY DEF Turn, Check, Store, TypeOK
<1>4. running[s[1]] \/ (pc = "wait" /\ mon = s[1] /\ core <= s[2])
  BY <1>1 DEF Owned
<1>5. Owned' /\ ExitsForFlag' /\ InCall'
  BY <1>1, <1>2, <1>3, <1>4 DEF Owned, ExitsForFlag, InCall
<1>6. ASSUME NEW t \in Threads, running[t[1]], Alive(t) PROVE Alive(t)'
  BY <1>2, <1>3, <1>6 DEF Alive
<1>7. ASSUME NEW t \in Threads, thread[t] \in {"none", "created"} PROVE thread'[t] = thread[t]
  BY <1>1, <1>2, <1>7
<1>8. StartedSoFar'
  <2> SUFFICES ASSUME NEW t \in Threads, Starting(t[1])
               PROVE  /\ t[2] < core => Alive(t)'
                      /\ t[2] = core =>
                            thread'[t] = (IF pc = "create" THEN "none" ELSE "created")
                      /\ t[2] > core => thread'[t] = "none"
    BY <1>1 DEF StartedSoFar, Starting, Alive
  <2>1. running[t[1]]
    BY DEF InCall, Starting
  <2> QED
    BY <1>6, <1>7, <2>1 DEF StartedSoFar
<1>9. Whole'
  BY <1>1, <1>6 DEF Whole, Starting, Alive
<1> QED
  BY <1>5, <1>8, <1>9

LEMMA StepInv == IInv /\ [Next]_vars => IInv'
<1> SUFFICES ASSUME IInv, [Next]_vars PROVE IInv'
  OBVIOUS
<1>0. TypeOK'
  BY NextType DEF IInv
<1>1. CASE StartCpu
  BY <1>0, <1>1, BeginStart DEF StartCpu, IInv, Mons
<1>2. ASSUME NEW md \in GenModes, StartGen(md) PROVE IInv'
  <2>1. pc = "idle" /\ UNCHANGED thread
    BY <1>2 DEF StartGen
  <2>2. CASE Begin("gen", "create") /\ failed' = [failed EXCEPT !["gen"] = FALSE]
    BY <1>0, <2>1, <2>2, BeginStart DEF IInv, Mons
  <2>3. CASE UNCHANGED <<call, running, failed>>
    BY <1>0, <2>1, <2>3 DEF IInv, Owned, ExitsForFlag, InCall, StartedSoFar, Whole,
       Starting, Alive, call
  <2> QED
    BY <1>2, <2>2, <2>3 DEF StartGen
<1>3. CASE Create \/ StartFails
  BY <1>0, <1>3, CreateStep DEF IInv
<1>4. CASE StartThread
  BY <1>0, <1>4, StartStep DEF IInv
<1>5. ASSUME NEW m \in Mons, Stop(m) PROVE IInv'
  BY <1>0, <1>5, BeginStop DEF IInv
<1>6. CASE Close
  BY <1>0, <1>6, CloseStep DEF IInv
<1>7. ASSUME NEW t \in Threads, Turn(t) PROVE IInv'
  BY <1>0, <1>7, TurnStep DEF IInv
<1>8. CASE UNCHANGED vars
  BY <1>0, <1>8 DEF vars, call, IInv, Owned, ExitsForFlag, InCall, StartedSoFar, Whole,
     Starting, Alive
<1> QED
  BY <1>1, <1>2, <1>3, <1>4, <1>5, <1>6, <1>7, <1>8 DEF Next, Server, Caller

THEOREM Invariance == Spec => []IInv
BY InitInv, StepInv, PTL DEF Spec

\* A monitor reported as running has all its threads but after a failure.
THEOREM WholeOrFailed == Spec => []RunsWhole
<1>1. IInv => RunsWhole
  BY DEF IInv, Whole, RunsWhole, Starting, Alive
<1> QED
  BY <1>1, Invariance, PTL

\* No two threads ever share a stack.
THEOREM OneOnAStack == Spec => StackFree
<1>1. IInv /\ [Next]_vars =>
        [\A t \in Threads :
            thread'[t] = "created" /\ thread[t] # "created" => thread[t] = "none"]_vars
  <2> SUFFICES ASSUME IInv, Next, NEW t \in Threads,
                      thread'[t] = "created", thread[t] # "created"
               PROVE  thread[t] = "none"
    OBVIOUS
  <2> USE DEF IInv, TypeOK
  <2>1. CASE Create
    <3>1. t = At
      BY <2>1 DEF Create
    <3>2. pc = "create" /\ At[1] = mon /\ At[2] = core
      BY <2>1, AtType DEF Create
    <3> QED
      BY <3>1, <3>2 DEF StartedSoFar, Starting
  <2>2. CASE Next /\ ~Create
    <3>1. \/ UNCHANGED thread
          \/ thread' = [thread EXCEPT ![At] = "check"]
          \/ thread' = [thread EXCEPT ![At] = "none"]
          \/ \E s \in Threads : \E x \in {"exited", "read", "check"} :
                thread' = [thread EXCEPT ![s] = x]
      BY <2>2 DEF Next, Server, Caller, Turn, StartCpu, StartGen, StartThread, StartFails,
         Stop, Close, Check, Store
    <3> QED
      BY <3>1
  <2> QED
    BY <2>1, <2>2
<1> QED
  BY <1>1, Invariance, PTL DEF Spec, StackFree

-----------------------------------------------------------------------------
(* The promise *)

LEMMA OnSame ==
    ASSUME UNCHANGED running, pc # "wait", pc' # "wait"
    PROVE  On' = On
BY DEF On

\* Whatever can fail, the server thread may take start and stop for one step each
\* and the readings for those of monitors that are on.
THEOREM KeepsPromise == Spec => Implements
<1>1. Init => Promise!Init
  BY DEF Init, Promise!Init, Promise!Mons, Promise!Threads, On, Mons, Threads
<1>2. IInv /\ [Next]_vars => [Promise!Next]_(Promise!vars)
  <2> SUFFICES ASSUME IInv, [Next]_vars
               PROVE  Promise!Next \/ UNCHANGED <<On, reading>>
    BY DEF Promise!vars
  <2> USE DEF IInv, TypeOK
  <2>1. ASSUME NEW m \in Mons, pc = "idle", Begin(m, "create"), UNCHANGED reading
        PROVE  Promise!Next
    <3>1. On' = [On EXCEPT ![m] = TRUE]
      BY <2>1 DEF Begin, On
    <3> QED
      BY <2>1, <3>1 DEF Promise!Next, Promise!Start, Promise!Mons, Mons
  <2>2. CASE StartCpu
    BY <2>1, <2>2 DEF StartCpu, Mons
  <2>3. ASSUME NEW md \in GenModes, StartGen(md)
        PROVE  Promise!Next \/ UNCHANGED <<On, reading>>
    <3>1. CASE Begin("gen", "create")
      BY <2>1, <2>3, <3>1 DEF StartGen, Mons
    <3>2. CASE UNCHANGED <<call, running>>
      BY <2>3, <3>2 DEF StartGen, call, On
    <3> QED
      BY <2>3, <3>1, <3>2 DEF StartGen
  <2>4. CASE Create \/ StartFails
    BY <2>4, FaultsAssumption, OnSame DEF Create, StartFails
  <2>5. CASE StartThread
    BY <2>5, OnSame DEF StartThread, Advance
  <2>6. ASSUME NEW m \in Mons, Stop(m) PROVE UNCHANGED <<On, reading>>
    BY <2>6 DEF Stop, Begin, On
  <2>7. CASE Close
    <3>1. pc = "wait" /\ ~running[mon] /\ UNCHANGED <<mon, running, reading>>
      BY <2>7 DEF Close, InCall
    <3>2. CASE pc' = "wait"
      BY <3>1, <3>2 DEF On
    <3>3. CASE pc' # "wait"
      <4>1. On' = [On EXCEPT ![mon] = FALSE]
        BY <3>1, <3>3 DEF On
      <4> QED
        BY <3>1, <4>1 DEF Promise!Next, Promise!Stop, Promise!Mons, Mons
    <3> QED
      BY <3>2, <3>3
  <2>8. ASSUME NEW t \in Threads, Turn(t) PROVE Promise!Next \/ UNCHANGED <<On, reading>>
    <3>1. UNCHANGED <<pc, mon, running>>
      BY <2>8 DEF Turn, Check, Store, call
    <3>2. UNCHANGED On
      BY <3>1 DEF On
    <3>3. CASE Check(t)
      BY <3>2, <3>3 DEF Check
    <3>4. CASE Store(t)
      <4>1. On[t[1]]
        BY <3>4, ThreadType DEF Store, Owned, On
      <4>2. Promise!Sample(t)
        BY <3>2, <3>4, <4>1 DEF Store, Promise!Sample
      <4> QED
        BY <4>2 DEF Promise!Next, Promise!Threads, Promise!Mons, Threads, Mons
    <3> QED
      BY <2>8, <3>3, <3>4 DEF Turn
  <2>9. CASE UNCHANGED vars
    BY <2>9 DEF vars, call, On
  <2> QED
    BY <2>2, <2>3, <2>4, <2>5, <2>6, <2>7, <2>8, <2>9 DEF Next, Server, Caller
<1> QED
  BY <1>1, <1>2, Invariance, PTL DEF Spec, Implements, Promise!Spec

-----------------------------------------------------------------------------
(***************************************************************************)
(* What brings a call to its end.                                          *)
(***************************************************************************)

\* The thread a stop waits for has its flag down: a turn of its own takes it out
\* of its loop, or to the head of it for the last time.
LEMMA WaitedForLeaves ==
    ASSUME IInv, pc # "idle", Turn(At)
    PROVE  pc = "wait" /\ call' = call /\ Left(At)' < Left(At)
<1> USE DEF IInv, TypeOK
<1>1. At \in Threads /\ At[1] = mon /\ At[2] = core
  BY AtType
<1>2. UNCHANGED <<pc, mon, core>> /\ thread[At] \in {"check", "read"}
  BY DEF Turn, Check, Store, call
<1>3. pc = "wait"
  BY <1>1, <1>2 DEF StartedSoFar, Starting
<1>4. ~running[At[1]] /\ At' = At
  BY <1>1, <1>2, <1>3 DEF InCall, At
<1>5. \/ thread[At] = "check" /\ thread'[At] = "exited"
      \/ thread[At] = "read" /\ thread'[At] = "check"
  BY <1>1, <1>4 DEF Turn, Check, Store
<1>6. Left(At)' < Left(At)
  BY <1>4, <1>5 DEF Left
<1> QED
  BY <1>2, <1>3, <1>6 DEF call

\* Every step the server takes in a call brings it on.
LEMMA ServerNearer ==
    ASSUME IInv, Server
    PROVE  Nearer
<1> USE DEF IInv, TypeOK
<1>1. CASE Create
  BY <1>1 DEF Create, Nearer
<1>2. CASE StartThread \/ Close
  BY <1>2 DEF StartThread, Close, Advance, Nearer
<1>3. CASE StartFails
  BY <1>3 DEF StartFails, Nearer
<1> QED
  BY <1>1, <1>2, <1>3 DEF Server

\* In start and in stop each step, whatever fails, is on the way to the end of the
\* call: no thread is gone back to, and the one waited for does not start over.
THEOREM AlwaysNearer == Spec => Progress
<1>1. IInv /\ [Next]_vars =>
        [pc # "idle" =>
            \/ Nearer
            \/ (\E t \in Threads \ {At} : Turn(t)) /\ UNCHANGED <<call, thread[At]>>]_vars
  <2> SUFFICES ASSUME IInv, Next, pc # "idle"
               PROVE  \/ Nearer
                      \/ /\ \E t \in Threads \ {At} : Turn(t)
                         /\ UNCHANGED <<call, thread[At]>>
    OBVIOUS
  <2>1. CASE Server
    BY <2>1, ServerNearer
  <2>2. ~Caller
    BY DEF Caller, StartCpu, StartGen, Stop
  <2>3. ASSUME NEW t \in Threads, Turn(t), t # At
        PROVE  UNCHANGED <<call, thread[At]>>
    <3>1. UNCHANGED call /\ At' = At
      BY <2>3 DEF Turn, Check, Store, call, At
    <3>2. At \in Threads
      BY AtType DEF IInv
    <3>3. thread'[At] = thread[At]
      BY <2>3, <3>2 DEF Turn, Check, Store, IInv, TypeOK
    <3> QED
      BY <3>1, <3>3
  <2>4. CASE Turn(At)
    BY <2>4, WaitedForLeaves DEF Nearer
  <2> QED
    BY <2>1, <2>2, <2>3, <2>4 DEF Next
<1> QED
  BY <1>1, Invariance, PTL DEF Spec, Progress
=============================================================================
