---------------------------- MODULE SysRgbProofs ----------------------------
(***************************************************************************)
(* Proofs about the server thread of the sysmodule, for every set of       *)
(* configurations, readings and raw writes and every set of disturbances.  *)
(***************************************************************************)
EXTENDS SysRgb, TLAPS

\* Setting a configuration up in the image of the registers yields an image:
\* the conversion of a CfgItem's floats stays in the registers' type.
LEMMA RegForType ==
    ASSUME NEW r \in [Registers -> Nat], NEW c \in CfgSets
    PROVE  RegFor(r, c) \in [Registers -> Nat]
<1> SUFFICES ASSUME NEW x \in Registers
             PROVE  RegFor(r, c)[x] \in Nat
  BY DEF RegFor
<1>1. CASE x \in {"mode", "num_pixels"}
  BY <1>1 DEF RegFor, CfgSets, RgbModes, Registers
<1>2. CASE x \notin {"mode", "num_pixels"} /\ x \in ItemRegisters(c.mode)
  <2>1. x \in {"hue", "speed", "brightness"}
    BY <1>2 DEF ItemRegisters
  <2>2. c[x] \in Nat
    BY <2>1 DEF CfgSets
  <2> QED
    BY <1>2, <2>2 DEF RegFor, F2U32
<1>3. CASE x \notin {"mode", "num_pixels"} /\ x \notin ItemRegisters(c.mode)
  BY <1>3 DEF RegFor
<1> QED
  BY <1>1, <1>2, <1>3

LEMMA DefaultCfgType == DefaultCfg \in CfgSets
BY DEF DefaultCfg, CfgSets, RgbModes, RgbMode_Off, One, U32F_SCALE

LEMMA OneType == One \in Nat \ {0}
BY DEF One, U32F_SCALE

\* What the two processors start with are images of the registers.
LEMMA BootTypes == BootReg \in [Registers -> Nat] /\ BootDev \subseteq [Registers -> Nat]
<1>1. \A f \in Nat : F2U32(f) \in Nat
  BY DEF F2U32
<1>2. One \in Nat /\ 5000 * One \in Nat
  BY DEF One, U32F_SCALE
<1>3. F2U32(One) \in Nat /\ F2U32(5000 * One) \in Nat /\ F2U32(0) \in Nat
  BY <1>1, <1>2
<1>4. BootReg \in [Registers -> Nat]
  BY <1>3 DEF BootReg, RgbMode_Off
<1>5. BootDev \subseteq [Registers -> Nat]
  BY <1>3, <1>4 DEF BootDev, RgbMode_Off, RgbMode_Cycle
<1> QED
  BY <1>4, <1>5

-----------------------------------------------------------------------------
LEMMA SetupType ==
    ASSUME TypeOK, NEW c \in Configs \cup {DefaultCfg},
           NEW k1 \in BOOLEAN, NEW k2 \in BOOLEAN, Setup(c, k1, k2)
    PROVE  /\ reg' \in [Registers -> Nat]
           /\ cpu' \in BOOLEAN /\ gen' \in BOOLEAN /\ genMode' \in GenModes
           /\ cfgState' \in CfgStates /\ sendState' = 0
<1>1. c \in CfgSets
  BY ConfigsAssumption, DefaultCfgType
<1>2. reg' \in [Registers -> Nat]
  BY <1>1, RegForType DEF TypeOK, Setup
<1>3. NeedsCpu(c) \in BOOLEAN /\ NeedsGen(c) \in BOOLEAN /\ GenModeFor(c) \in GenModes
  BY <1>1 DEF NeedsCpu, NeedsGen, GenModeFor, GenModes
<1>4. cpu' \in BOOLEAN /\ gen' \in BOOLEAN
  BY <1>3 DEF Setup
<1>5. genMode' \in GenModes
  BY <1>3 DEF Setup, TypeOK
<1> QED
  BY <1>2, <1>4, <1>5 DEF Setup, CfgStates

\* The value Refresh stores is a number of the register's range.
LEMMA ScaleType == TypeOK => ScaleStored \in Nat
<1> SUFFICES ASSUME TypeOK PROVE ScaleStored \in Nat
  OBVIOUS
<1>1. CpuGet \in Nat /\ GenGet \in Nat
  BY OneType DEF TypeOK, CpuGet, GenGet
<1>2. ScaleValue \in Nat
  BY <1>1 DEF ScaleValue
<1>3. ScaleValue \div One \in Nat
  BY <1>2, OneType
<1>4. F2U32(ScaleValue) \in Nat
  BY <1>2 DEF F2U32
<1> QED
  BY <1>3, <1>4 DEF ScaleStored

LEMMA SendRegisterType == \A s : SendRegister(s) \in Registers
BY DEF SendRegister, Registers

LEMMA SentType ==
    ASSUME TypeOK, NEW r \in Registers, Sent(r)
    PROVE  dev' \in [Registers -> Nat] /\ stale' \subseteq Registers
BY DEF TypeOK, Sent

LEMMA InitType == Init => TypeOK
<1> SUFFICES ASSUME Init PROVE TypeOK
  OBVIOUS
<1>1. reg \in [Registers -> Nat] /\ dev \in [Registers -> Nat]
  BY BootTypes DEF Init
<1>2. idle \in 0..One /\ temp \in 0..One
  BY OneType DEF Init
<1>3. file \in Files
  BY DEF Init, Files
<1>4. stale \subseteq Registers /\ sendState \in 0..7 /\ cfg \in Configs \cup {DefaultCfg}
  BY DEF Init
<1> QED
  BY <1>1, <1>2, <1>3, <1>4 DEF Init, TypeOK, Pcs, CfgStates, GenModes

\* Every content a save leaves behind, whole or in part, is one a file may have.
LEMMA SavedTypes ==
    /\ \A k \in {"absent", "empty", "long", "junk"} : File(k) \in Files
    /\ TypeOK => Overlaid \subseteq Files /\ CutOff \subseteq Files
<1>1. \A k \in {"absent", "empty", "long", "junk"} : File(k) \in Files
  BY DEF Files
<1>2. ASSUME TypeOK PROVE Overlaid \subseteq Files /\ CutOff \subseteq Files
  <2>1. \A c \in Configs \cup {DefaultCfg} : FileOf(c) \in Files
    BY DEF Files
  <2>2. file \in Files /\ FileOf(cfg) \in Files
    BY <1>2, <2>1 DEF TypeOK
  <2> QED
    BY <1>1, <2>1, <2>2 DEF Overlaid, CutOff
<1> QED
  BY <1>1, <1>2

LEMMA NextType == TypeOK /\ [Next]_vars => TypeOK'
<1> SUFFICES ASSUME TypeOK, [Next]_vars PROVE TypeOK'
  OBVIOUS
<1> USE DEF TypeOK, conf, power, drive, mons, readings, card, bus
<1>1. CASE TimerTick
  BY <1>1 DEF TimerTick, Pcs
<1>2. CASE SaveDelete \/ DeleteFails
  BY <1>2, SavedTypes DEF SaveDelete, DeleteFails, SaveStep, Touched, Pcs
<1>3. CASE SaveCreate \/ CreateFails
  BY <1>3, SavedTypes DEF SaveCreate, CreateFails, SaveStep, Touched, Pcs
<1>4. CASE SaveWrite
  <2>1. file' \in Files /\ lost' \in BOOLEAN
    BY <1>4, SavedTypes DEF SaveWrite
  <2> QED
    BY <1>4, <2>1 DEF SaveWrite, Touched, Pcs
<1>5. CASE SaveStamp \/ StampFails
  BY <1>5 DEF SaveStamp, StampFails, SaveStamped, Stamp, Pcs
<1>6. CASE SaveUnopened \/ SaveFails
  <2>1. file' \in Files /\ mtime' \in {"zero", "seen", "old"}
    BY <1>6, SavedTypes DEF SaveUnopened, SaveFails, Touched
  <2>2. SaveEnds
    BY <1>6 DEF SaveUnopened, SaveFails
  <2>3. Trusted' \in BOOLEAN
    BY DEF Trusted
  <2>4. lost' \in BOOLEAN
    BY <2>2, <2>3, Zenon DEF SaveEnds
  <2>5. pc = "write" /\ cfgChanged' = FALSE /\ pc' = "refresh"
    BY <1>6, <2>2, Zenon DEF SaveUnopened, SaveFails, SaveEnds
  <2>6. UNCHANGED <<cfg, loaded, due, power, drive, mons, readings, bus>>
    BY <2>2, Zenon DEF SaveEnds
  <2> QED
    BY <2>1, <2>4, <2>5, <2>6 DEF Pcs
<1>7. CASE RefreshFile \/ RefreshUnstamped
  <2>1. PICK m \in {"zero", "seen"} : RefreshWith(m)
    BY <1>7 DEF RefreshFile, RefreshUnstamped, Stamp
  <2>2. /\ pc = "refresh" /\ pc' \in {"load", "apply"} /\ due' = FALSE
        /\ mtime' \in {m, mtime}
    BY <2>1 DEF RefreshWith
  <2>3. UNCHANGED <<cfg, loaded, cfgChanged, power, drive, mons, readings, card, bus>>
    BY <2>1 DEF RefreshWith
  <2>4. sendState' \in IF pc' = "update" THEN 1..6 ELSE 0..7
    BY <2>2, <2>3
  <2>5. pc' \in Pcs /\ mtime' \in {"zero", "seen", "old"} /\ due' \in BOOLEAN
    BY <2>2 DEF Pcs
  <2>6. /\ cfg' \in Configs \cup {DefaultCfg} /\ loaded' \in BOOLEAN
        /\ cfgChanged' \in BOOLEAN /\ lost' \in BOOLEAN /\ file' \in Files
    BY <2>3
  <2> QED
    BY <2>3, <2>4, <2>5, <2>6
<1>8. CASE Load
  <2>1. Parse(file) \in Configs \cup {DefaultCfg}
    BY DEF Parse, Files, File, FileOf
  <2> QED
    BY <1>8, <2>1 DEF Load, Pcs, CfgStates
<1>9. CASE LoadFails \/ LoadError
  BY <1>9 DEF LoadFails, LoadError, LoadClosed, Pcs
<1>10. CASE ApplyInit
  BY <1>10, SetupType DEF ApplyInit, Pcs
<1>11. CASE ApplyNothing
  BY <1>11 DEF ApplyNothing, Pcs
<1>12. CASE OpenFails
  BY <1>12 DEF OpenFails, Pcs
<1>13. CASE ApplyUpdate
  BY <1>13 DEF ApplyUpdate, Pcs
<1>14. CASE ApplyRefresh
  BY <1>14, ScaleType DEF ApplyRefresh, Pcs
<1>15. CASE SendUpdate
  <2>1. dev' \in [Registers -> Nat] /\ stale' \subseteq Registers
    BY <1>15, SentType, SendRegisterType DEF SendUpdate
  <2>2. sendState' \in IF pc' = "update" THEN 1..6 ELSE 0..7
    BY <1>15 DEF SendUpdate
  <2>3. pc' \in Pcs /\ cfgState' \in CfgStates
    BY <1>15 DEF SendUpdate, Pcs, CfgStates
  <2> QED
    BY <1>15, <2>1, <2>2, <2>3 DEF SendUpdate
<1>16. CASE SendScale
  <2>1. Sent("scale")
    BY <1>16 DEF SendScale
  <2> QED
    BY <1>16, <2>1, SentType DEF SendScale, Pcs, Registers
<1>17. CASE SendOff
  BY <1>17, SentType DEF SendOff, Pcs, Registers
<1>18. ASSUME NEW c \in Configs, SetConfigValues(c) PROVE TypeOK'
  <2>1. (cpu /\ ~StopsCpu(cfg, c)) \in BOOLEAN /\ (gen /\ ~StopsGen(cfg, c)) \in BOOLEAN
    OBVIOUS
  <2> DEFINE keepCpu == cpu /\ ~StopsCpu(cfg, c)
             keepGen == gen /\ ~StopsGen(cfg, c)
  <2>2. Setup(c, keepCpu, keepGen) /\ keepCpu \in BOOLEAN /\ keepGen \in BOOLEAN
    BY <1>18, <2>1 DEF SetConfigValues
  <2>3. c \in Configs \cup {DefaultCfg}
    OBVIOUS
  <2> HIDE DEF keepCpu, keepGen
  <2>4. /\ reg' \in [Registers -> Nat]
        /\ cpu' \in BOOLEAN /\ gen' \in BOOLEAN /\ genMode' \in GenModes
        /\ cfgState' \in CfgStates /\ sendState' = 0
    BY <2>2, <2>3, SetupType
  <2> QED
    BY <1>18, <2>4 DEF SetConfigValues
<1>19. ASSUME NEW w \in RawWrites, SendI2c(w[1], w[2]) PROVE TypeOK'
  BY <1>19, RawWritesAssumption DEF SendI2c
<1>20. CASE SleepReady
  BY <1>20 DEF SleepReady, Pcs, CfgStates, RgbMode_Off
<1>21. CASE FullAwake
  BY <1>21 DEF FullAwake
<1>22. CASE CpuSample
  BY <1>22, SamplesAssumption DEF CpuSample
<1>23. CASE GenSample
  BY <1>23, SamplesAssumption DEF GenSample
<1>24. CASE Elapse
  BY <1>24 DEF Elapse
<1>25. ASSUME NEW f \in Files, EditFile(f) PROVE TypeOK'
  <2>1. Trusted' \in BOOLEAN
    BY <1>25 DEF EditFile, Trusted
  <2> QED
    BY <1>25, <2>1 DEF EditFile, Touched
<1>26. CASE PowerLoss
  <2>1. reg' \in [Registers -> Nat] /\ dev' \in [Registers -> Nat]
    BY <1>26, BootTypes DEF PowerLoss
  <2>2. idle' \in 0..One /\ temp' \in 0..One
    BY <1>26, OneType DEF PowerLoss
  <2>3. file' \in Files
    BY <1>26, SavedTypes DEF PowerLoss
  <2>4. stale' \subseteq Registers /\ sendState' \in 0..7 /\ pc' = "wait"
    BY <1>26 DEF PowerLoss
  <2> QED
    BY <1>26, <2>1, <2>2, <2>3, <2>4 DEF PowerLoss, Pcs, CfgStates, GenModes
<1>27. CASE UNCHANGED vars
  BY <1>27 DEF vars
<1> QED
  BY <1>1, <1>2, <1>3, <1>4, <1>5, <1>6, <1>7, <1>8, <1>9, <1>10, <1>11, <1>12,
     <1>13, <1>14, <1>15, <1>16, <1>17, <1>18, <1>19, <1>20, <1>21, <1>22, <1>23,
     <1>24, <1>25, <1>26, <1>27 DEF Next, Timer, Fault, Client, Environment

\* The variables keep their types: in particular pc, cfgState and sendState
\* never leave their enumerations and every register stays a number.
THEOREM TypeCorrect == Spec => []TypeOK
BY InitType, NextType, PTL DEF Spec

-----------------------------------------------------------------------------
(***************************************************************************)
(* The inductive invariant.  Progress of the thread ties pc to the flags:  *)
(* a save is under way only for a change, and a look at the file only      *)
(* after it; a send of all registers only from Update; and while the       *)
(* console sleeps the thread only waits or switches the LEDs off.          *)
(***************************************************************************)
ThreadInv ==
    /\ pc \in {"save", "create", "write", "stamp"} => cfgChanged
    /\ pc \in {"refresh", "load"} => ~cfgChanged
    /\ pc = "update" => cfgState = "Update"
    /\ pc = "scale" => cfgState = "Refresh"
    /\ pc = "off" => sleeping /\ reg["mode"] = RgbMode_Off /\ cfgState = "Init"
    /\ sleeping => ~timer /\ pc \in {"wait", "off"}

\* A change that is still to be saved is in the image: no reload came after it.
ChangeInImage ==
    cfgChanged /\ cfgState \in {"Update", "Refresh"} => reg = RegFor(reg, cfg)

\* DeviceFollowsImage from the start of the send on.
DeviceCatchesUp ==
    cfgState = "Refresh" \/ pc = "update" =>
        \A r \in Registers \ (Pending \cup stale) : dev[r] = reg[r]

IInv ==
    /\ TypeOK
    /\ ThreadInv
    /\ MonitorsServeMode
    /\ ChangeInImage
    /\ ImageFollowsConfig
    /\ DeviceCatchesUp
    /\ SleepDark

-----------------------------------------------------------------------------
\* The steps that touch neither the configuration, nor what is derived from it,
\* nor the RP2040: those of the card, the clock and the monitors' readings.
QuietStep ==
    \/ TimerTick \/ SaveDelete \/ DeleteFails \/ SaveCreate \/ CreateFails
    \/ SaveWrite \/ SaveUnopened \/ SaveFails \/ SaveStamp \/ StampFails
    \/ RefreshFile \/ RefreshUnstamped \/ ApplyNothing \/ OpenFails
    \/ CpuSample \/ GenSample \/ Elapse \/ \E f \in Files : EditFile(f)
    \/ UNCHANGED vars

\* The steps that write to the RP2040 and leave the configuration alone.
BusStep ==
    SendUpdate \/ SendScale \/ SendOff \/ \E w \in RawWrites : SendI2c(w[1], w[2])

LEMMA Steps ==
    [Next]_vars =>
        \/ QuietStep \/ BusStep
        \/ Load \/ LoadFails \/ LoadError
        \/ ApplyInit \/ ApplyUpdate \/ ApplyRefresh
        \/ \E c \in Configs : SetConfigValues(c)
        \/ SleepReady \/ FullAwake \/ PowerLoss
BY DEF Next, Timer, Fault, Client, Environment, QuietStep, BusStep

LEMMA QuietFrame == QuietStep => UNCHANGED <<cfg, power, drive, mons, bus>>
BY DEF QuietStep, TimerTick, SaveDelete, DeleteFails, SaveCreate, CreateFails, SaveStep,
       SaveWrite, SaveUnopened, SaveFails, SaveEnds, SaveStamp, StampFails, SaveStamped,
       RefreshFile, RefreshUnstamped, RefreshWith, ApplyNothing, OpenFails, CpuSample,
       GenSample, Elapse, EditFile, vars, conf, power, drive, mons, readings, card, bus

\* Of them only the end of a save, good or not, takes back cfgChanged or sets loaded;
\* and the thread goes on among the places of a save and a look at the file.
LEMMA QuietFlags ==
    ASSUME ThreadInv, QuietStep
    PROVE  /\ cfgChanged' => cfgChanged
           /\ loaded' = loaded \/ (cfgChanged /\ loaded' = TRUE)
           /\ pc' = pc \/ {pc, pc'} \cap {"update", "scale", "off"} = {}
           /\ sleeping => pc' = pc
BY DEF ThreadInv, QuietStep, TimerTick, SaveDelete, DeleteFails, SaveCreate, CreateFails,
       SaveStep, SaveWrite, SaveUnopened, SaveFails, SaveEnds, SaveStamp, StampFails,
       SaveStamped, RefreshFile, RefreshUnstamped, RefreshWith, ApplyNothing, OpenFails,
       CpuSample, GenSample, Elapse, EditFile, vars, conf

LEMMA BusFrame == BusStep => UNCHANGED <<conf, power, reg, mons>>
BY DEF BusStep, SendUpdate, SendScale, SendOff, SendI2c,
       conf, power, drive, mons, readings, card, bus

\* What a step may do to the configuration and what is derived from it.
LEMMA MonitorsStep == IInv /\ [Next]_vars => MonitorsServeMode'
<1> SUFFICES ASSUME IInv, [Next]_vars PROVE MonitorsServeMode'
  OBVIOUS
<1> USE DEF IInv, TypeOK, ThreadInv, MonitorsServeMode, NeedsCpu, NeedsGen, GenModeFor
<1>1. CASE QuietStep
  BY <1>1, QuietFrame DEF drive, mons
<1>2. CASE BusStep
  <2>1. UNCHANGED <<cfg, cpu, gen, genMode>>
    BY <1>2, BusFrame DEF conf, mons
  <2>2. cfgState' \in {"Update", "Refresh"} => cfgState \in {"Update", "Refresh"}
    BY <1>2 DEF BusStep, SendUpdate, SendScale, SendOff, SendI2c, drive
  <2> QED
    BY <2>1, <2>2
<1>3. CASE Load
  BY <1>3 DEF Load
<1>4. CASE LoadFails \/ LoadError
  BY <1>4 DEF LoadFails, LoadError, LoadClosed, drive, mons, DefaultCfg,
          RgbMode_Off, RgbMode_Load, RgbMode_Temperature
<1>5. CASE ApplyInit
  BY <1>5 DEF ApplyInit, Setup, conf
<1>6. CASE ApplyUpdate \/ ApplyRefresh
  BY <1>6 DEF ApplyUpdate, ApplyRefresh, conf, mons
<1>7. ASSUME NEW c \in Configs, SetConfigValues(c) PROVE MonitorsServeMode'
  BY <1>7 DEF SetConfigValues, Setup
<1>8. CASE SleepReady \/ PowerLoss
  BY <1>8 DEF SleepReady, PowerLoss
<1>9. CASE FullAwake
  BY <1>9 DEF FullAwake, conf, drive, mons
<1> QED
  BY <1>1, <1>2, <1>3, <1>4, <1>5, <1>6, <1>7, <1>8, <1>9, Steps

LEMMA ThreadStep == IInv /\ [Next]_vars => ThreadInv'
<1> SUFFICES ASSUME IInv, [Next]_vars PROVE ThreadInv'
  OBVIOUS
<1> USE DEF IInv, ThreadInv, conf, power, drive, mons, readings, card, bus
<1>1. CASE \/ TimerTick \/ SaveDelete \/ DeleteFails \/ SaveCreate \/ CreateFails
           \/ SaveWrite
  BY <1>1 DEF TimerTick, SaveDelete, DeleteFails, SaveCreate, CreateFails, SaveStep,
     SaveWrite
<1>2. CASE SaveUnopened \/ SaveFails \/ SaveStamp \/ StampFails
  BY <1>2 DEF SaveUnopened, SaveFails, SaveEnds, SaveStamp, StampFails, SaveStamped
<1>3. CASE RefreshFile \/ RefreshUnstamped
  BY <1>3 DEF RefreshFile, RefreshUnstamped, RefreshWith
<1>4. CASE Load \/ LoadFails \/ LoadError
  BY <1>4 DEF Load, LoadFails, LoadError, LoadClosed
<1>5. CASE ApplyInit
  BY <1>5 DEF ApplyInit
<1>6. CASE ApplyNothing \/ OpenFails \/ ApplyUpdate \/ ApplyRefresh
  BY <1>6 DEF ApplyNothing, OpenFails, ApplyUpdate, ApplyRefresh
<1>7. CASE SendUpdate \/ SendScale \/ SendOff
  BY <1>7 DEF SendUpdate, SendScale, SendOff
<1>8. ASSUME NEW c \in Configs, SetConfigValues(c) PROVE ThreadInv'
  BY <1>8 DEF SetConfigValues
<1>9. ASSUME NEW w \in RawWrites, SendI2c(w[1], w[2]) PROVE ThreadInv'
  BY <1>9 DEF SendI2c
<1>10. CASE SleepReady
  BY <1>10 DEF SleepReady, TypeOK, Registers
<1>11. CASE FullAwake \/ PowerLoss
  BY <1>11 DEF FullAwake, PowerLoss
<1>12. CASE CpuSample \/ GenSample \/ Elapse \/ UNCHANGED vars
  BY <1>12 DEF CpuSample, GenSample, Elapse, vars
<1>13. ASSUME NEW f \in Files, EditFile(f) PROVE ThreadInv'
  BY <1>13 DEF EditFile
<1> QED
  BY <1>1, <1>2, <1>3, <1>4, <1>5, <1>6, <1>7, <1>8, <1>9, <1>10, <1>11, <1>12, <1>13
  DEF Next, Timer, Fault, Client, Environment

\* Setting up what has been set up changes nothing, and neither does the scale
\* that Refresh stores: no CfgItem supplies it.
LEMMA RegForIdempotent ==
    ASSUME NEW r, NEW c PROVE RegFor(RegFor(r, c), c) = RegFor(r, c)
BY DEF RegFor

LEMMA RegForScale ==
    ASSUME NEW r \in [Registers -> Nat], NEW c, NEW v, r = RegFor(r, c)
    PROVE  LET q == [r EXCEPT !["scale"] = v] IN q = RegFor(q, c)
<1> DEFINE q == [r EXCEPT !["scale"] = v]
<1>1. "scale" \notin ItemRegisters(c.mode) /\ "scale" \notin {"mode", "num_pixels"}
  BY DEF ItemRegisters
<1>2. \A x \in Registers : q[x] = IF x = "scale" THEN v ELSE r[x]
  OBVIOUS
<1>3. \A x \in Registers : RegFor(r, c)[x] = r[x]
  OBVIOUS
<1>4. ASSUME NEW x \in Registers PROVE RegFor(q, c)[x] = q[x]
  <2>1. CASE x = "scale"
    BY <1>1, <2>1 DEF RegFor
  <2>2. CASE x # "scale"
    <3>1. RegFor(q, c)[x] = RegFor(r, c)[x]
      BY <1>2, <2>2 DEF RegFor
    <3> QED
      BY <1>2, <1>3, <2>2, <3>1
  <2> QED
    BY <2>1, <2>2
<1>5. RegFor(q, c) = [x \in Registers |-> RegFor(q, c)[x]]
  BY DEF RegFor
<1>6. q = [x \in Registers |-> q[x]]
  OBVIOUS
<1> HIDE DEF q
<1>7. q = RegFor(q, c)
  BY <1>4, <1>5, <1>6
<1> QED
  BY <1>7 DEF q

\* The image follows the configuration, and a change is never reloaded away.
LEMMA ImageStep == IInv /\ [Next]_vars => (ChangeInImage /\ ImageFollowsConfig)'
<1> SUFFICES ASSUME IInv, [Next]_vars PROVE (ChangeInImage /\ ImageFollowsConfig)'
  OBVIOUS
<1> USE DEF IInv, ChangeInImage, ImageFollowsConfig
<1>1. CASE QuietStep
  <2>1. UNCHANGED <<cfg, cfgState, reg>>
    BY <1>1, QuietFrame DEF drive
  <2>2. (cfgChanged' => cfgChanged) /\ (loaded' = loaded \/ cfgChanged)
    BY <1>1, QuietFlags
  <2>3. ChangeInImage'
    BY <2>1, <2>2
  <2>4. CASE loaded' = loaded
    BY <2>1, <2>3, <2>4
  <2>5. CASE cfgChanged
    BY <2>1, <2>3, <2>5
  <2> QED
    BY <2>2, <2>4, <2>5
<1>2. CASE BusStep
  <2>1. UNCHANGED <<cfg, cfgChanged, loaded, reg>>
    BY <1>2, BusFrame DEF conf
  <2>2. cfgState' \in {"Update", "Refresh"} => cfgState \in {"Update", "Refresh"}
    BY <1>2 DEF BusStep, SendUpdate, SendScale, SendOff, SendI2c, drive, ThreadInv
  <2> QED
    BY <2>1, <2>2
<1>3. CASE Load \/ SleepReady \/ PowerLoss
  BY <1>3 DEF Load, SleepReady, PowerLoss
<1>4. CASE LoadFails \/ LoadError
  BY <1>4 DEF LoadFails, LoadError, LoadClosed, ThreadInv
<1>5. CASE ApplyInit
  BY <1>5, RegForIdempotent DEF ApplyInit, Setup, conf
<1>6. CASE ApplyUpdate
  BY <1>6 DEF ApplyUpdate, conf
<1>7. CASE ApplyRefresh
  <2>1. UNCHANGED <<cfg, cfgChanged, loaded, cfgState>>
    BY <1>7 DEF ApplyRefresh, conf
  <2>2. reg = RegFor(reg, cfg) => reg' = RegFor(reg', cfg)
    BY <1>7, RegForScale DEF ApplyRefresh, TypeOK
  <2> QED
    BY <2>1, <2>2
<1>8. ASSUME NEW c \in Configs, SetConfigValues(c)
      PROVE (ChangeInImage /\ ImageFollowsConfig)'
  BY <1>8, RegForIdempotent DEF SetConfigValues, Setup
<1>9. CASE FullAwake
  BY <1>9 DEF FullAwake, conf, drive
<1> QED
  BY <1>1, <1>2, <1>3, <1>4, <1>5, <1>6, <1>7, <1>8, <1>9, Steps

\* Asleep, only HandleSleep's own send and raw writes reach the RP2040.
LEMMA DarkStep == IInv /\ [Next]_vars => SleepDark'
<1> SUFFICES ASSUME IInv, [Next]_vars PROVE SleepDark'
  OBVIOUS
<1> USE DEF IInv, ThreadInv, SleepDark
<1>1. CASE QuietStep
  <2>1. UNCHANGED <<sleeping, dev, stale>>
    BY <1>1, QuietFrame DEF power, bus
  <2> QED
    BY <1>1, <2>1, QuietFlags
<1>2. CASE SendUpdate \/ SendScale
  BY <1>2 DEF SendUpdate, SendScale, power
<1>3. CASE SendOff
  BY <1>3 DEF SendOff, Sent, drive, power, TypeOK, Registers
<1>4. ASSUME NEW w \in RawWrites, SendI2c(w[1], w[2]) PROVE SleepDark'
  <2>1. w[1] \in Registers
    BY RawWritesAssumption
  <2> QED
    BY <1>4, <2>1 DEF SendI2c, power, TypeOK
<1>5. CASE Load \/ LoadFails \/ LoadError \/ ApplyInit \/ ApplyUpdate \/ ApplyRefresh
  BY <1>5 DEF Load, LoadFails, LoadError, LoadClosed, ApplyInit, ApplyUpdate,
     ApplyRefresh, power
<1>6. ASSUME NEW c \in Configs, SetConfigValues(c) PROVE SleepDark'
  BY <1>6 DEF SetConfigValues, power, bus
<1>7. CASE SleepReady \/ FullAwake \/ PowerLoss
  BY <1>7 DEF SleepReady, FullAwake, PowerLoss
<1> QED
  BY <1>1, <1>2, <1>3, <1>4, <1>5, <1>6, <1>7, Steps DEF BusStep

\* The send of all registers begins with every register pending and ends with
\* none, each step settling the one it writes.
LEMMA AllPending == {SendRegister(s) : s \in 1..6} = Registers
<1>1. 1..6 = {1, 2, 3, 4, 5, 6}
  OBVIOUS
<1>2. /\ SendRegister(1) = "num_pixels" /\ SendRegister(2) = "brightness"
      /\ SendRegister(3) = "scale" /\ SendRegister(4) = "speed"
      /\ SendRegister(5) = "hue" /\ SendRegister(6) = "mode"
  BY DEF SendRegister
<1> QED
  BY <1>1, <1>2 DEF Registers

LEMMA PendingStep ==
    ASSUME NEW s \in 1..6
    PROVE  {SendRegister(k) : k \in s..6} =
               {SendRegister(s)} \cup {SendRegister(k) : k \in (s + 1)..6}
<1>1. s..6 = {s} \cup (s + 1)..6
  OBVIOUS
<1> QED
  BY <1>1

\* A step that leaves the image and the RP2040 alone keeps what they agree on,
\* when it neither starts nor ends a send.
LEMMA DeviceFrame ==
    ASSUME DeviceCatchesUp, UNCHANGED <<reg, bus, sendState>>,
           Pending' = Pending,
           cfgState' = "Refresh" \/ pc' = "update" => cfgState = "Refresh" \/ pc = "update"
    PROVE  DeviceCatchesUp'
BY DEF DeviceCatchesUp, bus

LEMMA DeviceStep == IInv /\ [Next]_vars => DeviceCatchesUp'
<1> SUFFICES ASSUME IInv, [Next]_vars PROVE DeviceCatchesUp'
  OBVIOUS
<1> USE DEF IInv, ThreadInv
<1>1. CASE QuietStep
  <2>1. UNCHANGED <<cfgState, sendState, reg, bus>>
    BY <1>1, QuietFrame DEF drive
  <2>2. pc' = pc \/ {pc, pc'} \cap {"update", "scale"} = {}
    BY <1>1, QuietFlags
  <2>3. Pending' = Pending
    BY <2>1, <2>2 DEF Pending
  <2> QED
    BY <2>1, <2>2, <2>3, DeviceFrame
<1>2. CASE SendUpdate
  <2>1. sendState \in 1..6 /\ sendState' = sendState + 1 /\ reg' = reg
    BY <1>2 DEF SendUpdate, TypeOK
  <2>2. Pending = {SendRegister(sendState)} \cup {SendRegister(k) : k \in (sendState + 1)..6}
    BY <1>2, <2>1, PendingStep DEF SendUpdate, Pending
  <2>3. {SendRegister(k) : k \in (sendState + 1)..6} = Pending'
    <3>1. CASE sendState = 6
      <4>1. pc' = "wait" /\ (sendState + 1)..6 = {}
        BY <1>2, <3>1 DEF SendUpdate
      <4> QED
        BY <4>1 DEF Pending
    <3>2. CASE sendState # 6
      BY <1>2, <2>1, <3>2 DEF SendUpdate, Pending
    <3> QED
      BY <3>1, <3>2
  <2>4. ASSUME NEW r \in Registers \ (Pending' \cup stale') PROVE dev'[r] = reg'[r]
    <3>1. Sent(SendRegister(sendState))
      BY <1>2 DEF SendUpdate
    <3>2. CASE r = SendRegister(sendState)
      BY <2>1, <3>1, <3>2 DEF Sent, TypeOK
    <3>3. CASE r # SendRegister(sendState)
      <4>1. r \in Registers \ (Pending \cup stale)
        BY <2>2, <2>3, <2>4, <3>1, <3>3 DEF Sent
      <4>2. dev[r] = reg[r]
        BY <1>2, <4>1 DEF SendUpdate, DeviceCatchesUp
      <4> QED
        BY <2>1, <3>1, <3>3, <4>2 DEF Sent, TypeOK
    <3> QED
      BY <3>2, <3>3
  <2> QED
    BY <2>4 DEF DeviceCatchesUp
<1>3. CASE SendScale
  <2>1. Pending = {"scale"} /\ Pending' = {} /\ cfgState = "Refresh" /\ reg' = reg
    BY <1>3 DEF SendScale, Pending, drive
  <2>2. ASSUME NEW r \in Registers \ stale' PROVE dev'[r] = reg'[r]
    BY <1>3, <2>1, <2>2 DEF SendScale, Sent, DeviceCatchesUp, TypeOK
  <2> QED
    BY <2>1, <2>2 DEF DeviceCatchesUp
<1>4. CASE SendOff
  BY <1>4 DEF SendOff, drive, DeviceCatchesUp
<1>5. ASSUME NEW w \in RawWrites, SendI2c(w[1], w[2]) PROVE DeviceCatchesUp'
  <2>1. w[1] \in Registers
    BY RawWritesAssumption
  <2>2. pc' = pc /\ pc = "wait" /\ UNCHANGED <<cfgState, reg>>
    BY <1>5 DEF SendI2c, drive
  <2>3. Pending = {} /\ Pending' = {}
    BY <2>2 DEF Pending
  <2> QED
    BY <1>5, <2>1, <2>2, <2>3 DEF SendI2c, DeviceCatchesUp, TypeOK
<1>6. CASE Load \/ SleepReady \/ PowerLoss \/ ApplyInit
  BY <1>6 DEF Load, SleepReady, PowerLoss, ApplyInit, Setup, DeviceCatchesUp
<1>7. CASE LoadFails \/ LoadError \/ FullAwake
  <2>1. UNCHANGED <<reg, bus, sendState, cfgState>>
    BY <1>7 DEF LoadFails, LoadError, LoadClosed, FullAwake, drive
  <2>2. {pc, pc'} \cap {"update", "scale"} = {}
    BY <1>7 DEF LoadFails, LoadError, LoadClosed, FullAwake
  <2>3. Pending' = Pending
    BY <2>2 DEF Pending
  <2> QED
    BY <2>1, <2>2, <2>3, DeviceFrame
<1>8. CASE ApplyUpdate
  <2>1. pc' = "update" /\ sendState' = 1
    BY <1>8 DEF ApplyUpdate
  <2>2. Pending' = Registers
    BY <2>1, AllPending DEF Pending
  <2> QED
    BY <2>2 DEF DeviceCatchesUp
<1>9. CASE ApplyRefresh
  <2>1. Pending = {} /\ Pending' = {"scale"} /\ cfgState = "Refresh"
    BY <1>9 DEF ApplyRefresh, Pending
  <2>2. UNCHANGED <<dev, stale>>
    BY <1>9 DEF ApplyRefresh, bus
  <2>3. \A r \in Registers \ {"scale"} : reg'[r] = reg[r]
    BY <1>9 DEF ApplyRefresh, TypeOK
  <2> QED
    BY <2>1, <2>2, <2>3 DEF DeviceCatchesUp
<1>10. ASSUME NEW c \in Configs, SetConfigValues(c) PROVE DeviceCatchesUp'
  BY <1>10 DEF SetConfigValues, Setup, DeviceCatchesUp
<1> QED
  BY <1>1, <1>2, <1>3, <1>4, <1>5, <1>6, <1>7, <1>8, <1>9, <1>10, Steps DEF BusStep

-----------------------------------------------------------------------------
LEMMA InitInv == Init => IInv
<1> SUFFICES ASSUME Init PROVE IInv
  OBVIOUS
<1>1. TypeOK
  BY InitType
<1>2. ThreadInv /\ MonitorsServeMode /\ ChangeInImage /\ ImageFollowsConfig
      /\ DeviceCatchesUp /\ SleepDark
  BY DEF Init, ThreadInv, MonitorsServeMode, ChangeInImage, ImageFollowsConfig,
         DeviceCatchesUp, SleepDark
<1> QED
  BY <1>1, <1>2 DEF IInv

LEMMA StepInv == IInv /\ [Next]_vars => IInv'
BY NextType, ThreadStep, MonitorsStep, ImageStep, DeviceStep, DarkStep DEF IInv

THEOREM Invariance == Spec => []IInv
BY InitInv, StepInv, PTL DEF Spec

\* The monitors a mode reads are running from the time the mode is set up.
THEOREM MonitorsRun == Spec => []MonitorsServeMode
<1>1. IInv => MonitorsServeMode
  BY DEF IInv
<1> QED
  BY <1>1, Invariance, PTL

\* The image sent is that of the configuration clients are told of.
THEOREM ImageIsConfig == Spec => []ImageFollowsConfig
<1>1. IInv => ImageFollowsConfig
  BY DEF IInv
<1> QED
  BY <1>1, Invariance, PTL

\* Once sent, the registers of the RP2040 are those of the image.
THEOREM DeviceIsImage == Spec => []DeviceFollowsImage
<1>1. IInv => DeviceFollowsImage
  BY DEF IInv, DeviceCatchesUp, DeviceFollowsImage
<1> QED
  BY <1>1, Invariance, PTL

\* The LEDs are off while the console sleeps.
THEOREM DarkAsleep == Spec => []SleepDark
<1>1. IInv => SleepDark
  BY DEF IInv
<1> QED
  BY <1>1, Invariance, PTL

\* A mode is switched on after the registers it uses: the send loop writes it
\* when nothing else is pending.
THEOREM ModeLast == Spec => ModeComesLast
<1>1. IInv /\ [Next]_vars =>
        [pc = "update" /\ sendState' # 0 /\ dev'["mode"] # dev["mode"] =>
            \A r \in Registers \ stale' : dev'[r] = reg'[r]]_vars
  <2> SUFFICES ASSUME IInv, Next, pc = "update", sendState' # 0, dev'["mode"] # dev["mode"],
                      NEW r \in Registers \ stale'
               PROVE  dev'[r] = reg'[r]
    OBVIOUS
  <2>1. SendUpdate
    <3>1. ~QuietStep
      BY QuietFrame DEF bus
    <3>2. ~Load /\ ~LoadFails /\ ~LoadError /\ ~ApplyInit /\ ~ApplyUpdate /\ ~ApplyRefresh
          /\ ~SendScale /\ ~SendOff /\ ~SleepReady /\ ~FullAwake /\ ~PowerLoss
      BY DEF Load, LoadFails, LoadError, LoadClosed, ApplyInit, ApplyUpdate, ApplyRefresh,
         SendScale, SendOff, SleepReady, FullAwake, PowerLoss, bus
    <3>3. /\ \A c \in Configs : ~SetConfigValues(c)
          /\ \A w \in RawWrites : ~SendI2c(w[1], w[2])
      BY DEF SetConfigValues, SendI2c
    <3> QED
      BY <3>1, <3>2, <3>3, Steps DEF BusStep
  <2>2. sendState \in 1..6 /\ reg' = reg
    BY <2>1 DEF SendUpdate, IInv, TypeOK
  <2>3. /\ dev' = [dev EXCEPT ![SendRegister(sendState)] = reg[SendRegister(sendState)]]
        /\ stale' = stale \ {SendRegister(sendState)}
    BY <2>1 DEF SendUpdate, Sent
  <2>4. SendRegister(sendState) = "mode"
    BY <2>3, SendRegisterType DEF IInv, TypeOK, Registers
  <2>5. sendState = 6
    BY <2>2, <2>4 DEF SendRegister
  <2>6. Pending = {"mode"}
    <3>1. sendState..6 = {6}
      BY <2>5
    <3> QED
      BY <2>4, <2>5, <3>1 DEF Pending
  <2>7. CASE r = "mode"
    BY <2>2, <2>3, <2>4, <2>7 DEF IInv, TypeOK
  <2>8. CASE r # "mode"
    <3>1. r \in Registers \ (Pending \cup stale)
      BY <2>3, <2>4, <2>6, <2>8
    <3>2. dev[r] = reg[r]
      BY <3>1 DEF IInv, DeviceCatchesUp
    <3> QED
      BY <2>2, <2>3, <2>4, <2>8, <3>2 DEF IInv, TypeOK
  <2> QED
    BY <2>7, <2>8
<1> QED
  BY <1>1, Invariance, PTL DEF Spec, ModeComesLast

-----------------------------------------------------------------------------
(* What is on the card *)

\* After the last operation of Save the file is the configuration, but for what
\* lost records; until then cfgChanged says that it is not.
CardInv == SettingsSafe /\ (pc = "stamp" /\ ~lost => OnCard)

LEMMA CardStep == IInv /\ CardInv /\ [Next]_vars => CardInv'
<1> SUFFICES ASSUME IInv, CardInv, [Next]_vars PROVE CardInv'
  OBVIOUS
<1> USE DEF CardInv, SettingsSafe, OnCard, Trusted, Stamp
<1>1. CASE TimerTick
  BY <1>1 DEF TimerTick, conf, card
<1>2. CASE SaveDelete \/ DeleteFails \/ SaveCreate \/ CreateFails
  <2>1. cfgChanged' /\ pc' # "stamp"
    BY <1>2 DEF SaveDelete, DeleteFails, SaveCreate, CreateFails, SaveStep, IInv, ThreadInv
  <2> QED
    BY <2>1
<1>3. CASE SaveWrite
  <2>1. cfgChanged'
    BY <1>3 DEF SaveWrite, IInv, ThreadInv
  <2>2. ~lost' => file' = FileOf(cfg) /\ cfg' = cfg
    BY <1>3 DEF SaveWrite
  <2> QED
    BY <2>1, <2>2 DEF FileOf, Loadable, Parse
<1>4. CASE SaveStamp \/ StampFails
  BY <1>4 DEF SaveStamp, StampFails, SaveStamped, card
<1>5. CASE SaveUnopened \/ SaveFails
  BY <1>5 DEF SaveUnopened, SaveFails, SaveEnds
<1>6. CASE RefreshFile \/ RefreshUnstamped
  BY <1>6 DEF RefreshFile, RefreshUnstamped, RefreshWith, card
<1>7. CASE Load
  BY <1>7 DEF Load
<1>8. CASE LoadFails \/ LoadError
  BY <1>8 DEF LoadFails, LoadError, LoadClosed
<1>9. CASE ApplyInit \/ ApplyNothing \/ OpenFails \/ ApplyUpdate \/ ApplyRefresh
  BY <1>9 DEF ApplyInit, ApplyNothing, OpenFails, ApplyUpdate, ApplyRefresh, conf, card
<1>10. CASE SendUpdate \/ SendScale \/ SendOff
  BY <1>10 DEF SendUpdate, SendScale, SendOff, conf, card
<1>11. ASSUME NEW c \in Configs, SetConfigValues(c) PROVE CardInv'
  BY <1>11 DEF SetConfigValues, card
<1>12. ASSUME NEW w \in RawWrites, SendI2c(w[1], w[2]) PROVE CardInv'
  BY <1>12 DEF SendI2c, conf, card
<1>13. CASE SleepReady \/ FullAwake \/ CpuSample \/ GenSample \/ UNCHANGED vars
  BY <1>13 DEF SleepReady, FullAwake, CpuSample, GenSample, vars, conf, card
<1>14. CASE Elapse
  BY <1>14 DEF Elapse, card
<1>15. ASSUME NEW f \in Files, EditFile(f) PROVE CardInv'
  BY <1>15 DEF EditFile
<1>16. CASE PowerLoss
  BY <1>16 DEF PowerLoss
<1> QED
  BY <1>1, <1>2, <1>3, <1>4, <1>5, <1>6, <1>7, <1>8, <1>9, <1>10, <1>11, <1>12, <1>13, <1>14,
     <1>15, <1>16 DEF Next, Timer, Fault, Client, Environment

LEMMA InitCard == Init => CardInv
BY DEF Init, CardInv, SettingsSafe, Trusted

\* What the server takes for saved is what the card holds, wherever the save or
\* the load was cut off or failed, but for what lost records.
THEOREM SavedIsOnCard == Spec => []SettingsSafe
<1>1. CardInv => SettingsSafe
  BY DEF CardInv
<1> QED
  BY <1>1, InitCard, CardStep, Invariance, PTL DEF Spec

-----------------------------------------------------------------------------
(***************************************************************************)
(* On a card that works and that nobody edits, lost records nothing:       *)
(* power may fail and the console sleep and wake at any step, and the      *)
(* timestamps may be as coarse as they like.                               *)
(***************************************************************************)
Undisturbed == Disturbances \cap {"card", "edit"} = {}

\* Save works on the file it has made itself.
AloneInv ==
    /\ ~lost
    /\ pc = "create" => file = File("absent")
    /\ pc = "write" => file = File("empty")

LEMMA AloneStep ==
    ASSUME Undisturbed, IInv, AloneInv, [Next]_vars PROVE AloneInv'
<1> USE DEF AloneInv, conf, card
<1>1. /\ ~DeleteFails /\ ~CreateFails /\ ~SaveFails /\ ~StampFails /\ ~RefreshUnstamped
      /\ ~LoadError /\ \A f \in Files : ~EditFile(f)
  BY DEF Undisturbed, DeleteFails, CreateFails, SaveFails, StampFails, RefreshUnstamped,
     LoadError, EditFile
<1>2. CASE SaveDelete \/ SaveCreate
  BY <1>2 DEF SaveDelete, SaveCreate, SaveStep, File
<1>3. CASE SaveWrite
  <2>1. file.kind = "empty"
    BY <1>3 DEF SaveWrite, File
  <2>2. Overlaid = {FileOf(cfg)}
    BY <2>1 DEF Overlaid
  <2> QED
    BY <1>3, <2>2 DEF SaveWrite
<1>4. CASE SaveUnopened
  BY <1>4 DEF SaveUnopened, File
<1>5. CASE TimerTick \/ SaveStamp \/ RefreshFile \/ Load \/ LoadFails
  BY <1>5 DEF TimerTick, SaveStamp, SaveStamped, RefreshFile, RefreshWith, Load, LoadFails,
     LoadClosed
<1>6. CASE ApplyInit \/ ApplyNothing \/ OpenFails \/ ApplyUpdate \/ ApplyRefresh
  BY <1>6 DEF ApplyInit, ApplyNothing, OpenFails, ApplyUpdate, ApplyRefresh
<1>7. CASE SendUpdate \/ SendScale \/ SendOff
  BY <1>7 DEF SendUpdate, SendScale, SendOff
<1>8. CASE \/ \E c \in Configs : SetConfigValues(c)
           \/ \E w \in RawWrites : SendI2c(w[1], w[2])
  BY <1>8 DEF SetConfigValues, SendI2c
<1>9. CASE SleepReady \/ FullAwake \/ PowerLoss
  BY <1>9 DEF SleepReady, FullAwake, PowerLoss
<1>10. CASE CpuSample \/ GenSample \/ Elapse \/ UNCHANGED vars
  BY <1>10 DEF CpuSample, GenSample, Elapse, vars
<1> QED
  BY <1>1, <1>2, <1>3, <1>4, <1>5, <1>6, <1>7, <1>8, <1>9, <1>10
  DEF Next, Timer, Fault, Client, Environment

\* Without a failing card and without edits, a setting that no save is pending for
\* and that no reload will replace is on the card, without exception.
THEOREM SavedUndisturbed ==
    ASSUME Undisturbed
    PROVE  Spec => [](~cfgChanged /\ Trusted /\ pc # "load" => OnCard)
<1>1. Init => AloneInv
  BY DEF Init, AloneInv
<1>2. IInv /\ AloneInv /\ [Next]_vars => AloneInv'
  BY AloneStep
<1>3. SettingsSafe /\ AloneInv => (~cfgChanged /\ Trusted /\ pc # "load" => OnCard)
  BY DEF SettingsSafe, AloneInv
<1> QED
  BY <1>1, <1>2, <1>3, SavedIsOnCard, Invariance, PTL DEF Spec
=============================================================================
