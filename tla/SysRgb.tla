------------------------------- MODULE SysRgb -------------------------------
(***************************************************************************)
(* The sysmodule of fly2040: the single server thread of                   *)
(* app/sysmodule/src/sys_rgb_ipc.cpp with the configuration object of      *)
(* config_impl.cpp, the running flags of its two monitors, the             *)
(* configuration file on the SD card and the registers of the RP2040 it    *)
(* writes over I2C.                                                        *)
(*                                                                         *)
(* LoopIpcServer handles one event at a time: a power notification, the    *)
(* periodic timer, or an IPC request.  A handler is not atomic for the     *)
(* rest of the world: the card may be edited, the monitors store readings, *)
(* power may go and a transaction on the bus may be lost between any two   *)
(* of its file or bus operations.  pc is the place the server thread is    *)
(* at; "wait" is g_server_manager->WaitSignaled.                           *)
(***************************************************************************)
EXTENDS Integers

CONSTANTS
    Configs,     \* the CfgSet values clients send and the file may hold
    Samples,     \* the readings of the monitors, as floats in [0, 1]
    RawWrites,   \* <<register, value>> pairs of the SendI2c request
    Disturbances \* what the environment may do to the server

(***************************************************************************)
(* Floats are counted in units of 1 / One.  U32F_SCALE and F2U32 are the   *)
(* fixed-point conversion of app/common/include/constants.h: it truncates. *)
(***************************************************************************)
U32F_SCALE == 10000
One == 10 * U32F_SCALE
F2U32(f) == f \div 10

RgbMode_Off == 0
RgbMode_Pulse == 1
RgbMode_Cycle == 2
RgbMode_Rainbow == 3
RgbMode_Load == 4
RgbMode_Temperature == 5
RgbModes == 0..5

Registers == {"mode", "num_pixels", "brightness", "scale", "speed", "hue"}

\* A CfgSet, with the CfgItem of its own mode only: HandleConfig reads no other.
CfgSets == [mode : RgbModes, load_cpu : BOOLEAN, load_gpu : BOOLEAN,
            num_pixels : Nat, brightness : Nat, speed : Nat, hue : Nat]

\* CfgSet() with the initialisers of cfg_item.h.
DefaultCfg == [mode |-> RgbMode_Off, load_cpu |-> TRUE, load_gpu |-> FALSE,
               num_pixels |-> 9, brightness |-> One, speed |-> 5000 * One,
               hue |-> One \div 2]

ASSUME ConfigsAssumption == Configs \subseteq CfgSets
ASSUME SamplesAssumption == Samples \subseteq 0..One
ASSUME DisturbancesAssumption ==
    Disturbances \subseteq {"power", "sleep", "edit", "coarse", "card", "bus", "session"}
ASSUME RawWritesAssumption == RawWrites \subseteq Registers \X Nat

(***************************************************************************)
(* What is on the card: no file, a file of no bytes, one too long for the  *)
(* buffer, text that is not a configuration, or a configuration.           *)
(***************************************************************************)
File(kind) == [kind |-> kind, cfg |-> DefaultCfg]
FileOf(c) == [kind |-> "ok", cfg |-> c]
Files == {File(kind) : kind \in {"absent", "empty", "long", "junk"}}
            \cup {FileOf(c) : c \in Configs \cup {DefaultCfg}}

\* Load opens the file, refuses one of no bytes or of CFG_BUF_MAX - 1 and more,
\* and Config::parse turns what it cannot read into CfgSet().
Loadable(f) == f.kind \in {"junk", "ok"}
Parse(f) == IF f.kind = "ok" THEN f.cfg ELSE DefaultCfg

VARIABLES
    pc,          \* where the server thread is
    cfg,         \* Config::_config
    loaded,      \* ConfigImpl::_loaded
    mtime,       \* _mtime (in Load: mod_time): "zero", the timestamp the file
                 \* has if there is one ("seen"), or another ("old")
    due,         \* FILE_CFG_CHECK_INTERVAL_NS has passed since _last_check
    cfgChanged,  \* _cfgChanged
    sleeping,    \* _sleeping
    timer,       \* g_timer_event is running
    cfgState,    \* _cfgState
    sendState,   \* _sendState, as its ordinal: 0 is none and 7 is done
    reg,         \* _reg, the sysmodule's image of the registers
    cpu, gen,    \* CpuMon::_running, GenMon::_running
    genMode,     \* GenMon::_mode
    idle, temp,  \* the readings the monitor threads stored last
    file,        \* FILE_CONFIG_FILE_PATH on the card
    dev,         \* the register file of the RP2040
    stale,       \* history: registers whose last write was lost or was raw
    lost         \* history: what the server takes for the file's content is not:
                 \* an edit or a failed save no timestamp shows, or a tail
                 \* a save left behind its own text

mons == <<cpu, gen, genMode>>
readings == <<idle, temp>>
conf == <<cfg, loaded, mtime, due, cfgChanged>>
card == <<file, lost>>
bus == <<dev, stale>>
power == <<sleeping, timer>>
drive == <<cfgState, sendState, reg>>
vars == <<pc, conf, power, drive, mons, readings, card, bus>>

Pcs == {"wait", "save", "create", "write", "stamp", "refresh", "load",
        "apply", "update", "scale", "off"}
CfgStates == {"None", "Init", "Update", "Refresh"}
GenModes == {"GPU", "SOCTemperature"}

TypeOK ==
    /\ pc \in Pcs
    /\ cfg \in Configs \cup {DefaultCfg}
    /\ loaded \in BOOLEAN /\ mtime \in {"zero", "seen", "old"} /\ due \in BOOLEAN
    /\ cfgChanged \in BOOLEAN /\ lost \in BOOLEAN
    /\ sleeping \in BOOLEAN /\ timer \in BOOLEAN
    /\ cpu \in BOOLEAN /\ gen \in BOOLEAN
    /\ cfgState \in CfgStates
    /\ sendState \in IF pc = "update" THEN 1..6 ELSE 0..7
    /\ reg \in [Registers -> Nat]
    /\ dev \in [Registers -> Nat]
    /\ stale \subseteq Registers
    /\ genMode \in GenModes
    /\ idle \in 0..One /\ temp \in 0..One
    /\ file \in Files

-----------------------------------------------------------------------------
\* InitializeIpcServer's image and what init_pixels leaves in the RP2040,
\* whose mode depends on its i2c-configured flag.
BootReg ==
    [r \in Registers |->
        CASE r = "mode" -> RgbMode_Off
          [] r = "num_pixels" -> 9
          [] r = "speed" -> F2U32(5000 * One)
          [] r = "hue" -> F2U32(0)
          [] OTHER -> F2U32(One)]
BootDev == {[BootReg EXCEPT !["scale"] = F2U32(0), !["mode"] = m] :
                m \in {RgbMode_Off, RgbMode_Cycle}}

Init ==
    /\ pc = "wait"
    /\ cfg = DefaultCfg
    /\ loaded = FALSE /\ mtime = "zero" /\ due = TRUE /\ cfgChanged = FALSE
    /\ sleeping = FALSE /\ timer = TRUE
    /\ cfgState = "None" /\ sendState = 0
    /\ reg = BootReg
    /\ cpu = FALSE /\ gen = FALSE /\ genMode = "GPU"
    /\ idle = 0 /\ temp = 0
    /\ stale = {} /\ lost = FALSE
    /\ file \in Files
    /\ dev \in BootDev

-----------------------------------------------------------------------------
(* HandleConfig: what a mode needs, what a change of mode stops. *)

NeedsCpu(c) == c.mode = RgbMode_Load /\ c.load_cpu
NeedsGen(c) == \/ c.mode = RgbMode_Load /\ c.load_gpu
               \/ c.mode = RgbMode_Temperature
GenModeFor(c) == IF c.mode = RgbMode_Load THEN "GPU" ELSE "SOCTemperature"

\* "deactivate old mode", and the else branch for an unchanged mode.
StopsCpu(old, new) ==
    IF old.mode # new.mode
    THEN old.mode = RgbMode_Load
    ELSE old.load_cpu # new.load_cpu /\ ~new.load_cpu
StopsGen(old, new) ==
    IF old.mode # new.mode
    THEN \/ old.mode = RgbMode_Load /\ old.load_gpu /\ new.mode # RgbMode_Temperature
         \/ old.mode = RgbMode_Temperature /\ new.mode # RgbMode_Load /\ ~new.load_gpu
    ELSE old.load_gpu # new.load_gpu /\ ~new.load_gpu

\* The registers the CfgItem of a mode supplies.
ItemRegisters(mode) ==
    CASE mode = RgbMode_Pulse -> {"hue", "speed", "brightness"}
      [] mode \in {RgbMode_Cycle, RgbMode_Rainbow} -> {"speed", "brightness"}
      [] mode \in {RgbMode_Load, RgbMode_Temperature} -> {"brightness"}
      [] OTHER -> {}

\* The image r with configuration c set up in it.
RegFor(r, c) ==
    [x \in Registers |->
        IF x = "mode" THEN c.mode
        ELSE IF x = "num_pixels" THEN c.num_pixels % 256
        ELSE IF x \in ItemRegisters(c.mode) THEN F2U32(c[x])
        ELSE r[x]]

\* Seeded fault: a monitor that is running keeps its mode.
SetupKeepsGenMode(c, keepCpu, keepGen) ==
    /\ reg' = RegFor(reg, c)
    /\ cpu' = (keepCpu \/ NeedsCpu(c))
    /\ gen' = (keepGen \/ NeedsGen(c))
    /\ genMode' = IF NeedsGen(c) /\ ~keepGen THEN GenModeFor(c) ELSE genMode
    /\ cfgState' = "Update"
    /\ sendState' = 0

\* "Setup new mode." after the monitors keepCpu and keepGen were left running.
Setup(c, keepCpu, keepGen) ==
    /\ reg' = RegFor(reg, c)
    /\ cpu' = (keepCpu \/ NeedsCpu(c))
    /\ gen' = (keepGen \/ NeedsGen(c))
    /\ genMode' = IF NeedsGen(c) THEN GenModeFor(c) ELSE genMode
    /\ cfgState' = "Update"
    /\ sendState' = 0

\* CpuMon::get() and GenMon::get(): the GPU reading stays 0, for nothing in
\* the source sets _nvCheck.
CpuGet == idle
GenGet == IF genMode = "GPU" THEN 0 ELSE temp

\* The value Refresh computes for scale, a float.
ScaleValue ==
    IF cfg.mode = RgbMode_Temperature THEN GenGet
    ELSE IF cfg.load_cpu /\ cfg.load_gpu THEN (CpuGet + GenGet) \div 2
    ELSE IF cfg.load_gpu THEN GenGet
    ELSE IF cfg.load_cpu THEN CpuGet
    ELSE 0

\* val != _reg.state.scale compares the float with the register as a number.
ScaleDiffers == ScaleValue # reg["scale"] * One

\* Load stores F2U32(val); Temperature assigns the float, which truncates it.
ScaleStored ==
    IF cfg.mode = RgbMode_Temperature THEN ScaleValue \div One ELSE F2U32(ScaleValue)

-----------------------------------------------------------------------------
(* The timer handler: save, then HandleConfig() with no old configuration. *)

TimerTick ==
    /\ pc = "wait" /\ timer
    /\ pc' = IF cfgChanged THEN "save" ELSE "refresh"
    /\ UNCHANGED <<conf, power, drive, mons, readings, card, bus>>

\* CheckModificationTime, when it can read the timestamp; 0 is also what it
\* returns when it cannot.
Stamp == IF file.kind = "absent" THEN "zero" ELSE "seen"

\* Refresh does not look into the file.
Trusted == loaded /\ mtime = Stamp

\* The file gets the timestamp of now: another one, unless the clock of the file
\* system has not moved since the one before.
Touched ==
    \/ mtime' = IF mtime = "zero" THEN "zero" ELSE "old"
    \/ "coarse" \in Disturbances /\ mtime' = mtime

\* An operation of Save that leaves the file f, and goes on to next.
SaveStep(f, next) ==
    /\ file' = f
    /\ IF f = file THEN mtime' = mtime ELSE Touched
    /\ pc' = next
    /\ UNCHANGED <<cfg, loaded, due, cfgChanged, lost, power, drive, mons, readings, bus>>

\* The results of DeleteFile and CreateFile are dropped: Save goes on whatever
\* they did, and CreateFile leaves a file that exists as it is.
SaveDelete == pc = "save" /\ SaveStep(File("absent"), "create")
SaveCreate ==
    /\ pc = "create"
    /\ SaveStep(IF file.kind = "absent" THEN File("empty") ELSE file, "write")
DeleteFails == "card" \in Disturbances /\ pc = "save" /\ SaveStep(file, "create")
CreateFails == "card" \in Disturbances /\ pc = "create" /\ SaveStep(file, "write")

\* WriteFile at offset 0 does not truncate: a file that was longer keeps its tail
\* behind the new text, and one that was too long stays so.
Overlaid ==
    CASE file.kind = "long" -> {file}
      [] file.kind = "empty" -> {FileOf(cfg)}
      [] OTHER -> {FileOf(cfg), File("junk")}

\* A write that is cut off has written a part, over a configuration perhaps the
\* text of yet another one.
CutOff ==
    CASE file.kind = "long" -> {file}
      [] file.kind = "empty" -> {file, File("junk"), FileOf(cfg)}
      [] OTHER -> {file, File("junk")} \cup {FileOf(c) : c \in Configs \cup {DefaultCfg}}

SaveWrite ==
    /\ pc = "write" /\ file.kind # "absent"
    /\ file' \in Overlaid
    /\ Touched
    /\ lost' = (file' # FileOf(cfg))
    /\ pc' = "stamp"
    /\ UNCHANGED <<cfg, loaded, due, cfgChanged, power, drive, mons, readings, bus>>

\* Save returns false: the timer handler ignores it and clears the flag.
SaveEnds ==
    /\ UNCHANGED <<cfg, loaded, due, power, drive, mons, readings, bus>>
    /\ lost' = Trusted'
    /\ cfgChanged' = FALSE
    /\ pc' = "refresh"

\* OpenFile finds no file: it was deleted again, or could not be created.
SaveUnopened ==
    /\ pc = "write" /\ file.kind = "absent"
    /\ UNCHANGED <<file, mtime>>
    /\ SaveEnds

\* OpenFile or WriteFile fails on a file that is there.
SaveFails ==
    /\ "card" \in Disturbances
    /\ pc = "write" /\ file.kind # "absent"
    /\ file' \in CutOff
    /\ Touched \/ UNCHANGED <<file, mtime>>
    /\ SaveEnds

\* SaveConfig's _mtime = CheckModificationTime(), after Save closed the file.
SaveStamped(m) ==
    /\ pc = "stamp"
    /\ mtime' = m
    /\ loaded' = TRUE
    /\ cfgChanged' = FALSE
    /\ pc' = "refresh"
    /\ UNCHANGED <<cfg, due, card, power, drive, mons, readings, bus>>

SaveStamp == SaveStamped(Stamp)
StampFails == "card" \in Disturbances /\ SaveStamped("zero")

\* ConfigImpl::Refresh up to Load: at most one look at the file in 5 seconds.
\* From here to the end of Load, mtime is the local mod_time, m.
RefreshWith(m) ==
    /\ pc = "refresh"
    /\ due' = FALSE
    /\ IF due /\ (~loaded \/ mtime # m)
       THEN pc' = "load" /\ mtime' = m
       ELSE pc' = "apply" /\ mtime' = mtime
    /\ UNCHANGED <<cfg, loaded, cfgChanged, power, drive, mons, readings, card, bus>>

RefreshFile == RefreshWith(Stamp)
RefreshUnstamped == "card" \in Disturbances /\ due /\ RefreshWith("zero")

\* Seeded fault: a reload does not start over.
LoadKeepsState ==
    /\ pc = "load" /\ Loadable(file)
    /\ cfg' = Parse(file)
    /\ loaded' = TRUE
    /\ lost' = FALSE
    /\ pc' = "apply"
    /\ UNCHANGED <<mtime, due, cfgChanged, file, drive, power, mons, readings, bus>>

Load ==
    /\ pc = "load" /\ Loadable(file)
    /\ cfg' = Parse(file)
    /\ loaded' = TRUE
    /\ lost' = FALSE
    /\ cfgState' = "Init"
    /\ pc' = "apply"
    /\ UNCHANGED <<mtime, due, cfgChanged, file, sendState, reg, power, mons, readings, bus>>

\* Load has closed the configuration before it finds that it cannot read one.
\* _mtime stays, but does not count until something is loaded.
LoadClosed ==
    /\ pc = "load"
    /\ cfg' = DefaultCfg
    /\ loaded' = FALSE
    /\ mtime' = "zero"
    /\ pc' = "apply"
    /\ UNCHANGED <<due, cfgChanged, power, drive, mons, readings, card, bus>>

LoadFails == ~Loadable(file) /\ LoadClosed
LoadError == "card" \in Disturbances /\ Loadable(file) /\ LoadClosed

ApplyInit ==
    /\ pc = "apply" /\ cfgState = "Init"
    /\ Setup(cfg, cpu, gen)
    /\ pc' = "wait"
    /\ UNCHANGED <<conf, power, readings, card, bus>>

\* The other early returns: asleep, nothing configured, or no scale to send.
ApplyNothing ==
    /\ pc = "apply"
    /\ \/ cfgState # "Init" /\ sleeping
       \/ cfgState = "None"
       \/ cfgState = "Refresh" /\ cfg.mode \in {RgbMode_Load, RgbMode_Temperature}
              /\ ~ScaleDiffers
       \/ cfgState = "Refresh" /\ cfg.mode \notin {RgbMode_Load, RgbMode_Temperature}
    /\ pc' = "wait"
    /\ UNCHANGED <<conf, power, drive, mons, readings, card, bus>>

\* i2cOpenSession fails: the state stays Update, for the next tick to retry.
OpenFails ==
    /\ "session" \in Disturbances
    /\ pc = "apply" /\ ~sleeping /\ cfgState = "Update"
    /\ pc' = "wait"
    /\ UNCHANGED <<conf, power, drive, mons, readings, card, bus>>

ApplyUpdate ==
    /\ pc = "apply" /\ ~sleeping /\ cfgState = "Update"
    /\ sendState' = 1
    /\ pc' = "update"
    /\ UNCHANGED <<conf, power, cfgState, reg, mons, readings, card, bus>>

ApplyRefresh ==
    /\ pc = "apply" /\ ~sleeping /\ cfgState = "Refresh"
    /\ cfg.mode \in {RgbMode_Load, RgbMode_Temperature}
    /\ ScaleDiffers
    /\ reg' = [reg EXCEPT !["scale"] = ScaleStored]
    /\ pc' = "scale"
    /\ UNCHANGED <<conf, power, cfgState, sendState, mons, readings, card, bus>>

-----------------------------------------------------------------------------
(* I2C.  The result of a send is ignored: one that fails writes nothing. *)

\* Seeded faults: the mode is sent first; the brightness is never sent.
SendModeFirst(s) ==
    CASE s = 1 -> "mode"
      [] s = 2 -> "brightness"
      [] s = 3 -> "scale"
      [] s = 4 -> "speed"
      [] s = 5 -> "hue"
      [] OTHER -> "num_pixels"
SendPixelsTwice(s) ==
    CASE s \in {1, 2} -> "num_pixels"
      [] s = 3 -> "scale"
      [] s = 4 -> "speed"
      [] s = 5 -> "hue"
      [] OTHER -> "mode"

\* The register each step of the send loop writes; the mode comes last.
SendRegister(s) ==
    CASE s = 1 -> "num_pixels"
      [] s = 2 -> "brightness"
      [] s = 3 -> "scale"
      [] s = 4 -> "speed"
      [] s = 5 -> "hue"
      [] OTHER -> "mode"

Sent(r) ==
    \/ dev' = [dev EXCEPT ![r] = reg[r]] /\ stale' = stale \ {r}
    \/ "bus" \in Disturbances /\ dev' = dev /\ stale' = stale \cup {r}

SendUpdate ==
    /\ pc = "update"
    /\ Sent(SendRegister(sendState))
    /\ sendState' = sendState + 1
    /\ IF sendState = 6
       THEN cfgState' = "Refresh" /\ pc' = "wait"
       ELSE UNCHANGED <<cfgState, pc>>
    /\ UNCHANGED <<conf, power, reg, mons, readings, card>>

SendScale ==
    /\ pc = "scale"
    /\ Sent("scale")
    /\ pc' = "wait"
    /\ UNCHANGED <<conf, power, drive, mons, readings, card>>

SendOff ==
    /\ pc = "off"
    /\ Sent("mode")
    /\ pc' = "wait"
    /\ UNCHANGED <<conf, power, drive, mons, readings, card>>

-----------------------------------------------------------------------------
(* IPC requests and power notifications. *)

\* Seeded fault: a request that changes nothing forgets one that did.
SetConfigForgets(c) ==
    /\ pc = "wait"
    /\ cfg' = c
    /\ cfgChanged' = (c # cfg)
    /\ Setup(c, cpu /\ ~StopsCpu(cfg, c), gen /\ ~StopsGen(cfg, c))
    /\ UNCHANGED <<pc, loaded, mtime, due, power, readings, card, bus>>

\* SetConfigValues copies the old configuration to _curCfg, and HandleConfig
\* sets the new one up at once, also when it does not differ.
SetConfigValues(c) ==
    /\ pc = "wait"
    /\ cfg' = c
    /\ cfgChanged' = (cfgChanged \/ c # cfg)
    /\ Setup(c, cpu /\ ~StopsCpu(cfg, c), gen /\ ~StopsGen(cfg, c))
    /\ UNCHANGED <<pc, loaded, mtime, due, power, readings, card, bus>>

\* SendI2c forwards a client's bytes: the image does not follow.
SendI2c(r, v) ==
    /\ pc = "wait"
    /\ dev' = [dev EXCEPT ![r] = v]
    /\ stale' = stale \cup {r}
    /\ UNCHANGED <<pc, conf, power, drive, mons, readings, card>>

\* Seeded fault: the image keeps its mode.
SleepKeepsMode ==
    /\ "sleep" \in Disturbances
    /\ pc = "wait" /\ ~sleeping
    /\ sleeping' = TRUE /\ timer' = FALSE
    /\ cfgState' = "Init"
    /\ cpu' = FALSE /\ gen' = FALSE
    /\ pc' = "off"
    /\ UNCHANGED <<conf, sendState, reg, genMode, readings, card, bus>>

\* HandleSleep(true) up to its SendI2C, and the timer stopped and cleared.
SleepReady ==
    /\ "sleep" \in Disturbances
    /\ pc = "wait" /\ ~sleeping
    /\ sleeping' = TRUE /\ timer' = FALSE
    /\ cfgState' = "Init"
    /\ reg' = [reg EXCEPT !["mode"] = RgbMode_Off]
    /\ cpu' = FALSE /\ gen' = FALSE
    /\ pc' = "off"
    /\ UNCHANGED <<conf, sendState, genMode, readings, card, bus>>

\* Seeded fault: the timer is not started again.
AwakeWithoutTimer ==
    /\ pc = "wait" /\ sleeping
    /\ sleeping' = FALSE
    /\ UNCHANGED <<pc, conf, timer, drive, mons, readings, card, bus>>

FullAwake ==
    /\ pc = "wait" /\ sleeping
    /\ sleeping' = FALSE /\ timer' = TRUE
    /\ UNCHANGED <<pc, conf, drive, mons, readings, card, bus>>

-----------------------------------------------------------------------------
(* The rest of the world. *)

\* CpuMon::thread and GenMon::thread store a reading.
CpuSample ==
    /\ cpu
    /\ idle' \in Samples
    /\ UNCHANGED <<pc, conf, power, drive, mons, temp, card, bus>>

GenSample ==
    /\ gen /\ genMode = "SOCTemperature"
    /\ temp' \in Samples
    /\ UNCHANGED <<pc, conf, power, drive, mons, idle, card, bus>>

Elapse ==
    /\ ~due
    /\ due' = TRUE
    /\ UNCHANGED <<pc, cfg, loaded, mtime, cfgChanged, power, drive, mons, readings, card, bus>>

\* Somebody edits the file.  An edit before SaveStamp is lost: SaveStamp takes
\* its timestamp for that of Save.
EditFile(f) ==
    /\ "edit" \in Disturbances
    /\ f # file
    /\ file' = f
    /\ Touched
    /\ UNCHANGED <<pc, cfg, loaded, due, cfgChanged, power, drive, mons, readings, bus>>
    /\ lost' = (Trusted' \/ pc = "stamp")

\* Power fails, or the console restarts with the RP2040 powered or not.  A
\* write of the file that is cut off leaves a part of it.
PowerLoss ==
    /\ "power" \in Disturbances
    /\ file' \in IF pc = "write" /\ file.kind # "absent" THEN CutOff ELSE {file}
    /\ dev' \in {dev} \cup BootDev
    /\ pc' = "wait"
    /\ cfg' = DefaultCfg
    /\ loaded' = FALSE /\ mtime' = "zero" /\ due' = TRUE /\ cfgChanged' = FALSE
    /\ sleeping' = FALSE /\ timer' = TRUE
    /\ cfgState' = "None" /\ sendState' = 0
    /\ reg' = BootReg
    /\ cpu' = FALSE /\ gen' = FALSE /\ genMode' = "GPU"
    /\ idle' = 0 /\ temp' = 0
    /\ stale' = {} /\ lost' = FALSE

-----------------------------------------------------------------------------
Timer ==
    \/ TimerTick
    \/ SaveDelete \/ SaveCreate \/ SaveWrite \/ SaveUnopened \/ SaveStamp
    \/ RefreshFile \/ Load \/ LoadFails
    \/ ApplyInit \/ ApplyNothing \/ ApplyUpdate \/ ApplyRefresh
    \/ SendUpdate \/ SendScale \/ SendOff

Fault ==
    \/ DeleteFails \/ CreateFails \/ SaveFails \/ StampFails
    \/ RefreshUnstamped \/ LoadError \/ OpenFails

Client ==
    \/ \E c \in Configs : SetConfigValues(c)
    \/ \E w \in RawWrites : SendI2c(w[1], w[2])

Environment ==
    \/ SleepReady
    \/ \E f \in Files : EditFile(f)
    \/ PowerLoss

Next ==
    \/ Timer \/ Fault \/ Client \/ Environment
    \/ FullAwake \/ CpuSample \/ GenSample \/ Elapse

Spec == Init /\ [][Next]_vars

-----------------------------------------------------------------------------
(***************************************************************************)
(* Safety                                                                  *)
(***************************************************************************)

\* Whatever a configuration came from, an IPC request awake or asleep or the
\* file, the monitors its mode reads are running, the general one in the right
\* mode, from the moment the mode is set up until the next sleep.
MonitorsServeMode ==
    cfgState \in {"Update", "Refresh"} =>
        /\ NeedsCpu(cfg) => cpu
        /\ NeedsGen(cfg) => gen /\ genMode = GenModeFor(cfg)

\* The image that is sent is that of the configuration the clients are told of,
\* except after a file that could not be loaded: the configuration is then the
\* default one, and the LEDs go on with the one before.
ImageFollowsConfig ==
    cfgState \in {"Update", "Refresh"} =>
        \/ reg = RegFor(reg, cfg)
        \/ ~loaded /\ cfg = DefaultCfg

\* The registers the send in progress has still to write.
Pending ==
    CASE pc = "update" -> {SendRegister(s) : s \in sendState..6}
      [] pc = "scale" -> {"scale"}
      [] OTHER -> {}

\* Once a configuration has been sent, the RP2040 holds the image register by
\* register, but for what was lost on the bus or written past the image.
DeviceFollowsImage ==
    cfgState = "Refresh" =>
        \A r \in Registers \ (Pending \cup stale) : dev[r] = reg[r]

\* Asleep, and the send of HandleSleep over, the LEDs are off, whatever clients
\* configure meanwhile.
SleepDark ==
    sleeping /\ pc # "off" /\ "mode" \notin stale => dev["mode"] = RgbMode_Off

\* The configuration is what the card holds: it survives a restart.
OnCard == Loadable(file) /\ cfg = Parse(file)

\* A setting that no save is pending for, and that no reload will replace, is on
\* the card, but for what lost records.
SettingsSafe == ~cfgChanged /\ Trusted /\ ~lost /\ pc # "load" => OnCard

\* A mode is switched on with its own parameters: when a send of the update loop
\* changes the mode, every other register of the image has been written.
ModeComesLast ==
    [][pc = "update" /\ sendState' # 0 /\ dev'["mode"] # dev["mode"] =>
          \A r \in Registers \ stale' : dev'[r] = reg'[r]]_vars

(***************************************************************************)
(* Liveness.  The server thread, the clock and the monitor threads are     *)
(* scheduled; clients, the power supply and the card owe nothing.          *)
(***************************************************************************)
Fairness == WF_vars(Timer \/ Fault) /\ WF_vars(Elapse)
FairSpec == Spec /\ Fairness

\* No client, no edit, no fault and no sleep: what Calm steps cannot be.
Calm == ~(Client \/ Environment \/ Fault)
Settled ==
    /\ pc = "wait"
    /\ \/ cfgState = "Refresh"
       \/ cfgState = "None" /\ ~Loadable(file)
    /\ Loadable(file) /\ ~lost => cfg = Parse(file)

\* When the disturbances end and the console is awake, the file's configuration,
\* or the one just saved over it, is loaded, set up and sent.
EventuallySettled ==
    (<>[](~sleeping) /\ <>[][Calm]_vars) => []<>Settled

(***************************************************************************)
(* What comments say and the code does not.                                *)
(***************************************************************************)

\* "deactivate old mode": no monitor runs that the mode does not read.
OldModeDeactivated ==
    cfgState = "Refresh" => (cpu => NeedsCpu(cfg)) /\ (gen => NeedsGen(cfg))

\* "Scale from 0.0 - 1.0", of the fixed-point register: a temperature is
\* converted as a load is.
TemperatureScaled ==
    [][pc = "apply" /\ pc' = "scale" => reg'["scale"] = F2U32(ScaleValue)]_vars
=============================================================================
