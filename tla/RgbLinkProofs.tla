---------------------------- MODULE RgbLinkProofs ----------------------------
(***************************************************************************)
(* The sysmodule and the controller together implement the sysmodule of    *)
(* SysRgb, so what was proved of its image and of the registers holds      *)
(* here; what the strip shows follows from that and from what the loop of  *)
(* the controller has taken.                                               *)
(***************************************************************************)
EXTENDS RgbLink, SysRgbProofs

\* The names of the registers, as their set.
LEMMA RegisterNames ==
    /\ "mode" \in Registers /\ "num_pixels" \in Registers /\ "brightness" \in Registers
    /\ "scale" \in Registers /\ "speed" \in Registers /\ "hue" \in Registers
  BY DEF Registers

\* Every step of the composition is one of the server's or none.
LEMMA StepImplements == LinkNext => Next \/ UNCHANGED vars
  BY DEF LinkNext, Server, ServerStep, Others, Transmit, TransmitRaw, LoopTurn,
         Next, Timer, Client, Environment

\* The composition implements the server thread on its own.
THEOREM LinkImplements == LinkSpec => Spec
<1>1. LinkInit => Init
  BY DEF LinkInit
<1>2. [LinkNext]_linkVars => [Next]_vars
  BY StepImplements DEF linkVars
<1> QED
  BY <1>1, <1>2, PTL DEF LinkSpec, Spec

LEMMA LinkStepInv == IInv /\ [LinkNext]_linkVars => IInv'
  BY StepImplements, StepInv DEF linkVars

-----------------------------------------------------------------------------
(* The limits *)

LEMMA ClampBounds ==
    ASSUME NEW x \in Nat, NEW low \in Nat, NEW high \in Nat, low <= high
    PROVE  Clamp(x, low, high) \in low..high
  BY DEF Clamp, Least, Most

LEMMA Scales ==
    /\ U32F_SCALE \in Nat \ {0} /\ One = 10 * U32F_SCALE
    /\ SlowestSpeed \in Nat /\ FastestSpeed \in Nat
    /\ FastestSpeed <= SlowestSpeed /\ U32F_SCALE <= SlowestSpeed
    /\ MAX_PIXELS \in Nat /\ 9 <= MAX_PIXELS
  BY SMT DEF U32F_SCALE, SlowestSpeed, FastestSpeed, MAX_PIXELS, One

\* Limiting works register by register.
LEMMA LimitedAt ==
    ASSUME NEW r \in [Registers -> Nat]
    PROVE  /\ Limited(r) \in [Registers -> Nat]
           /\ Limited(r)["mode"] = r["mode"]
           /\ Limited(r)["num_pixels"] = Least(MAX_PIXELS, r["num_pixels"])
           /\ Limited(r)["brightness"] = Clamp(r["brightness"], 0, U32F_SCALE)
           /\ Limited(r)["scale"] = Clamp(r["scale"], 0, U32F_SCALE)
           /\ Limited(r)["hue"] = Clamp(r["hue"], 0, U32F_SCALE)
           /\ Limited(r)["speed"] = Clamp(r["speed"], FastestSpeed, SlowestSpeed)
<1>1. \A x \in Nat : Clamp(x, 0, U32F_SCALE) \in Nat
  BY Scales DEF Clamp, Least, Most
<1>2. \A x \in Nat : Clamp(x, FastestSpeed, SlowestSpeed) \in Nat
  BY Scales DEF Clamp, Least, Most
<1>3. \A x \in Nat : Least(MAX_PIXELS, x) \in Nat
  BY Scales DEF Least
<1>4. \A x \in Registers : r[x] \in Nat
  OBVIOUS
<1> QED
  BY <1>1, <1>2, <1>3, <1>4, RegisterNames DEF Limited

\* What two images agree on, their limits agree on.
LEMMA LimitedLocal ==
    ASSUME NEW p \in [Registers -> Nat], NEW q \in [Registers -> Nat],
           NEW x \in Registers, p[x] = q[x]
    PROVE  Limited(p)[x] = Limited(q)[x]
<1>1. CASE x = "mode"
  BY <1>1, LimitedAt
<1>2. CASE x = "num_pixels"
  BY <1>2, LimitedAt
<1>3. CASE x = "brightness"
  BY <1>3, LimitedAt
<1>4. CASE x = "scale"
  BY <1>4, LimitedAt
<1>5. CASE x = "speed"
  BY <1>5, LimitedAt
<1>6. CASE x = "hue"
  BY <1>6, LimitedAt
<1> QED
  BY <1>1, <1>2, <1>3, <1>4, <1>5, <1>6 DEF Registers

-----------------------------------------------------------------------------
(* Types *)

LEMMA LinkTypeInit == LinkInit => LinkTypeOK
<1> SUFFICES ASSUME LinkInit PROVE LinkTypeOK
  OBVIOUS
<1>1. dev \in BootDev /\ state = dev /\ ready = FALSE /\ lit = {}
  BY DEF LinkInit, Init
<1>2. state \in [Registers -> Nat]
  BY <1>1, BootTypes
<1>3. state["num_pixels"] = 9
  <2>1. PICK m : state = [BootReg EXCEPT !["scale"] = F2U32(0), !["mode"] = m]
    BY <1>1 DEF BootDev
  <2>2. BootReg["num_pixels"] = 9
    BY SMT, RegisterNames DEF BootReg
  <2> QED
    BY <2>1, <2>2, BootTypes, RegisterNames
<1> QED
  BY <1>1, <1>2, <1>3, Scales DEF LinkTypeOK

LEMMA RenderType ==
    ASSUME lit \subseteq 1..MAX_PIXELS, NEW r \in [Registers -> Nat],
           r["num_pixels"] <= MAX_PIXELS
    PROVE  Render(r) \subseteq 1..MAX_PIXELS
<1>1. r["num_pixels"] \in Nat
  BY RegisterNames
<1>2. 1..r["num_pixels"] \subseteq 1..MAX_PIXELS
  BY <1>1, Scales
<1> QED
  BY <1>2 DEF Render

LEMMA LinkTypeStep == IInv /\ LinkTypeOK /\ [LinkNext]_linkVars => LinkTypeOK'
<1> SUFFICES ASSUME IInv, LinkTypeOK, [LinkNext]_linkVars PROVE LinkTypeOK'
  OBVIOUS
<1>1. CASE LoopTurn
  <2>1. dev \in [Registers -> Nat] /\ state \in [Registers -> Nat]
    BY DEF IInv, TypeOK, LinkTypeOK
  <2>2. Limited(dev) \in [Registers -> Nat] /\ Limited(dev)["num_pixels"] <= MAX_PIXELS
    <3>1. dev["num_pixels"] \in Nat
      BY <2>1, RegisterNames
    <3>2. Least(MAX_PIXELS, dev["num_pixels"]) <= MAX_PIXELS
      BY <3>1, Scales DEF Least
    <3> QED
      BY <2>1, <3>2, LimitedAt
  <2>3. state' \in [Registers -> Nat] /\ state'["num_pixels"] <= MAX_PIXELS
    BY <1>1, <2>1, <2>2 DEF LoopTurn, LinkTypeOK
  <2>4. lit' \subseteq 1..MAX_PIXELS
    <3>1. lit' = Render(state')
      BY <1>1 DEF LoopTurn
    <3> QED
      BY <2>3, <3>1, RenderType DEF LinkTypeOK
  <2> QED
    BY <1>1, <2>3, <2>4 DEF LoopTurn, LinkTypeOK
<1>2. CASE Transmit \/ TransmitRaw
  <2>1. ready' \in BOOLEAN
    <3>1. (ready \/ Sending \cap stale' = {}) \in BOOLEAN
      OBVIOUS
    <3> QED
      BY <1>2, <3>1 DEF Transmit, TransmitRaw
  <2> QED
    BY <1>2, <2>1 DEF Transmit, TransmitRaw, LinkTypeOK
<1>3. CASE UNCHANGED ctl
  BY <1>3 DEF ctl, LinkTypeOK
<1> QED
  BY <1>1, <1>2, <1>3 DEF LinkNext, Server, Others, linkVars

-----------------------------------------------------------------------------
(* What the loop has taken *)

\* Nothing has arrived at the controller: all that was sent was lost.
AllLost ==
    /\ cfgState = "Refresh" \/ pc = "update" => Registers \subseteq Pending \cup stale
    /\ sleeping /\ pc # "off" => "mode" \in stale

\* The loop has taken what arrived, or will.
TakenOrReady == ready \/ state = Limited(dev) \/ AllLost

\* Off is dark, as far as the LEDs are counted.
OffIsDark == state["mode"] = RgbMode_Off => lit \cap 1..state["num_pixels"] = {}

\* A transaction arrives, or nothing of the controller changes but what is known
\* to be lost.
LEMMA Arrival ==
    ASSUME TypeOK, NEW r \in Registers, Sent(r)
    PROVE  \/ r \notin stale'
           \/ dev' = dev /\ stale' = stale \cup {r}
  BY DEF Sent

LEMMA QuietKeepsLost ==
    ASSUME AllLost, UNCHANGED <<stale, sendState>>,
           cfgState' = "Refresh" \/ pc' = "update" => cfgState = "Refresh" \/ pc = "update",
           Pending \subseteq Pending',
           sleeping' /\ pc' # "off" => sleeping /\ pc # "off"
    PROVE  AllLost'
  BY DEF AllLost

LEMMA TakenStep == IInv /\ TakenOrReady /\ [LinkNext]_linkVars => TakenOrReady'
<1> SUFFICES ASSUME IInv, TakenOrReady, [LinkNext]_linkVars PROVE TakenOrReady'
  OBVIOUS
<1> USE DEF IInv, ThreadInv
<1>1. CASE LoopTurn
  <2>1. CASE ready
    BY <1>1, <2>1 DEF LoopTurn, TakenOrReady, vars, bus
  <2>2. CASE ~ready
    <3>1. UNCHANGED <<state, dev, AllLost>>
      BY <1>1, <2>2 DEF LoopTurn, vars, bus, drive, power, AllLost, Pending
    <3> QED
      BY <2>2, <3>1 DEF TakenOrReady
  <2> QED
    BY <2>1, <2>2
<1>2. CASE TransmitRaw
  BY <1>2 DEF TransmitRaw, TakenOrReady
<1>3. CASE Transmit
  <2>1. CASE ready \/ Sending \cap stale' = {}
    BY <1>3, <2>1 DEF Transmit, TakenOrReady
  <2>2. CASE ~ready /\ Sending \cap stale' # {}
    <3>1. PICK r \in Registers : Sent(r) /\ Sending = {r}
      BY <1>3, SendRegisterType, RegisterNames DEF Transmit, SendUpdate, SendScale, SendOff, Sending
    <3>2. r \in stale'
      BY <2>2, <3>1
    <3>3. dev' = dev /\ stale' = stale \cup {r}
      BY <3>1, <3>2, Arrival
    <3>4. state' = state
      BY <1>3 DEF Transmit
    <3>5. ASSUME AllLost PROVE AllLost'
      <4>1. CASE SendUpdate
        <5>1. sendState \in 1..6 /\ r = SendRegister(sendState) /\ sleeping' = sleeping
          BY <4>1, <3>1 DEF SendUpdate, TypeOK, Sending, power
        <5>2. Pending = {SendRegister(sendState)} \cup {SendRegister(k) : k \in (sendState + 1)..6}
          BY <4>1, <5>1, PendingStep DEF SendUpdate, Pending
        <5>3. {SendRegister(k) : k \in (sendState + 1)..6} \subseteq Pending'
          <6>1. CASE sendState = 6
            <7>1. (sendState + 1)..6 = {}
              BY <6>1
            <7> QED
              BY <7>1
          <6>2. CASE sendState # 6
            BY <4>1, <5>1, <6>2 DEF SendUpdate, Pending
          <6> QED
            BY <6>1, <6>2
        <5>4. Registers \subseteq Pending' \cup stale'
          BY <3>3, <3>5, <4>1, <5>1, <5>2, <5>3 DEF AllLost, SendUpdate
        <5>5. ~sleeping
          BY <4>1 DEF SendUpdate
        <5> QED
          BY <5>1, <5>4, <5>5 DEF AllLost
      <4>2. CASE SendScale
        <5>1. /\ Pending = {"scale"} /\ r = "scale" /\ cfgState = "Refresh" /\ ~sleeping
              /\ sleeping' = sleeping
          BY <4>2, <3>1 DEF SendScale, Pending, Sending, power
        <5> QED
          BY <3>3, <3>5, <5>1 DEF AllLost
      <4>3. CASE SendOff
        <5>1. r = "mode" /\ cfgState = "Init" /\ cfgState' = cfgState /\ pc' = "wait"
          BY <4>3, <3>1 DEF SendOff, Sending, drive
        <5> QED
          BY <3>3, <5>1 DEF AllLost
      <4> QED
        BY <1>3, <4>1, <4>2, <4>3 DEF Transmit
    <3> QED
      BY <2>2, <3>3, <3>4, <3>5 DEF TakenOrReady
  <2> QED
    BY <2>1, <2>2
<1>4. CASE ((ServerStep \/ Fault) /\ UNCHANGED ctl) \/ Others \/ UNCHANGED linkVars
  <2>1. UNCHANGED <<ready, state, dev, stale>>
    <3>1. UNCHANGED <<ready, state>> /\ (QuietStep => UNCHANGED <<dev, stale>>)
      BY <1>4, QuietFrame DEF Others, linkVars, ctl, bus
    <3>2. CASE ~QuietStep
      BY <1>4, <3>1, <3>2 DEF ServerStep, Fault, Others, linkVars, QuietStep, bus, Load,
         LoadFails, LoadError, LoadClosed, ApplyInit, ApplyUpdate, ApplyRefresh,
         SetConfigValues, SleepReady, FullAwake
    <3> QED
      BY <3>1, <3>2
  <2>2. ASSUME AllLost PROVE AllLost'
    <3>1. CASE QuietStep
      <4>1. UNCHANGED <<cfgState, sendState, sleeping>>
        BY <3>1, QuietFrame DEF drive, power
      <4>2. /\ pc' = pc \/ {pc, pc'} \cap {"update", "scale"} = {}
            /\ sleeping => pc' = pc
        BY <3>1, QuietFlags
      <4>3. Pending' = Pending
        BY <4>1, <4>2 DEF Pending
      <4> QED
        BY <2>1, <2>2, <4>1, <4>2, <4>3, QuietKeepsLost
    <3>2. CASE Load \/ SleepReady
      BY <2>1, <3>2 DEF Load, SleepReady, AllLost, power
    <3>3. ASSUME ApplyInit \/ \E c \in Configs : SetConfigValues(c) PROVE AllLost'
      <4>1. cfgState' = "Update" /\ pc' = "wait" /\ pc # "off" /\ sleeping' = sleeping
        BY <3>3 DEF ApplyInit, SetConfigValues, Setup, power
      <4> QED
        BY <2>1, <2>2, <4>1 DEF AllLost
    <3>4. CASE LoadFails \/ LoadError \/ FullAwake
      <4>1. UNCHANGED <<sendState, cfgState>> /\ {pc, pc'} \cap {"update", "scale", "off"} = {}
        BY <3>4 DEF LoadFails, LoadError, LoadClosed, FullAwake, drive
      <4>2. sleeping' => sleeping
        BY <3>4 DEF LoadFails, LoadError, LoadClosed, FullAwake, power
      <4>3. Pending' = Pending
        BY <4>1 DEF Pending
      <4> QED
        BY <2>1, <2>2, <4>1, <4>2, <4>3, QuietKeepsLost
    <3>5. CASE ApplyUpdate
      <4>1. pc' = "update" /\ sendState' = 1 /\ ~sleeping'
        BY <3>5 DEF ApplyUpdate, power
      <4>2. Pending' = Registers
        BY <4>1, AllPending DEF Pending
      <4> QED
        BY <4>1, <4>2 DEF AllLost
    <3>6. CASE ApplyRefresh
      <4>1. Pending = {} /\ cfgState' = cfgState /\ cfgState = "Refresh" /\ ~sleeping'
        BY <3>6 DEF ApplyRefresh, Pending, power
      <4> QED
        BY <2>1, <2>2, <4>1 DEF AllLost
    <3> QED
      BY <1>4, <3>1, <3>2, <3>3, <3>4, <3>5, <3>6
         DEF ServerStep, Fault, Others, linkVars, QuietStep
  <2> QED
    BY <2>1, <2>2 DEF TakenOrReady
<1> QED
  BY <1>1, <1>2, <1>3, <1>4 DEF LinkNext, Server, linkVars

LEMMA DarkLedsStep == OffIsDark /\ [LinkNext]_linkVars => OffIsDark'
<1> SUFFICES ASSUME OffIsDark, [LinkNext]_linkVars PROVE OffIsDark'
  OBVIOUS
<1>1. CASE LoopTurn
  <2>1. lit' = Render(state')
    BY <1>1 DEF LoopTurn
  <2> QED
    BY <2>1 DEF Render, OffIsDark
<1>2. CASE UNCHANGED <<state, lit>>
  BY <1>2 DEF OffIsDark
<1> QED
  BY <1>1, <1>2 DEF LinkNext, Server, Others, Transmit, TransmitRaw, linkVars, ctl

-----------------------------------------------------------------------------
(* What the effects divide by *)

\* No image there is, that of the sysmodule, the memory of the controller and the
\* state of its loop, has a zero that was not asked for, whatever its mode.
SafePeriod(r) == r["speed"] >= U32F_SCALE \/ AsksForZeroPeriod
SafeLeds(r) == r["num_pixels"] # 0 \/ AsksForZeroLeds
Safe(r) == SafePeriod(r) /\ SafeLeds(r)
ImagesSafe == Safe(reg) /\ Safe(dev) /\ Safe(state)

\* Whether an image is safe is a matter of two registers.
LEMMA SafeLocal ==
    ASSUME NEW p, NEW q, Safe(q), p["speed"] = q["speed"], p["num_pixels"] = q["num_pixels"]
    PROVE  Safe(p)
  BY DEF Safe, SafePeriod, SafeLeds

LEMMA LimitedSafe ==
    ASSUME NEW r \in [Registers -> Nat], Safe(r)
    PROVE  Safe(Limited(r))
<1>1. r["speed"] \in Nat /\ r["num_pixels"] \in Nat
  BY RegisterNames
<1>2. r["speed"] >= U32F_SCALE => Clamp(r["speed"], FastestSpeed, SlowestSpeed) >= U32F_SCALE
  BY <1>1, Scales DEF Clamp, Least, Most
<1>3. r["num_pixels"] # 0 => Least(MAX_PIXELS, r["num_pixels"]) # 0
  BY <1>1, Scales DEF Least
<1> QED
  BY <1>2, <1>3, LimitedAt DEF Safe, SafePeriod, SafeLeds

\* A period that is not below a millisecond is not one of zero.
LEMMA PeriodNotZero ==
    ASSUME NEW r \in [Registers -> Nat], r["speed"] >= U32F_SCALE
    PROVE  Period(r) # 0
<1>1. r["speed"] \in Nat
  BY RegisterNames
<1>2. \A x, d \in Nat : d # 0 /\ x >= d => x \div d # 0
  <2> SUFFICES ASSUME NEW x \in Nat, NEW d \in Nat \ {0}, x >= d, x \div d = 0 PROVE FALSE
    OBVIOUS
  <2>1. x = d * (x \div d) + (x % d) /\ x % d < d
    OBVIOUS
  <2> QED
    BY <2>1
<1> QED
  BY <1>1, <1>2, Scales DEF Period

LEMMA BootSafe == Safe(BootReg) /\ \A d \in BootDev : Safe(d)
<1>1. BootReg["speed"] = F2U32(5000 * One) /\ BootReg["num_pixels"] = 9
  BY SMT, RegisterNames DEF BootReg
<1>2. F2U32(5000 * One) >= U32F_SCALE
  BY SMT DEF F2U32, One, U32F_SCALE
<1>3. Safe(BootReg)
  BY <1>1, <1>2 DEF Safe, SafePeriod, SafeLeds
<1>4. ASSUME NEW d \in BootDev PROVE Safe(d)
  <2>1. PICK m : d = [BootReg EXCEPT !["scale"] = F2U32(0), !["mode"] = m]
    BY DEF BootDev
  <2>2. d["speed"] = BootReg["speed"] /\ d["num_pixels"] = BootReg["num_pixels"]
    BY <2>1, BootTypes, RegisterNames
  <2> QED
    BY <1>3, <2>2, SafeLocal
<1> QED
  BY <1>3, <1>4

\* A configuration puts no zero into an image but one it asks for.
LEMMA RegForSafe ==
    ASSUME NEW c \in Configs \cup {DefaultCfg}, NEW r \in [Registers -> Nat], Safe(r)
    PROVE  Safe(RegFor(r, c))
<1>1. c \in CfgSets
  BY ConfigsAssumption, DefaultCfgType
<1>2. RegFor(r, c)["num_pixels"] = c.num_pixels % 256
  BY RegisterNames DEF RegFor
<1>3. RegFor(r, c)["speed"] =
         IF "speed" \in ItemRegisters(c.mode) THEN F2U32(c.speed) ELSE r["speed"]
  BY RegisterNames DEF RegFor
<1>4. CASE c \in Configs
  <2>1. SafeLeds(RegFor(r, c))
    BY <1>2, <1>4 DEF SafeLeds, AsksForZeroLeds
  <2>2. CASE "speed" \notin ItemRegisters(c.mode)
    BY <1>3, <2>1, <2>2 DEF Safe, SafePeriod
  <2>3. CASE "speed" \in ItemRegisters(c.mode) /\ c.speed >= One
    <3>1. c.speed \in Nat
      BY <1>1 DEF CfgSets
    <3>2. F2U32(c.speed) >= U32F_SCALE
      BY <2>3, <3>1, SMT DEF F2U32, One, U32F_SCALE
    <3> QED
      BY <1>3, <2>1, <2>3, <3>2 DEF Safe, SafePeriod
  <2>4. CASE "speed" \in ItemRegisters(c.mode) /\ c.speed < One
    BY <1>4, <2>1, <2>4 DEF Safe, SafePeriod, AsksForZeroPeriod
  <2>5. c.speed >= One \/ c.speed < One
    BY <1>1, OneType DEF CfgSets
  <2> QED
    BY <2>2, <2>3, <2>4, <2>5
<1>5. CASE c = DefaultCfg
  <2>1. c.num_pixels % 256 # 0
    BY <1>5, SMT DEF DefaultCfg
  <2>2. "speed" \notin ItemRegisters(c.mode)
    BY <1>5 DEF DefaultCfg, ItemRegisters, RgbMode_Off, RgbMode_Pulse, RgbMode_Cycle,
       RgbMode_Rainbow, RgbMode_Load, RgbMode_Temperature
  <2> QED
    BY <1>2, <1>3, <2>1, <2>2 DEF Safe, SafePeriod, SafeLeds
<1> QED
  BY <1>4, <1>5

LEMMA SafeStep == IInv /\ LinkTypeOK /\ ImagesSafe /\ [LinkNext]_linkVars => ImagesSafe'
<1> SUFFICES ASSUME IInv, LinkTypeOK, ImagesSafe, [LinkNext]_linkVars
             PROVE  Safe(reg') /\ Safe(dev') /\ Safe(state')
  BY DEF ImagesSafe, Safe, SafePeriod, SafeLeds, AsksForZeroPeriod, AsksForZeroLeds
<1>1. Safe(reg) /\ Safe(dev) /\ Safe(state)
  BY DEF ImagesSafe
<1>2. reg \in [Registers -> Nat] /\ dev \in [Registers -> Nat]
  BY DEF IInv, TypeOK
<1>3. CASE LoopTurn
  BY <1>1, <1>2, <1>3, LimitedSafe DEF LoopTurn, vars, bus, drive
<1>4. CASE TransmitRaw
  <2>1. PICK w \in RawWrites : SendI2c(w[1], w[2])
    BY <1>4 DEF TransmitRaw
  <2>2. w[1] \in Registers /\ w[2] \in Nat
    BY RawWritesAssumption
  <2>3. dev' = [dev EXCEPT ![w[1]] = w[2]] /\ UNCHANGED <<reg, state>>
    BY <1>4, <2>1 DEF SendI2c, TransmitRaw, drive
  <2>4. SafePeriod(dev')
    <3>1. CASE w[1] = "speed"
      BY <1>2, <2>2, <2>3, <3>1, Scales, RegisterNames DEF SafePeriod, AsksForZeroPeriod
    <3>2. CASE w[1] # "speed"
      BY <1>1, <1>2, <2>3, <3>2, RegisterNames DEF Safe, SafePeriod
    <3> QED
      BY <3>1, <3>2
  <2>5. SafeLeds(dev')
    <3>1. CASE w[1] = "num_pixels"
      BY <1>2, <2>2, <2>3, <3>1, RegisterNames DEF SafeLeds, AsksForZeroLeds
    <3>2. CASE w[1] # "num_pixels"
      BY <1>1, <1>2, <2>3, <3>2, RegisterNames DEF Safe, SafeLeds
    <3> QED
      BY <3>1, <3>2
  <2> QED
    BY <1>1, <2>3, <2>4, <2>5 DEF Safe
<1>5. CASE Transmit
  <2>1. UNCHANGED <<reg, state>>
    BY <1>5 DEF Transmit, SendUpdate, SendScale, SendOff, drive
  <2>2. PICK r \in Registers : Sent(r)
    BY <1>5, SendRegisterType, RegisterNames DEF Transmit, SendUpdate, SendScale, SendOff
  <2>3. \A x \in Registers : dev'[x] \in {dev[x], reg[x]}
    BY <1>2, <2>2 DEF Sent
  <2>4. /\ dev'["speed"] \in {dev["speed"], reg["speed"]}
        /\ dev'["num_pixels"] \in {dev["num_pixels"], reg["num_pixels"]}
    BY <2>3, RegisterNames
  <2>5. Safe(dev')
    BY <1>1, <2>4 DEF Safe, SafePeriod, SafeLeds
  <2> QED
    BY <1>1, <2>1, <2>5
<1>6. CASE UNCHANGED <<dev, ctl>>
  <2>1. UNCHANGED <<dev, state>>
    BY <1>6 DEF ctl
  <2>2. CASE UNCHANGED reg
    BY <1>1, <2>1, <2>2
  <2>3. CASE \E c \in Configs \cup {DefaultCfg} : reg' = RegFor(reg, c)
    BY <1>1, <1>2, <2>1, <2>3, RegForSafe
  <2>4. CASE \E x \in {"scale", "mode"}, v \in Nat : reg' = [reg EXCEPT ![x] = v]
    <3>1. reg'["speed"] = reg["speed"] /\ reg'["num_pixels"] = reg["num_pixels"]
      BY <1>2, <2>4, RegisterNames
    <3> QED
      BY <1>1, <2>1, <3>1, SafeLocal
  <2>5. \/ UNCHANGED reg
        \/ \E c \in Configs \cup {DefaultCfg} : reg' = RegFor(reg, c)
        \/ \E x \in {"scale", "mode"}, v \in Nat : reg' = [reg EXCEPT ![x] = v]
    <3>1. CASE ApplyInit
      BY <3>1 DEF ApplyInit, Setup, IInv, TypeOK
    <3>2. CASE \E c \in Configs : SetConfigValues(c)
      BY <3>2 DEF SetConfigValues, Setup
    <3>3. CASE ApplyRefresh
      BY <3>3, ScaleType DEF ApplyRefresh, IInv
    <3>4. CASE SleepReady
      BY <3>4 DEF SleepReady, RgbMode_Off
    <3>5. CASE QuietStep
      BY <3>5, QuietFrame DEF drive
    <3>6. CASE BusStep
      BY <3>6, BusFrame
    <3>7. CASE Load \/ LoadFails \/ LoadError \/ ApplyUpdate \/ FullAwake
      BY <3>7 DEF Load, LoadFails, LoadError, LoadClosed, ApplyUpdate, FullAwake, drive
    <3>8. CASE LoopTurn \/ UNCHANGED linkVars
      BY <3>8 DEF LoopTurn, linkVars, vars, drive
    <3> QED
      BY <3>1, <3>2, <3>3, <3>4, <3>5, <3>6, <3>7, <3>8
         DEF LinkNext, Server, ServerStep, Fault, Others, Transmit, TransmitRaw, QuietStep,
             BusStep
  <2> QED
    BY <2>2, <2>3, <2>4, <2>5
<1> QED
  <2>1. CASE QuietStep /\ UNCHANGED ctl
    BY <1>6, <2>1, QuietFrame DEF bus
  <2>2. CASE /\ UNCHANGED ctl
             /\ \/ Load \/ LoadFails \/ LoadError \/ ApplyInit \/ ApplyUpdate \/ ApplyRefresh
                \/ SleepReady \/ FullAwake \/ \E c \in Configs : SetConfigValues(c)
    BY <1>6, <2>2 DEF Load, LoadFails, LoadError, LoadClosed, ApplyInit, ApplyUpdate,
       ApplyRefresh, SleepReady, FullAwake, SetConfigValues, bus
  <2>3. CASE UNCHANGED linkVars
    BY <1>6, <2>3 DEF linkVars, vars, bus
  <2> QED
    BY <1>3, <1>4, <1>5, <2>1, <2>2, <2>3
       DEF LinkNext, Server, ServerStep, Fault, Others, QuietStep

-----------------------------------------------------------------------------
(* The inductive invariant: that of the server, and what the controller has *)
(* of it.                                                                    *)
LinkInv == IInv /\ LinkTypeOK /\ TakenOrReady /\ OffIsDark /\ ImagesSafe

LEMMA LinkInitInv == LinkInit => LinkInv
<1> SUFFICES ASSUME LinkInit PROVE LinkInv
  OBVIOUS
<1>1. IInv /\ LinkTypeOK
  BY InitInv, LinkTypeInit DEF LinkInit
<1>2. TakenOrReady
  BY DEF LinkInit, Init, TakenOrReady, AllLost
<1>3. OffIsDark
  BY DEF LinkInit, OffIsDark
<1>4. ImagesSafe
  BY BootSafe DEF LinkInit, Init, ImagesSafe
<1> QED
  BY <1>1, <1>2, <1>3, <1>4 DEF LinkInv

THEOREM LinkInvariance == LinkSpec => []LinkInv
BY LinkInitInv, LinkStepInv, LinkTypeStep, TakenStep, DarkLedsStep, SafeStep, PTL
   DEF LinkSpec, LinkInv

\* The controller never has more LEDs than its strip, nor lights one beyond it,
\* whatever number it is sent.
THEOREM LinkTypeCorrect == LinkSpec => []LinkTypeOK
<1>1. LinkInv => LinkTypeOK
  BY DEF LinkInv
<1> QED
  BY <1>1, LinkInvariance, PTL

\* From the configuration to the LEDs, register by register.
THEOREM StripFollows == LinkSpec => []StripFollowsConfig
<1>1. LinkInv => StripFollowsConfig
  <2> SUFFICES ASSUME LinkInv, cfgState = "Refresh", pc = "wait", ~ready,
                      ~(~loaded /\ cfg = DefaultCfg), NEW r \in Registers \ stale
               PROVE  state[r] = Limited(RegFor(reg, cfg))[r]
    BY DEF StripFollowsConfig
  <2> USE DEF LinkInv, IInv
  <2>1. Pending = {}
    BY DEF Pending
  <2>2. state = Limited(dev)
    BY <2>1 DEF TakenOrReady, AllLost
  <2>3. dev[r] = reg[r]
    BY <2>1 DEF DeviceCatchesUp
  <2>4. reg = RegFor(reg, cfg)
    BY DEF ImageFollowsConfig
  <2>5. Limited(dev)[r] = Limited(reg)[r]
    BY <2>3, LimitedLocal DEF TypeOK
  <2> QED
    BY <2>2, <2>4, <2>5
<1> QED
  BY <1>1, LinkInvariance, PTL

\* Asleep, the LEDs that are counted are dark.
THEOREM DarkStrip == LinkSpec => []StripDark
<1>1. LinkInv => StripDark
  <2> SUFFICES ASSUME LinkInv, sleeping, pc # "off", "mode" \notin stale, ~ready
               PROVE  lit \cap 1..state["num_pixels"] = {}
    BY DEF StripDark
  <2> USE DEF LinkInv, IInv
  <2>1. state = Limited(dev)
    BY DEF TakenOrReady, AllLost
  <2>2. state["mode"] = RgbMode_Off
    BY <2>1, LimitedAt DEF SleepDark, TypeOK
  <2> QED
    BY <2>2 DEF OffIsDark
<1> QED
  BY <1>1, LinkInvariance, PTL

\* No effect divides by zero unless a client asks for that zero, whatever number is
\* taken for the mode.
THEOREM Effects == LinkSpec => []EffectsDefined
<1>1. LinkInv => EffectsDefined
  BY PeriodNotZero DEF LinkInv, LinkTypeOK, ImagesSafe, Safe, SafePeriod, SafeLeds,
     EffectsDefined, ZeroPeriod, ZeroLeds
<1> QED
  BY <1>1, LinkInvariance, PTL
=============================================================================
