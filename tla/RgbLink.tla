------------------------------- MODULE RgbLink -------------------------------
(***************************************************************************)
(* The sysmodule and the LED controller together: SysRgb's sends arrive at *)
(* the registers of the RP2040, whose loop (leds_mode of                   *)
(* firmware/usk/leds.c) takes them, puts them within limits and writes the *)
(* strip.  dev is the memory of the controller and what its interrupt      *)
(* handler copied of it at the end of the last transaction: a transaction  *)
(* of the server is one register.  That the handler and the loop do not    *)
(* tear a state is what I2cSlave shows; a turn of the loop is one step.    *)
(* One uptime of the console and the controller is modelled: SysRgb and    *)
(* I2cSlave have their restarts.                                           *)
(***************************************************************************)
EXTENDS SysRgb

MAX_PIXELS == 50
SlowestSpeed == U32F_SCALE * 60 * 60
FastestSpeed == 1000

VARIABLES
    ready,   \* i2c_context.update_ready
    state,   \* _state
    lit      \* the LEDs whose last colour was of a mode other than off

ctl == <<ready, state, lit>>
linkVars == <<vars, ctl>>

LinkTypeOK ==
    /\ ready \in BOOLEAN
    /\ state \in [Registers -> Nat]
    /\ state["num_pixels"] <= MAX_PIXELS
    /\ lit \subseteq 1..MAX_PIXELS

\* The smaller and the larger of two numbers; CLAMP.
Least(a, b) == IF a < b THEN a ELSE b
Most(a, b) == IF a > b THEN a ELSE b
Clamp(x, low, high) == Least(high, Most(x, low))

\* Seeded faults: the number of LEDs is not limited; the longest period is
\* taken for one in milliseconds.
LimitedButPixels(r) ==
    [r EXCEPT !["scale"] = Clamp(@, 0, U32F_SCALE),
              !["brightness"] = Clamp(@, 0, U32F_SCALE),
              !["hue"] = Clamp(@, 0, U32F_SCALE),
              !["speed"] = Clamp(@, FastestSpeed, SlowestSpeed)]
LimitedToMilliseconds(r) ==
    [r EXCEPT !["scale"] = Clamp(@, 0, U32F_SCALE),
              !["brightness"] = Clamp(@, 0, U32F_SCALE),
              !["hue"] = Clamp(@, 0, U32F_SCALE),
              !["speed"] = Clamp(@, FastestSpeed, 60 * 60),
              !["num_pixels"] = Least(MAX_PIXELS, @)]

\* The limits leds_mode puts on a state it has taken.
Limited(r) ==
    [r EXCEPT !["scale"] = Clamp(@, 0, U32F_SCALE),
              !["brightness"] = Clamp(@, 0, U32F_SCALE),
              !["hue"] = Clamp(@, 0, U32F_SCALE),
              !["speed"] = Clamp(@, FastestSpeed, SlowestSpeed),
              !["num_pixels"] = Least(MAX_PIXELS, @)]

\* The effects that move take the time modulo their period, an integer in
\* milliseconds: the pulse, the cycle, which is also what a number that is no mode
\* gets, and the rainbow, which divides by the number of LEDs too.
Period(r) == r["speed"] \div U32F_SCALE
ZeroPeriod(r) ==
    r["mode"] \notin {RgbMode_Off, RgbMode_Load, RgbMode_Temperature} /\ Period(r) = 0
ZeroLeds(r) == r["mode"] = RgbMode_Rainbow /\ r["num_pixels"] = 0

\* Only the first num_pixels LEDs are written; the others keep their colour.
Render(r) ==
    LET written == 1..r["num_pixels"]
    IN  IF r["mode"] = RgbMode_Off THEN lit \ written ELSE lit \cup written

-----------------------------------------------------------------------------
\* init_pixels puts no limits on its defaults.
LinkInit ==
    /\ Init
    /\ ready = FALSE /\ state = dev /\ lit = {}

\* One turn of the loop of leds_mode.
LoopTurn ==
    /\ state' = IF ready THEN Limited(dev) ELSE state
    /\ ready' = FALSE
    /\ lit' = Render(state')
    /\ UNCHANGED vars

\* The register a step of the server sends, if the bus does not lose it.
Sending ==
    CASE pc = "update" -> {SendRegister(sendState)}
      [] pc = "scale" -> {"scale"}
      [] pc = "off" -> {"mode"}
      [] OTHER -> {}

\* The interrupt handler, with the last byte of a transaction.
Transmit ==
    /\ SendUpdate \/ SendScale \/ SendOff
    /\ ready' = (ready \/ Sending \cap stale' = {})
    /\ UNCHANGED <<state, lit>>

TransmitRaw ==
    /\ \E w \in RawWrites : SendI2c(w[1], w[2])
    /\ ready' = TRUE
    /\ UNCHANGED <<state, lit>>

\* The steps of the server that do not reach the bus.
ServerStep ==
    \/ TimerTick
    \/ SaveDelete \/ SaveCreate \/ SaveWrite \/ SaveUnopened \/ SaveStamp
    \/ RefreshFile \/ Load \/ LoadFails
    \/ ApplyInit \/ ApplyNothing \/ ApplyUpdate \/ ApplyRefresh

Server == ((ServerStep \/ Fault) /\ UNCHANGED ctl) \/ Transmit

Others ==
    /\ \/ \E c \in Configs : SetConfigValues(c)
       \/ SleepReady \/ FullAwake
       \/ \E f \in Files : EditFile(f)
       \/ CpuSample \/ GenSample \/ Elapse
    /\ UNCHANGED ctl

LinkNext ==
    \/ Server \/ Others
    \/ TransmitRaw \/ LoopTurn

LinkSpec == LinkInit /\ [][LinkNext]_linkVars

(***************************************************************************)
(* Safety                                                                  *)
(***************************************************************************)

\* From the configuration to the LEDs: when an update has been sent and the loop
\* has turned, the strip shows the configuration the clients are told of, put
\* within limits, register by register but for those lost or written raw.
StripFollowsConfig ==
    cfgState = "Refresh" /\ pc = "wait" /\ ~ready =>
        \/ \A r \in Registers \ stale : state[r] = Limited(RegFor(reg, cfg))[r]
        \/ ~loaded /\ cfg = DefaultCfg

\* Asleep, the LEDs the controller counts are dark after a turn of its loop,
\* whatever clients configure meanwhile.  A LED beyond the last number sent
\* keeps the colour it had.
StripDark ==
    sleeping /\ pc # "off" /\ "mode" \notin stale /\ ~ready =>
        lit \cap 1..state["num_pixels"] = {}

\* Who asks for a period below a millisecond, and who for no LEDs.
AsksForZeroPeriod ==
    \/ \E c \in Configs : "speed" \in ItemRegisters(c.mode) /\ c.speed < One
    \/ \E w \in RawWrites : w[1] = "speed" /\ w[2] < U32F_SCALE
AsksForZeroLeds ==
    \/ \E c \in Configs : c.num_pixels % 256 = 0
    \/ \E w \in RawWrites : w[1] = "num_pixels" /\ w[2] = 0

\* No effect divides by zero unless that zero was asked for, whichever registers of
\* whichever updates met in the state that was taken, and whatever number a client
\* wrote as the mode: the limits of leds_mode leave no less than they were given.
EffectsDefined ==
    /\ ZeroPeriod(state) => AsksForZeroPeriod
    /\ ZeroLeds(state) => AsksForZeroLeds

(***************************************************************************)
(* What a comment says and the code does not.                              *)
(***************************************************************************)

\* "Speed from 1 sec - 1 hour": a period between the two is taken as it is.
SpeedInRangeKept ==
    [][ready /\ ~ready' /\ Period(dev) \in 1000..3600000
          => state'["speed"] = dev["speed"]]_linkVars
=============================================================================
