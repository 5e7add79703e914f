# Verification of fly2040

fly2040 lights the console with WS2812 LEDs driven by an RP2040. A background
service of the console (the *sysmodule*) turns the user's configuration into
register writes over I2C; the firmware of the RP2040 takes them, renders the
effects, and before that starts the console: it writes its payload to the eMMC,
glitches the processor, and updates itself between two slots in flash.

This directory holds TLA+ models of the parts of that program that decide
something, the TLC configurations that check them on small instances, and
proofs for TLAPS that what matters holds for every instance. `PROJECT.json` maps
every definition to the lines it models.

    tlc -config RgbLink.cfg MCRgbLink.tla       # one run
    tlapm SysRgbProofs.tla                      # one module's proofs

## 1. Inventory

| Component | Source (under `src/`) | State | Operations | Status |
|---|---|---|---|---|
| Sysmodule server | `app/sysmodule/src/sys_rgb_ipc.cpp` | send and configuration state machines, image of the registers, sleep, timer | power notification, timer tick, IPC requests | `SysRgb`, `RgbLink` |
| Configuration file | `app/sysmodule/src/config_impl.cpp`, `app/common/include/config.hpp` | configuration in memory, loaded flag, timestamps, the file | Load, Refresh, Save, SaveConfig | `SysRgb` |
| Monitors | `app/sysmodule/src/cpu_mon.cpp`, `gen_mon.cpp` | running flags, mode, readings | start, stop, sample, get | `Monitors`, `MonitorFlags` |
| I2C slave, LED loop | `firmware/usk/leds.c` | register memory, address, published state, flag | interrupt handler, loop | `I2cSlave`, `RgbRegisters`, `RgbLink` |
| LED rendering | `firmware/usk/leds.c` | LEDs lit, time | limits, effects | in part, in `RgbLink`: no colours |
| Boot loader, update, fuses | `firmware/busk/main.c`, `usk/main.c`, `usk/payload.c`, `usk/fuses.c` | two slots, fuse counter, watchdog scratch registers, order in the eMMC | choose slot, update, rollback, burn | `FwBoot`, `TwoSlots` |
| eMMC payload writer | `firmware/usk/payload.c`, `usk/main.c`, `usk/config.c` | blocks of the eMMC, retry counters, buffers | copy tables, write areas, read back | `Payload` |
| Firmware configuration, boot records | `firmware/usk/config.c`, `usk/main.c` | page of the owner, unary counters, lock | erase, init, add and find a record, rounds over the offsets | `UskConfig`, `BootRecords` |
| Glitch | `firmware/usk/glitch.c` | width, step, edges | one attempt | `Glitch`; the pulse itself is analogue |
| Log stream | `app/common/include/memstream.hpp` | ring buffer under a lock | write, read | not modelled |
| Queue | `app/common/include/queue.hpp` | bounded blocking queue | none that the program uses | not modelled |
| IPC client | `app/common/src/client/ipc.cpp` | reference count | initialize, exit | not modelled |
| Manager, overlay | `app/manager`, `app/overlay` | widgets | requests to the server | not modelled |
| Board detection, PIO, hardware, vendored libraries | `firmware/usk`, `hardware`, submodules | board data | | not modelled |

How they interact. The manager calls the server over IPC (`SetConfigValues`,
`SendI2c`). One server thread serves requests, the timer and power
notifications, one at a time, and writes to the RP2040; the two monitor threads
store readings it reads. The card can be edited, or fail, at any moment. In the
RP2040 the I2C interrupt handler and the loop of `leds_mode` share memory, a flag
and a spin lock. The firmware and the console talk through block 1 of the eMMC:
a boot configuration table, whose signature says whose it is, or an order (chip
reset, update, rollback). Boot loader and firmware talk through the watchdog's
scratch registers and the parity of the fuse counter.

What is hard here. Lost I2C sends that nobody repeats; requests while asleep;
edits of the card that a coarse clock hides; power lost between the delete, the
create and the write of the file; the copy of the published state against the
handler that publishes the next; power lost between any two writes of an update
or of the payload; retries that write what they read back; and decisions made
from flags that were true when they were read; a thread that is told to stop while
it sleeps; and a search that follows what an analogue pulse gives. `PROJECT.json` lists each hazard
at its line, with the properties that watch it.

What makes each part correct:

- server: the monitors the mode reads are running; the image is that of the
  configuration; the controller holds the image; asleep is dark; it settles;
- file: a setting taken for saved is on the card;
- I2C slave: bytes land where they were addressed; no torn, stale or unlimited
  state is shown; what was published is flagged until it is taken; the last one is
  shown in the end;
- the two together: the strip shows the configuration, is dark when the console
  sleeps, and no effect divides by zero;
- monitors: no two threads on a stack, no reading from a monitor that is off; a call
  does not go back to a thread it has done with;
- boot: the next power-on has a slot that works; an order is followed once; the
  slots are two images that change places; the loader gives up only when nothing
  starts, and never restarts for ever;
- payload: when a pass ends, every block is on the card; the console's own tables
  are overwritten only when their copy is whole; the tries end;
- boot records: they are of the console they are used for, and are given up and taken
  over as one; the best is tried first and none is left out; the search ends.

## 2. Modules

### SysRgb (`MCSysRgb`, `SysRgbProofs`)

`pc` is the place of the server thread; `"wait"` is `WaitSignaled`. Every file
operation and every I2C send is a step of its own, so that the rest of the world
acts between any two.

| Source | Model |
|---|---|
| `LoopIpcServer`: timer, power | `TimerTick`, `SleepReady`, `SendOff`, `FullAwake` |
| `SetConfigValues`, `SendI2c` | `SetConfigValues(c)`, `SendI2c(r, v)` |
| `HandleConfig`: stop the old mode, set up the new | `StopsCpu`, `StopsGen`, `Setup`, `RegFor` |
| `HandleConfig`: Init, Update, Refresh | `ApplyInit`, `ApplyUpdate`, `SendUpdate`, `ApplyRefresh`, `SendScale`, `ApplyNothing`, `OpenFails` |
| `Save` | `SaveDelete`, `DeleteFails`, `SaveCreate`, `CreateFails`, `SaveWrite`, `SaveUnopened`, `SaveFails` |
| `SaveConfig` | `SaveStamp`, `StampFails`, `SaveEnds` |
| `Refresh` | `RefreshFile`, `RefreshUnstamped`, `Trusted` |
| `Load` | `Load`, `LoadFails`, `LoadError` |
| monitor threads | `CpuSample`, `GenSample` |
| clock, card, power | `Elapse`, `EditFile`, `PowerLoss` |

Floats are counted in units of 1/100000, so that the fixed-point conversion
(times `U32F_SCALE`, truncated) and the float that is not converted differ. `mtime`
is what the timestamp kept comes to when it is compared: the one the file has
(`"seen"`), another (`"old"`), or 0, which `CheckModificationTime` returns for no file and
for a timestamp it cannot read alike. Whatever changes the file gives it the
timestamp of now (`Touched`), which a coarse clock may not tell from the one before.

`Save` drops the results of `DeleteFile` and `CreateFile`, and writes at offset 0 without
truncating. So a delete that fails, or a file that an edit puts there between two
steps, leaves a file under the text that is written (`Overlaid`): if it was longer, its
tail stays behind the new text, which is then no configuration, and `Save` returns true
all the same. `CreateFails` leaves what is there, or nothing, which `SaveUnopened` finds.

`stale` and `lost` are history: the registers whose last write was lost or raw, and
that the file is not what the server takes it for. `Disturbances` switches parts of the
environment on; the proofs hold for every set of them.

### RgbRegisters and I2cSlave (`MCI2cSlave`, `I2cSlaveProofs`)

`RgbRegisters` is the promise: a memory written byte by byte, whose state is taken
whole at the end of a transaction and shown, limited, in order. `I2cSlave` is the
code: `ReceiveAddress`, `ReceiveData`, `Request`, `Finish` are the events of
`i2c_slave_handler`; `Check`, `Lock`, `CopyByte`, `Unlock`, `Apply`, `Render` are the
loop of `leds_mode`. The handler runs to its end between two steps of the loop and
not at all while the spin lock masks it, for both run on core 0. The refinement
mapping takes the state in the middle of a copy for the one that is being copied.
The limits are a constant function `Clamp`, any at all in the proofs. `PowerLoss` is a
restart up to the loop: `init_pixels` reads the flag and chooses what to come up with
(`came_up`), and after it `main` may call `rewrite_payload`, which erases the page the flag
is in; `Init` is every state such a start can end in. `received` remembers that a state of
the master's was ever taken. `NothingLost` is the
safety half of `EventuallyShown`: where the loop is about to look at the flag and finds it
down while no transaction is half done, the strip already shows what the memory holds.

### RgbLink (`MCRgbLink`, `RgbLinkProofs`)

SysRgb's server and the loop of the controller in one specification. `dev` of SysRgb
is now what the interrupt handler has copied at the end of a transaction; `ready` is
`update_ready`, `state` is `_state`, and `LoopTurn` is a turn of `leds_mode`: it takes the
state, puts it within limits (`Limited`) and writes the strip (`Render`), of which only
what is lit is kept. Every action of SysRgb is a step here, those that reach the bus
with what the handler does (`Transmit`, `TransmitRaw`). That the turn may be one step is
what I2cSlave shows: its loop implements RgbRegisters, where taking a state is one.
`ZeroPeriod` and `ZeroLeds` are what the integer divisors come to: the period of the pulse,
the rainbow and the cycle, which `default:` gives to every number that is no mode
(`leds.c:291`), and the number of LEDs at `:303`.

### MonitorFlags and Monitors (`MCMonitors`, `MonitorsProofs`)

`MonitorFlags` is what SysRgb takes the monitors for: `Start` and `Stop` are one step,
and only a monitor that is on stores readings. `Monitors` is the code: `Begin` sets or
clears `_running`, then `Create`, `StartThread` or `Close` go over the threads one at a
time, while each thread reads the flag (`Check`) and stores what it read (`Store`). To
create or to start a thread may fail. The mapping takes a monitor for on until its
`stop` returns, and that is enough because `stop` waits.

### TwoSlots and FwBoot (`MCFwBoot`, `FwBootProofs`)

The chip from reset to lit LEDs. An image is what it does: its CRC is right
(`Valid`), it gets as far as stopping the watchdog (`Starting`), it can start the
console (`Glitching`). `cause` and `boot_try` are the watchdog's reason and its first
scratch register, `slot` and `fuses` are flash, `cmd` is block 1 of the eMMC.
`FirstBoot`, `NextBoot`, `TriesExhausted`, `WatchdogBites` are the boot loader; `Start` to
`UpdateDone` the firmware's start and its update; `Rewrite` to `EraseFuses` the way to
the console. Every write to flash or eMMC is a step. A slot may go bad (`Decay`);
`decayed` remembers it, for what no flash can promise.

`TwoSlots` is what all of this promises together: a `current` image and the `other`, which
may be written and may change places with it, on an order and once for each, when it
is one that starts the console. It has no power, no fuses, no tries and no blocks. The
mapping takes the slot of the fuses' parity for the current one; the change from the
last fuse to the first, which passes through a chip without fuses, is a stutter
there, and so is every loss of power.

### Payload (`MCPayload`, `PayloadProofs`)

What FwBoot takes for one step, `Rewrite`, block by block. The areas 1 and 2 are the
copies of the console's tables that `copy_bct` makes, 3 is the payload, 4 and 5 are
the tables, 6 is the descriptor, in the order they are written; "backup" is the
name given here to the copies, after what they are of. A block is told by whose it
is: the console's, from before a system update, the firmware's, or junk. `write_data`
and `copy_bct` are one loop (`ReadSource`, `Fill`, `WriteBlock`, `ReadBack`, `Again`) with its
six tries and the `reinit_mmc` before the fourth; they differ in what a retry forgets,
and `write_data` keeps `copy_done`: after a read-back that differed it writes again
what it read, so its retries repair a command that failed and never a block that
was written wrongly. That is useless and not unsafe: `PassComplete` holds.

What `PassComplete` does not say. It speaks of a pass that ends, and of the second round
of the glitch, which a rewrite precedes. In the first round a configured console may lack
blocks: a system update replaces the tables, the next start begins to write them again,
power is lost after block 1, and the start after that finds the signature and the
flag and goes to the glitch. Only the rewrite after a round that failed repairs it.

### BootRecords, Glitch and UskConfig (`MCUskConfig`, `UskConfigProofs`)

`UskConfig` is `main` from the decision to rewrite to the end, with the flash it
decides from; `Glitch` is `glitch_try_offset`, one `Pulse` a turn of its loop, with any of
the four results of `do_glitch`. An offset is its page. `EraseSector` and `InitPage` are
`init_config`, `FindRecord` and `NoRecord` the rounds over `find_best_record` with its static
variables `last_weight` and `last_offset`, `PickOffset` and `RoundDone` the random rounds,
`AddRecord` the counting with its lock. `PowerLoss` may bring the chip back in another
console or with another firmware. `from` and `tried` are history: whose starts a record
counts, and what a round has tried.

`BootRecords` is what the code that tries the offsets may take the flash for: one store
with an owner, which is given up as a whole in one step, is taken over only empty,
counts for its own console only, and is locked only when a counter is full. The mapping
(`Visible`) hides the pages as long as nobody owns them: the store is given up with page 0,
at the first sector, and what the other sectors still hold does not matter because
nobody is accepted before they are blank. It also rests on `is_configured` asking for the
console's id: without that test records would be counted in another console's store.

### Measures of progress

Termination is model-checked under fairness (below). What can be proved of it is the
argument for it: `Progress` of FwBoot, Payload, UskConfig and Monitors says that every step of
the chip, or of a call, failing steps included, goes down in a lexicographic order
(`Nearer`) whose parts are the counters of the code: the tries of the boot loader, the
place in `main`, areas, blocks, tries of a block, sectors, offsets not yet tried, the
step and the edges of the search, the threads of a loop. Each part is bounded by the
type invariant, so that the order has no infinite descent, and with fairness
the end is reached. Two of them say what does not go down: in UskConfig a pulse that
the eMMC misses, in Monitors the turns of threads that are not waited for.

## 3. Runs

| Run | Instance | States | Shows |
|---|---|---|---|
| `SysRgbMonitors` | six configurations, an autonomous mode and all choices of monitors; sleep and edits | 978,162 | `MonitorsServeMode`: from any mode to any, by request or by file, awake or asleep, the monitors that are read run in the right mode; `ImageFollowsConfig` |
| `SysRgbCard` | two configurations; power, sleep, edits, coarse clock, failing card and sessions | 63,496 | `SettingsSafe`, `EventuallySettled` |
| `RgbLink` | the rainbow on 5 LEDs and Load on 60, two readings, raw writes of a number that is no mode; sleep, lost sends, sessions that do not open | 2,334,658 | `LinkTypeOK`, `StripFollowsConfig`, `StripDark`, `EffectsDefined` of the two; `ModeComesLast` of the server |
| `I2cSlave` | memory of three bytes, state of two, a limit on one | 34,056 | `TypeOK`, `RegistersAsWritten`, `FlagBeforeShown`, `NothingLost`, `Implements` (RgbRegisters), `EventuallyShown` |
| `FwBoot` | five images of every kind, updates of 0 to 4 blocks of which 2 are an image and 3 the most, four fuses, slots that go bad | 163,292 | `TypeOK`, `NeverBricked`, `HaltsOnlyWhenLost`, `SwitchAsked`, `Implements` (TwoSlots), `Progress`, `NoBootLoop` |
| `Payload` | first table of two blocks, one block of everything else | 254,128 | `TypeOK`, `PassComplete`, `BackupKept`, `Progress`, `ComesToRest` |
| `UskConfig` | two consoles, three offsets in two sectors, counters of two bits, widths up to 6 | 256,996 | `TypeOK`, `RecordsOwn`, `LockedWhenFull`, `BestFirst`, `RoundsComplete`, `Implements` (BootRecords), `Progress`, `ComesToRest` |
| `Monitors` | three cores, two readings, creations and starts that fail | 44,945 | `RunsWhole`, `StackFree`, `Implements` (MonitorFlags), `Progress`, `ServerReturns` |
| `SysRgbLeak` | as `SysRgbMonitors` | violated | `OldModeDeactivated` |
| `I2cReset` | as `I2cSlave` | violated | `OffOnceReceived` |
| `SysRgbTemperature` | the temperature mode | violated | `TemperatureScaled` |
| `RgbSpeed` | as `RgbLink`, undisturbed | violated | `SpeedInRangeKept` |

Four properties are theorems and in no run any more: `TypeOK` of SysRgb and of Monitors,
and the server's halves of the two strip properties, `DeviceFollowsImage` and `SleepDark`. A
fault of the server that breaks a half is seen on the strip: the mutants of
`StripFollowsConfig` and `StripDark` are such faults.

No counter is cut off by a bound of the model: the state spaces are finite because
the code's own counters are, and are explored to the end. One run has a constraint:
`FewLost` of `RgbLink` keeps to states where at most one register is lost or raw, of
which any of the six may be the one; the theorems of RgbLinkProofs have no such
bound. Why the instances are enough:

- two configurations are what it takes for the file, the memory and the image to
  differ; six cover every change between and within the two modes that read
  monitors, and from and to one that does not;
- two bytes of state can be torn, a third is beyond the state and makes the
  address wrap past it; values 0 and 2 with a limit of 1 tell a limited state from
  one that was not;
- an image of two blocks can be written in part, one more block than the image and
  one more than allowed are there; the fuses are all burnt and erased;
- 60 LEDs are more than the controller has, 5 fewer than it starts with: the number
  grows, falls and is limited; the rainbow is the effect with both divisors, and a mode of
  6 is one the code does not name;
- three offsets have two of equal weight and one of another; the third is in the
  second sector, which is used in part; counters of two bits are empty, counted and
  full; widths of 1 and 6, two steps and one edge reach every way out of an attempt;
- three cores fail at the first, in the middle and at the last;
- two blocks of the first table, the signature in the second, are what a pass can
  be cut off between.

### Fairness

`WF(Timer \/ Fault)` in SysRgb: the server thread has nothing else to wait for when
the timer has fired or a request is half done, and `Elapse` is the clock. The monitor
threads need no fairness. `WF(Main)` in I2cSlave: the loop is never blocked, for
interrupts are short, and the handler has given the lock back when it ends. `WF(Chip)` in FwBoot and Payload:
between two steps only the loss of power stops the chip, and every command to the
card ends with its answer or its timeout. `WF(Chip)` in UskConfig is the same. In Monitors, `WF(Server)` and `WF(Turn(t))` of each
thread: a call goes on when it can, and the scheduler lets every thread run; nobody
has to call. Clients, masters, the console, power and the card owe nothing; the
liveness properties speak of behaviours in which they stop interfering
(`<>[][Calm]_vars` and the like), or of fairness alone.

Two liveness properties name an exception, and TLC refutes them without it.
`ServerReturns`: a `stop` that waits for a thread which was created and could not be
started waits for ever (`cpu_mon.cpp:53`), and with it the server; that is also why
deadlock is not checked in this run. `ComesToRest` of UskConfig: an eMMC that misses
now and then, fewer than five times in a row, hides each time an edge that would have
counted (`glitch.c:194` compares with the result just before), and may do so for ever.

## 4. What the runs found

Four comments say what the code does not do (`findings`):

1. `sys_rgb_ipc.cpp:272` "deactivate old mode": the test at line 291 uses `&&` where the
   two conditions are alternatives. From Temperature to Load without GPU load, or
   to an autonomous mode with `load_gpu` set, the general monitor goes on running.
2. `leds.c:53` "Once initial i2c received default to off.": `init_config` (`config.c:84`)
   erases the flag that says so whenever the boot images are written again, after
   `init_pixels` has read it. The next start comes up cycling.
3. `leds.c:262` "Scale from 0.0 - 1.0": in the temperature mode the float is assigned
   to the integer register (`sys_rgb_ipc.cpp:435`), so every reading below 1.0 is sent
   as 0.
4. `leds.c:268` "Speed from 1 sec - 1 hour": the register is milliseconds times 10000,
   and the limits of line 269 are 0.1 ms and 3.6 s. The default of five seconds and
   most of the manager's slider (1 to 11 s) are shown as 3.6 s, and a period below a
   millisecond, which is 0 as a divisor, passes.

More that the models show and no line of the source denies; the properties
name them as exceptions, and hold without any other (the two liveness exceptions are above):

- `BackupKept` excepts `Hole`, the two ways in which `write_payload` copies tables of its
  own over the backup: in the rewrite that follows a failed glitch of the boot that
  first wrote them, for `is_space_bl` is that of `fast_check` (`payload.c:725`); and at the
  start after power went between block 0 and block 1 of the first table, for the
  signature is still the console's.
- `SettingsSafe` and `EventuallySettled` except `lost`, which has three causes. A save that
  failed and left a file whose timestamp is the one kept is not repeated, for the flag is
  cleared all the same (`sys_rgb_ipc.cpp:160`). A text written over a longer one is taken
  for saved with the old tail behind it (`config_impl.cpp:139-146`), and is found only at
  the next start, which gets the defaults from it, or nothing. An edit between the write and the
  `CheckModificationTime` of `SaveConfig`, or within one unit of the file system's clock, is
  not seen. All three take a card that fails or somebody who edits it: `SavedUndisturbed`
  is the same without any exception where there is neither.
- A timestamp that cannot be read is 0 (`config_impl.cpp:97`): the file is loaded once
  more, or, when the one kept is 0 too, not looked at until it can be read again.
- An unchanged load is sent again on every tick: a float in 0..1 is compared with the
  register that holds it times 10000 (`sys_rgb_ipc.cpp:395`, against the comment at :381).
- `PassComplete` says nothing of the first round of the glitch of a configured console
  (above).
- `ImageFollowsConfig` and `StripFollowsConfig` except a file that could not be loaded:
  `Load` has reset the configuration by then (`config_impl.cpp:17`), and the LEDs go on.
- `StripDark` speaks of the LEDs the controller counts: one beyond the last number sent
  keeps the colour it had, asleep too (`leds.c:180`).
- `EffectsDefined` excepts what asks for it: no LEDs, which the manager's slider can
  give (`settings_tab.cpp:110`), or a period below a millisecond.
- `RunsWhole` excepts a monitor that could not have a thread: the flag stays set
  (`cpu_mon.cpp:24`), so that no later `start` tries again before a `stop`.

## 5. Proofs

Every proof is by an inductive invariant, `IInv`, of the module's `Spec`, for every
value of the constants that their assumptions allow. TLC checked each `IInv` on
the run's instance first.

**SysRgbProofs.** For any set of configurations, readings, raw writes and
disturbances: `TypeCorrect`, `MonitorsRun` (`MonitorsServeMode`), `ImageIsConfig`
(`ImageFollowsConfig`), `DeviceIsImage` (`DeviceFollowsImage`), `DarkAsleep` (`SleepDark`),
`ModeLast` (`ModeComesLast`), `SavedIsOnCard` (`SettingsSafe`), and `SavedUndisturbed`: when
the card does not fail and nobody edits it (`Undisturbed`), `SettingsSafe` without `lost`,
wherever power is lost and however coarse the clock.
They need one another: that the controller holds the image once the update ends
needs what was sent so far in the middle of it, and that needs that nobody changes
the image while `pc` is `"update"`; that the mode is off asleep needs that a request
served asleep sends nothing. `CardInv` adds to `SettingsSafe` what holds between the
operations of a save.

**RgbLinkProofs.** `LinkImplements` (`LinkSpec => Spec` of SysRgb) brings every theorem above
over to the composition. On top of them `LinkTypeCorrect` (`LinkTypeOK`), `StripFollows`
(`StripFollowsConfig`), `DarkStrip` (`StripDark`) and `Effects` (`EffectsDefined`), for every
number of lost registers. `TakenOrReady` says that what the loop holds is the limited
image but where a transaction is still to be taken; `ImagesSafe` that no image, sent or
not, has a zero that nobody asked for, which has to hold of every mixture of two
updates, and so register by register; period and number of LEDs each have their own
half, and neither rests on the mode, for a raw write may store any number there.

**I2cSlaveProofs.** For every size of memory and state, every default and limit:
`TypeCorrect`, `WritesLand` (`RegistersAsWritten`), `FlagFirst` (`FlagBeforeShown`), `NoneLost`
(`NothingLost`) and `Refinement` (`Spec => Promise!Spec`). `CopyMasked` is the argument: from the first byte
of the copy to the last the handler is masked, so the bytes copied equal those of
`i2c_state`, and after the last the two are equal. `AddressAwaited` ties the handler's
flag to the master's transaction. `Unconfigured` extends `FlagBeforeShown` to the state
that is shown next, and ties it to what the start read (`came_up`) and not to the flag,
which the same start may have erased. `HandedOver` follows a state from the memory through the copy to the
strip (`Published`, `Taken`): at every place of the loop what was written last is flagged, or
being copied, or on its way through the limits, or shown; the flag is cleared before
the copy, and this is where the order of the two matters.

**FwBootProofs.** For every set of images, sizes and even number of fuses:
`TypeCorrect`, `Unbricked` (`NeverBricked`), `HaltsLate`
(`HaltsOnlyWhenLost`), `OneSwitch` (`SwitchAsked`), `Refinement` (`Spec => Promise!Spec`, TwoSlots) and
`AlwaysNearer` (`Progress`). `Running` says that what runs is the slot
its try names, that only a first try updates, and so only the other slot is
written; `Lost` what each restart has shown of a slot, which two restarts turn into
"neither starts"; `Ordered` that a try of the other slot follows an order that has
been cleared. Parity enters through `SlotNames`. The refinement has one step per action: an
update's block is `Write`, because what runs is the current slot; the burnt fuse is
`Switch`, because only an image that has started the console burns it; everything
else stutters.

**PayloadProofs.** For areas of every size, tables of at least two blocks:
`TypeCorrect`, `WrittenWhole` (`PassComplete`), `BackupSafe` (`BackupKept`), `AlwaysNearer` (`Progress`). `Done` is the part
of the areas behind the place of the pass; `CopyTrue` and `WriteTrue` say what is there,
`FlagsTell` that the flags of `fast_check` speak of the table on the card as long as the
pass has not changed it: a table called its own was backed up before. `DoneNext` is
the one arithmetic step: behind the next place is what was behind this one, and the
block just read back.

**UskConfigProofs.** For every number of offsets, sectors, bits and consoles:
`TypeCorrect`, `NoForeignRecords` (`RecordsOwn`), `LockHasCause` (`LockedWhenFull`), `HeaviestFirst`
(`BestFirst`), `NoneLeftOut` (`RoundsComplete`), `Refinement` (`Spec => Promise!Spec`, BootRecords) and
`AlwaysNearer` (`Progress`). `ErasedSoFar` is the order of the erasing: page
0 goes first, so that from then on nothing is accepted, and before it is programmed
all is blank, for which `SectorsReach` shows by division that no page is behind the last
sector. `SavedInOrder` is the argument for the rounds: `max_weight`, `last_weight` and
`last_offset` stand for the set of the offsets tried, which is everything up to the last
one in the order of `Before`.

**MonitorsProofs.** For every number of cores, all readings and faults: `TypeCorrect`,
`WholeOrFailed` (`RunsWhole`), `OneOnAStack` (`StackFree`), `KeepsPromise` (`Spec => Promise!Spec`) and
`AlwaysNearer` (`Progress`).
`Owned` says that a thread exists only for a monitor that runs or is being stopped,
`InCall` how far the loop of the call has come, `StartedSoFar` and `Whole` which threads
are there; `WaitedForLeaves` that the thread a `stop` waits for has its flag down, so that a
turn of its own can only take it towards its exit.

Only model-checked, for liveness under fairness is out of this prover's reach (it has
no ENABLED, and no induction over a well-founded order): `EventuallySettled`,
`EventuallyShown`, `NoBootLoop`, `ComesToRest` of Payload and of UskConfig, `ServerReturns`. Of the
last four the measures above are proved, of `EventuallyShown` its safety half; the step
from there to the end is TLC's. Every safety and action property, and every
refinement, that a passing run checks is a theorem.

## 6. Assumptions

- The I2C library delivers the bytes of a transaction before its end, and in
  order.
- Erasing a 4K sector, programming a page and writing a block of the eMMC happen or do
  not; a command that fails may have happened. A file that is open for writing is not
  edited by others, and a text that is written over another in part reads as the new
  configuration, as one of the others, or as none. A slot under update counts as torn
  from its first block to the last block of the image, and a torn slot fails its CRC.
- The images that start are builds of this code: an update to a program that does
  something else is not modelled. That a slot went bad, the chip finds out when
  it starts.
- To wait for a thread that was not created, or was closed, returns at once (libnx:
  the handle is not valid); a thread that exited stays as it is until it is closed.
- RgbLink has one uptime of the console and of the controller; their restarts are in
  SysRgb and I2cSlave. A register is a natural number, not 32 bits: the largest that
  the manager gives, 11 s, is 110,000,000.
- A system update of the console writes both tables at once. The console orders
  something only when it was started through the firmware's tables.
- JSON is abstracted to "reads as this configuration" or "does not"; a configuration
  has the parameters of its own mode only, for `HandleConfig` reads no others.
- IPC and the timer are the libraries'; requests that only read are left out.

## 7. Not modelled

- The colours, and the scale of a reading: expressions on floats, without a decision in
  them. TLC has no floats and the properties would repeat the expression.
- The descriptor (`payload.c:667`): what it says can be old in four ways (a switch that is
  given up, power lost before the burn, a slot gone bad, all fuses burnt), and nothing in
  the repository reads it, so that no property of it could be stated from the code.
- `MemStream`: a ring buffer under one lock. A full one counts as empty (its line 56
  lets `_put` reach `_get`) and what it holds is lost; only the log, of 512 bytes, meets it.
- `Queue`: nothing includes it. The IPC client: a count that one process with one thread
  changes at its start and its end. The manager: its requests are the `Client` steps of
  SysRgb. The overlay is a stub.
- `update_ms`, the period of the timer: the models have no time. The code applies it when
  the server starts, before the file is loaded, and on waking only.
- The pulse, board detection, the PIO programs and the protocol of the eMMC are hardware
  registers and timing; a pulse and a command have every result they can have.
- Everything else in `src/` is third party: Atmosphere-libs, borealis, libtesla, json.hpp,
  wren and the I2C test interface are by far the most of its lines, and none of them
  is this program's logic.
