------------------------------ MODULE I2cSlave ------------------------------
(***************************************************************************)
(* The LED controller of the firmware, firmware/usk/leds.c: the interrupt  *)
(* handler of the I2C slave, i2c_slave_handler, and the loop of leds_mode  *)
(* it interrupts.  Both run on one core: the handler runs to its end       *)
(* between two steps of the loop, unless the loop has masked it by taking  *)
(* the spin lock, and every byte the loop copies is a step.                *)
(*                                                                         *)
(* The master is external.  Its transactions come to the handler as one    *)
(* event per byte and one when it stops or restarts; a write begins with   *)
(* the address, a read continues at the address the controller is at.      *)
(***************************************************************************)
EXTENDS Integers

CONSTANTS ByteSize, StateSize, Defaults, Clamp,
    Data        \* the bytes the master writes as data

VARIABLES
    mem, mem_address, mem_address_written, write, update_ready, \* i2c_context
    i2c_state,      \* _i2c_state
    state,          \* _state
    i2c_configured, \* the flag in flash, is_i2c_configured()
    leds,           \* the state update_pixels has put on the strip
    pc,             \* where the loop of leds_mode is
    copied,         \* bytes of _i2c_state copied to _state
    irq,            \* interrupts are enabled
    tx,             \* the master's transaction: "idle", "data" or "read"
    cursor, image,  \* history: the address and the memory as the master sees them
    came_up,        \* history: the flag as init_pixels read it
    received        \* history: the loop has taken a state of the master's, ever

context == <<mem, mem_address, mem_address_written, write>>
master == <<tx, cursor, image>>
history == <<came_up, received>>
loop == <<pc, copied, irq, state, i2c_configured, leds, history>>
vars == <<context, update_ready, i2c_state, loop, master>>

\* What is promised: between the first byte that is copied and the limits,
\* next is not stored anywhere.
Promise == INSTANCE RgbRegisters WITH
    latest <- i2c_state,
    next <- IF pc = "copy" THEN Clamp[i2c_state]
            ELSE IF pc = "apply" THEN Clamp[state]
            ELSE state,
    shown <- leds

Byte == Promise!Byte
Offsets == Promise!Offsets
States == Promise!States
StateOf(m) == Promise!StateOf(m)

ASSUME SizesAssumption ==
    /\ ByteSize \in Nat /\ StateSize \in Nat
    /\ 0 < StateSize /\ StateSize <= ByteSize
ASSUME DefaultsAssumption == Defaults \in [BOOLEAN -> Promise!Memories]
ASSUME ClampAssumption == Clamp \in [States -> States]
ASSUME DataAssumption == Data \subseteq Byte

TypeOK ==
    /\ mem \in Promise!Memories /\ image \in Promise!Memories
    /\ mem_address \in Byte /\ cursor \in Byte
    /\ mem_address_written \in BOOLEAN /\ write \in BOOLEAN
    /\ update_ready \in BOOLEAN /\ irq \in BOOLEAN /\ i2c_configured \in BOOLEAN
    /\ i2c_state \in States /\ state \in States /\ leds \in States
    /\ pc \in {"check", "lock", "copy", "apply", "render"}
    /\ copied \in 0..StateSize
    /\ tx \in {"idle", "data", "read"}
    /\ came_up \in BOOLEAN /\ received \in BOOLEAN

-----------------------------------------------------------------------------
\* init_pixels, and then main: rewrite_payload may erase the flag that
\* init_pixels has read.
Init ==
    /\ came_up \in BOOLEAN /\ received = came_up
    /\ i2c_configured \in {came_up, FALSE}
    /\ mem = Defaults[came_up] /\ image = mem
    /\ mem_address = 0 /\ cursor = 0
    /\ mem_address_written = FALSE /\ write = FALSE /\ update_ready = FALSE
    /\ i2c_state = StateOf(mem) /\ state = StateOf(mem) /\ leds = StateOf(mem)
    /\ pc = "check" /\ copied = 0 /\ irq = TRUE
    /\ tx = "idle"

\* Seeded fault: an address wider than a byte.
AdvanceWide(a) == a + 1

\* mem_address is a byte.
Advance(a) == (a + 1) % ByteSize

\* I2C_SLAVE_RECEIVE of the byte b.
StoreByte(b) ==
    IF ~mem_address_written
    THEN /\ mem_address' = b
         /\ mem_address_written' = TRUE
         /\ UNCHANGED <<mem, write>>
    ELSE /\ mem' = [mem EXCEPT ![mem_address] = b]
         /\ mem_address' = Advance(mem_address)
         /\ write' = TRUE
         /\ UNCHANGED mem_address_written

ReceiveAddress(a) ==
    /\ irq /\ tx = "idle"
    /\ StoreByte(a)
    /\ tx' = "data" /\ cursor' = a /\ image' = image
    /\ UNCHANGED <<update_ready, i2c_state, loop>>

ReceiveData(b) ==
    /\ irq /\ tx = "data"
    /\ StoreByte(b)
    /\ image' = [image EXCEPT ![cursor] = b]
    /\ cursor' = Advance(cursor) /\ tx' = tx
    /\ UNCHANGED <<update_ready, i2c_state, loop>>

\* I2C_SLAVE_REQUEST
Request ==
    /\ irq /\ tx \in {"idle", "read"}
    /\ mem_address' = Advance(mem_address)
    /\ write' = FALSE
    /\ tx' = "read" /\ cursor' = Advance(cursor)
    /\ UNCHANGED <<mem, mem_address_written, image, update_ready, i2c_state, loop>>

\* Seeded fault: the address of the next transaction is taken for data.
FinishKeepsAddress ==
    /\ irq /\ tx # "idle"
    /\ IF write
       THEN i2c_state' = StateOf(mem) /\ update_ready' = TRUE
       ELSE UNCHANGED <<i2c_state, update_ready>>
    /\ tx' = "idle"
    /\ UNCHANGED <<context, cursor, image, loop>>

\* I2C_SLAVE_FINISH, which publishes the state under the spin lock.
Finish ==
    /\ irq /\ tx # "idle"
    /\ mem_address_written' = FALSE
    /\ IF write
       THEN i2c_state' = StateOf(mem) /\ update_ready' = TRUE
       ELSE UNCHANGED <<i2c_state, update_ready>>
    /\ tx' = "idle"
    /\ UNCHANGED <<mem, mem_address, write, cursor, image, loop>>

-----------------------------------------------------------------------------
\* update_ready is read outside the lock.
Check ==
    /\ pc = "check"
    /\ pc' = IF update_ready THEN "lock" ELSE "render"
    /\ UNCHANGED <<context, update_ready, i2c_state, copied, irq, state, i2c_configured,
                   leds, history, master>>

\* Seeded fault: the lock leaves interrupts on.
LockUnmasked ==
    /\ pc = "lock"
    /\ update_ready' = FALSE
    /\ copied' = 0
    /\ pc' = "copy"
    /\ UNCHANGED <<context, i2c_state, irq, state, i2c_configured, leds, history,
                   master>>

\* spin_lock_blocking masks interrupts; the flag is cleared before the copy.
Lock ==
    /\ pc = "lock"
    /\ irq' = FALSE
    /\ update_ready' = FALSE
    /\ copied' = 0
    /\ pc' = "copy"
    /\ UNCHANGED <<context, i2c_state, state, i2c_configured, leds, history, master>>

\* _state = _i2c_state
CopyByte ==
    /\ pc = "copy" /\ copied < StateSize
    /\ state' = [state EXCEPT ![copied] = i2c_state[copied]]
    /\ copied' = copied + 1
    /\ UNCHANGED <<context, update_ready, i2c_state, pc, irq, i2c_configured, leds, history,
                   master>>

Unlock ==
    /\ pc = "copy" /\ copied = StateSize
    /\ irq' = TRUE
    /\ pc' = "apply"
    /\ UNCHANGED <<context, update_ready, i2c_state, copied, state, i2c_configured, leds,
                   history, master>>

\* Seeded faults: the flag is cleared once more; the flash is not written.
ApplyClearsFlag ==
    /\ pc = "apply"
    /\ state' = Clamp[state]
    /\ i2c_configured' = TRUE /\ received' = TRUE
    /\ update_ready' = FALSE
    /\ pc' = "render"
    /\ UNCHANGED <<context, i2c_state, copied, irq, leds, came_up, master>>
ApplyForgetsFlash ==
    /\ pc = "apply"
    /\ state' = Clamp[state]
    /\ received' = TRUE
    /\ pc' = "render"
    /\ UNCHANGED <<context, update_ready, i2c_state, copied, irq, i2c_configured, leds, came_up,
                   master>>

\* The limits of leds_mode, and set_i2c_configured.
Apply ==
    /\ pc = "apply"
    /\ state' = Clamp[state]
    /\ i2c_configured' = TRUE /\ received' = TRUE
    /\ pc' = "render"
    /\ UNCHANGED <<context, update_ready, i2c_state, copied, irq, leds, came_up, master>>

Render ==
    /\ pc = "render"
    /\ leds' = state
    /\ pc' = "check"
    /\ UNCHANGED <<context, update_ready, i2c_state, copied, irq, state, i2c_configured,
                   history, master>>

\* The controller starts again.  What it comes up with is chosen by the flag that
\* init_pixels reads; rewrite_payload, which main calls after it when the boot images
\* have to be written, erases the page the flag is in.
PowerLoss ==
    /\ came_up' = i2c_configured
    /\ i2c_configured' \in {i2c_configured, FALSE}
    /\ mem' = Defaults[came_up'] /\ image' = Defaults[came_up']
    /\ mem_address' = 0 /\ cursor' = 0
    /\ mem_address_written' = FALSE /\ write' = FALSE /\ update_ready' = FALSE
    /\ i2c_state' = StateOf(Defaults[came_up'])
    /\ state' = StateOf(Defaults[came_up'])
    /\ leds' = StateOf(Defaults[came_up'])
    /\ pc' = "check" /\ copied' = 0 /\ irq' = TRUE
    /\ tx' = "idle"
    /\ UNCHANGED received

-----------------------------------------------------------------------------
Main == Check \/ Lock \/ CopyByte \/ Unlock \/ Apply \/ Render

Master ==
    \/ \E a \in Byte : ReceiveAddress(a)
    \/ \E b \in Data : ReceiveData(b)
    \/ Request \/ Finish

Next == Main \/ Master \/ PowerLoss

Spec == Init /\ [][Next]_vars

(***************************************************************************)
(* Safety                                                                  *)
(***************************************************************************)

\* Every byte of a transaction goes to the address its first byte names, the
\* addresses counting up and round, whatever transactions came before it.
RegistersAsWritten == mem = image /\ mem_address = cursor

\* The strip never shows a mixture of two states, nor an older state after a
\* newer one, nor one that was not limited to its range.
Implements == Promise!Spec

\* A state of the master's is on the strip only when the flag says so in flash:
\* while it does not, the strip still shows what the controller came up with.  So
\* only writing the boot images again, never a loss of power, brings back the
\* default of a controller nobody has written to.
FlagBeforeShown == ~i2c_configured => leds = StateOf(Defaults[came_up])

\* No write is lost between the handler and the loop: when no flag is up, the loop
\* is at its start and no write is under way, the strip shows what the master has
\* written, or what the controller came up with, however the transactions and the
\* turns of the loop fell together.
NothingLost ==
    pc = "check" /\ ~update_ready /\ tx # "data" =>
        leds \in {StateOf(image), Clamp[StateOf(image)]}

(***************************************************************************)
(* Liveness.  The loop is never blocked: interrupts are short, and the     *)
(* loop is the only one to mask them.                                      *)
(***************************************************************************)
FairSpec == Spec /\ WF_vars(Main)

\* When the master has stopped and power stays, the strip shows what it wrote
\* last, or, if it has written nothing, what the controller came up with.
Quiet == ~(Master \/ PowerLoss)
EventuallyShown ==
    <>[][Quiet]_vars => <>[](leds \in {i2c_state, Clamp[i2c_state]})

(***************************************************************************)
(* What a comment says and the code does not.                              *)
(***************************************************************************)

\* "Once initial i2c received default to off", at every later start.
OffOnceReceived ==
    [][PowerLoss /\ received => leds' = StateOf(Defaults[TRUE])]_vars
=============================================================================
