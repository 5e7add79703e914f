---------------------------- MODULE RgbRegisters ----------------------------
(***************************************************************************)
(* What the LED controller of the firmware promises an I2C master,         *)
(* whatever its interrupt handler and its main loop do to one another: a   *)
(* memory that is written byte by byte, whose first StateSize bytes are    *)
(* taken as a whole when a transaction ends, and a strip that shows whole  *)
(* states, limited to their ranges, in the order they were written.  A     *)
(* state may be skipped when a later one overtakes it.                     *)
(***************************************************************************)
EXTENDS Integers

CONSTANTS
    ByteSize,   \* 256: the values of a byte, and the bytes of the memory
    StateSize,  \* sizeof(RgbState)
    Defaults,   \* the memory at power on, by the i2c-configured flag
    Clamp       \* the limits leds_mode puts on a state it takes

Byte == 0..(ByteSize - 1)
Offsets == 0..(StateSize - 1)
Memories == [Byte -> Byte]
States == [Offsets -> Byte]

\* i2c_context.reg.state
StateOf(m) == [o \in Offsets |-> m[o]]

VARIABLES
    mem,     \* the memory
    latest,  \* the state of the transaction that ended last
    next,    \* the state that is shown next
    shown    \* the state the strip shows

vars == <<mem, latest, next, shown>>

Boot(configured) ==
    /\ mem = Defaults[configured]
    /\ latest = StateOf(Defaults[configured])
    /\ next = StateOf(Defaults[configured])
    /\ shown = StateOf(Defaults[configured])

Init == \E configured \in BOOLEAN : Boot(configured)

Write ==
    /\ \E a, b \in Byte : mem' = [mem EXCEPT ![a] = b]
    /\ UNCHANGED <<latest, next, shown>>

EndTransaction ==
    /\ latest' = StateOf(mem)
    /\ UNCHANGED <<mem, next, shown>>

Take ==
    /\ next' = Clamp[latest]
    /\ UNCHANGED <<mem, latest, shown>>

Show ==
    /\ shown' = next
    /\ UNCHANGED <<mem, latest, next>>

Restart ==
    \E configured \in BOOLEAN :
        /\ mem' = Defaults[configured]
        /\ latest' = StateOf(Defaults[configured])
        /\ next' = StateOf(Defaults[configured])
        /\ shown' = StateOf(Defaults[configured])

Next == Write \/ EndTransaction \/ Take \/ Show \/ Restart

Spec == Init /\ [][Next]_vars
=============================================================================
