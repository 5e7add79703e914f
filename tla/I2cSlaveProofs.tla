--------------------------- MODULE I2cSlaveProofs ---------------------------
(***************************************************************************)
(* Proofs about I2cSlave, for every memory size, state size, set of data   *)
(* bytes, power-on memory and limits.                                      *)
(***************************************************************************)
EXTENDS I2cSlave, TLAPS

\* What makes the copy of _i2c_state atomic: the handler that would change it
\* is masked from the first byte to the last.
CopyMasked ==
    /\ irq <=> pc # "copy"
    /\ pc = "copy" => \A o \in Offsets : o < copied => state[o] = i2c_state[o]

\* The handler takes a byte for data exactly when the master has sent an address.
AddressAwaited == mem_address_written <=> tx = "data"

\* The state on the strip, and the one that goes there next, are what the
\* controller came up with until the flag is in flash.
Unconfigured ==
    ~i2c_configured =>
        /\ leds = StateOf(Defaults[came_up])
        /\ pc \notin {"copy", "apply"} => state = StateOf(Defaults[came_up])

IInv ==
    /\ TypeOK
    /\ CopyMasked
    /\ AddressAwaited
    /\ RegistersAsWritten
    /\ Unconfigured

-----------------------------------------------------------------------------
(* The operators. *)

\* The bytes of a state are bytes of the memory.
LEMMA StateOfType == ASSUME NEW m \in Promise!Memories PROVE StateOf(m) \in States
  BY SizesAssumption DEF StateOf, States, Promise!StateOf, Promise!States, Promise!Memories,
     Promise!Byte, Promise!Offsets

\* The address wraps inside the memory.
LEMMA AdvanceType == ASSUME NEW a \in Byte PROVE Advance(a) \in Byte
  BY SizesAssumption DEF Advance, Byte, Promise!Byte

\* Both counters can start at zero.
LEMMA Zeros == 0 \in Byte /\ 0 \in 0..StateSize
  BY SizesAssumption DEF Byte, Promise!Byte

LEMMA DefaultsType ==
    ASSUME NEW k \in BOOLEAN
    PROVE  Defaults[k] \in Promise!Memories /\ StateOf(Defaults[k]) \in States
  BY StateOfType, DefaultsAssumption

\* A state all of whose bytes have been copied is the state it was copied from.
LEMMA CopiedWhole ==
    ASSUME NEW s \in States, NEW t \in States, \A o \in Offsets : s[o] = t[o]
    PROVE  s = t
  BY DEF States, Promise!States, Offsets

-----------------------------------------------------------------------------
(* The inductive invariant. *)

LEMMA InitInv == Init => IInv
<1> SUFFICES ASSUME Init PROVE IInv
  OBVIOUS
<1> DEFINE D == Defaults[came_up]
<1>1. D \in Promise!Memories /\ StateOf(D) \in States
  BY DefaultsType DEF Init
<1>3. TypeOK
  BY <1>1, Zeros DEF Init, TypeOK
<1>4. CopyMasked /\ AddressAwaited /\ RegistersAsWritten
  BY DEF Init, CopyMasked, AddressAwaited, RegistersAsWritten
<1>5. Unconfigured
  BY DEF Init, Unconfigured
<1>6. QED
  BY <1>3, <1>4, <1>5 DEF IInv

LEMMA StepInv == IInv /\ [Next]_vars => IInv'
<1> SUFFICES ASSUME IInv, [Next]_vars PROVE IInv'
  OBVIOUS
<1> USE DEF IInv
<1>1. ASSUME NEW a \in Byte, ReceiveAddress(a) PROVE IInv'
  <2>1. mem_address' = a /\ cursor' = a /\ mem_address_written' /\ mem_address_written' \in BOOLEAN
        /\ mem' = mem /\ image' = image /\ write' = write /\ tx' = "data"
    BY <1>1 DEF ReceiveAddress, StoreByte, AddressAwaited
  <2>2. UNCHANGED <<update_ready, i2c_state, loop>>
    BY <1>1 DEF ReceiveAddress
  <2>3. TypeOK'
    BY <2>1, <2>2 DEF TypeOK, loop, history
  <2>4. QED
    BY <2>1, <2>2, <2>3 DEF loop, history, CopyMasked, AddressAwaited, RegistersAsWritten, Unconfigured
<1>2. ASSUME NEW b \in Data, ReceiveData(b) PROVE IInv'
  <2>1. /\ mem' = [mem EXCEPT ![mem_address] = b] /\ mem_address' = Advance(mem_address)
        /\ write' = TRUE /\ mem_address_written' = mem_address_written /\ tx' = tx
        /\ image' = [image EXCEPT ![cursor] = b] /\ cursor' = Advance(cursor)
    BY <1>2 DEF ReceiveData, StoreByte, AddressAwaited
  <2>2. UNCHANGED <<update_ready, i2c_state, loop>>
    BY <1>2 DEF ReceiveData
  <2>3. mem' \in Promise!Memories /\ image' \in Promise!Memories
    BY <2>1, DataAssumption DEF TypeOK, Promise!Memories, Byte
  <2>4. TypeOK'
    BY <2>1, <2>2, <2>3, AdvanceType DEF TypeOK, loop, history
  <2>5. QED
    BY <2>1, <2>2, <2>4 DEF loop, history, CopyMasked, AddressAwaited, RegistersAsWritten, Unconfigured
<1>3. CASE Request
  <2>1. TypeOK'
    BY <1>3, AdvanceType DEF Request, TypeOK, loop, history
  <2>2. QED
    BY <1>3, <2>1
    DEF Request, loop, history, CopyMasked, AddressAwaited, RegistersAsWritten, Unconfigured
<1>4. CASE Finish
  <2>1. TypeOK'
    BY <1>4, StateOfType DEF Finish, TypeOK, loop, history
  <2>2. CopyMasked'
    BY <1>4 DEF Finish, loop, CopyMasked
  <2>3. QED
    BY <1>4, <2>1, <2>2 DEF Finish, loop, history, AddressAwaited, RegistersAsWritten, Unconfigured
<1>5. CASE Check
  <2>1. TypeOK'
    BY <1>5 DEF Check, TypeOK, context, master, history
  <2>2. QED
    BY <1>5, <2>1
    DEF Check, context, master, history, CopyMasked, AddressAwaited, RegistersAsWritten, Unconfigured
<1>6. CASE Lock
  <2>1. TypeOK'
    BY <1>6, Zeros DEF Lock, TypeOK, context, master, history
  <2>2. CopyMasked'
    BY <1>6, SizesAssumption DEF Lock, CopyMasked, Offsets, Promise!Offsets
  <2>3. QED
    BY <1>6, <2>1, <2>2
    DEF Lock, context, master, history, AddressAwaited, RegistersAsWritten, Unconfigured
<1>7. CASE CopyByte
  <2>1. copied \in Offsets /\ copied + 1 \in 0..StateSize
    BY <1>7, SizesAssumption DEF CopyByte, TypeOK, Offsets, Promise!Offsets
  <2>2. state' \in States
    BY <1>7, <2>1 DEF CopyByte, TypeOK, States, Promise!States, Offsets
  <2>3. TypeOK'
    BY <1>7, <2>1, <2>2 DEF CopyByte, TypeOK, context, master, history
  <2>4. ASSUME NEW o \in Offsets, o < copied + 1 PROVE state'[o] = i2c_state[o]
    <3>1. o = copied \/ o < copied
      BY <2>1, <2>4, SizesAssumption DEF Offsets, Promise!Offsets
    <3>2. QED
      BY <1>7, <2>1, <3>1
      DEF CopyByte, CopyMasked, TypeOK, States, Promise!States, Offsets
  <2>5. CopyMasked'
    BY <1>7, <2>4 DEF CopyByte, CopyMasked
  <2>6. QED
    BY <1>7, <2>3, <2>5
    DEF CopyByte, context, master, history, AddressAwaited, RegistersAsWritten, Unconfigured
<1>8. CASE Unlock
  <2>1. TypeOK'
    BY <1>8 DEF Unlock, TypeOK, context, master, history
  <2>2. QED
    BY <1>8, <2>1
    DEF Unlock, context, master, history, CopyMasked, AddressAwaited, RegistersAsWritten, Unconfigured
<1>9. CASE Apply
  <2>1. TypeOK'
    BY <1>9, ClampAssumption DEF Apply, TypeOK, context, master, history
  <2>2. QED
    BY <1>9, <2>1
    DEF Apply, context, master, history, CopyMasked, AddressAwaited, RegistersAsWritten, Unconfigured
<1>10. CASE Render
  <2>1. TypeOK'
    BY <1>10 DEF Render, TypeOK, context, master, history
  <2>2. QED
    BY <1>10, <2>1
    DEF Render, context, master, history, CopyMasked, AddressAwaited, RegistersAsWritten, Unconfigured
<1>11. CASE PowerLoss
  <2>1. i2c_configured \in BOOLEAN /\ (~i2c_configured => i2c_configured = FALSE)
    BY DEF TypeOK
  <2>3. TypeOK'
    BY <1>11, <2>1, DefaultsType, Zeros DEF PowerLoss, TypeOK
  <2>4. CopyMasked' /\ AddressAwaited' /\ RegistersAsWritten'
    BY <1>11 DEF PowerLoss, CopyMasked, AddressAwaited, RegistersAsWritten
  <2>5. Unconfigured'
    BY <1>11, <2>1 DEF PowerLoss, Unconfigured
  <2>6. QED
    BY <2>3, <2>4, <2>5
<1>12. CASE UNCHANGED vars
  BY <1>12 DEF vars, context, loop, history, master, TypeOK, CopyMasked, AddressAwaited,
     RegistersAsWritten, Unconfigured
<1>13. QED
  BY <1>1, <1>2, <1>3, <1>4, <1>5, <1>6, <1>7, <1>8, <1>9, <1>10, <1>11, <1>12
  DEF Next, Main, Master

THEOREM Invariance == Spec => []IInv
  BY InitInv, StepInv, PTL DEF Spec

\* Every variable of the controller keeps its type; the address stays a byte.
THEOREM TypeCorrect == Spec => []TypeOK
<1>1. IInv => TypeOK
  BY DEF IInv
<1>2. QED
  BY <1>1, Invariance, PTL

\* Every byte the master writes goes where its transaction says.
THEOREM WritesLand == Spec => []RegistersAsWritten
<1>1. IInv => RegistersAsWritten
  BY DEF IInv
<1>2. QED
  BY <1>1, Invariance, PTL

\* No state of the master's is on the strip before the flag is in flash, whatever
\* the starts between wrote to the flash.
THEOREM FlagFirst == Spec => []FlagBeforeShown
<1>1. IInv => FlagBeforeShown
  BY DEF IInv, Unconfigured, FlagBeforeShown
<1>2. QED
  BY <1>1, Invariance, PTL

-----------------------------------------------------------------------------
(***************************************************************************)
(* The controller implements RgbRegisters.  The interrupt that ends a      *)
(* write is EndTransaction, taking the lock is Take, for _i2c_state cannot *)
(* change before it is copied, and update_pixels is Show.                  *)
(***************************************************************************)

\* What RgbRegisters calls next, in the three phases of the loop.
NextState ==
    IF pc = "copy" THEN Clamp[i2c_state]
    ELSE IF pc = "apply" THEN Clamp[state]
    ELSE state

LEMMA InitRefines == Init => Promise!Init
<1> SUFFICES ASSUME Init PROVE Promise!Boot(came_up)
  BY DEF Init, Promise!Init
<1>1. QED
  BY DEF Init, Promise!Boot, StateOf

LEMMA StepRefines == IInv /\ [Next]_vars => [Promise!Next]_(Promise!vars)
<1> SUFFICES ASSUME IInv, [Next]_vars
             PROVE  \/ Promise!Write \/ Promise!EndTransaction \/ Promise!Take
                    \/ Promise!Show \/ Promise!Restart
                    \/ UNCHANGED <<mem, i2c_state, NextState, leds>>
  BY DEF Promise!Next, Promise!vars, NextState
<1>1. ASSUME NEW a \in Byte, ReceiveAddress(a)
      PROVE  UNCHANGED <<mem, i2c_state, NextState, leds>>
  BY <1>1 DEF ReceiveAddress, StoreByte, IInv, AddressAwaited, loop, NextState
<1>2. ASSUME NEW b \in Data, ReceiveData(b) PROVE Promise!Write
  <2>1. mem' = [mem EXCEPT ![mem_address] = b] /\ UNCHANGED <<i2c_state, NextState, leds>>
    BY <1>2 DEF ReceiveData, StoreByte, IInv, AddressAwaited, loop, NextState
  <2>2. mem_address \in Promise!Byte /\ b \in Promise!Byte
    BY DataAssumption DEF IInv, TypeOK, Byte
  <2>3. QED
    BY <2>1, <2>2 DEF Promise!Write, NextState
<1>3. CASE Request
  BY <1>3 DEF Request, loop, NextState
<1>4. CASE Finish
  <2>1. pc # "copy"
    BY <1>4 DEF Finish, IInv, CopyMasked
  <2>2. UNCHANGED <<mem, NextState, leds>>
    BY <1>4, <2>1 DEF Finish, loop, NextState
  <2>3. CASE write
    BY <1>4, <2>2, <2>3 DEF Finish, Promise!EndTransaction, StateOf, NextState
  <2>4. CASE ~write
    BY <1>4, <2>2, <2>4 DEF Finish
  <2>5. QED
    BY <2>3, <2>4
<1>5. CASE Check
  BY <1>5 DEF Check, context, NextState
<1>6. CASE Lock
  BY <1>6 DEF Lock, context, Promise!Take
<1>7. CASE CopyByte
  BY <1>7 DEF CopyByte, context, NextState
<1>8. CASE Unlock
  <2>1. \A o \in Offsets : state[o] = i2c_state[o]
    BY <1>8, SizesAssumption DEF Unlock, IInv, CopyMasked, Offsets, Promise!Offsets
  <2>2. state = i2c_state
    BY <2>1, CopiedWhole DEF IInv, TypeOK
  <2>3. QED
    BY <1>8, <2>2 DEF Unlock, context, NextState
<1>9. CASE Apply
  BY <1>9 DEF Apply, context, NextState
<1>10. CASE Render
  BY <1>10 DEF Render, context, Promise!Show
<1>11. CASE PowerLoss
  <2>1. i2c_configured \in BOOLEAN
    BY DEF IInv, TypeOK
  <2>2. QED
    BY <1>11, <2>1 DEF PowerLoss, Promise!Restart, StateOf
<1>12. CASE UNCHANGED vars
  BY <1>12 DEF vars, context, loop, NextState
<1>13. QED
  BY <1>1, <1>2, <1>3, <1>4, <1>5, <1>6, <1>7, <1>8, <1>9, <1>10, <1>11, <1>12
  DEF Next, Main, Master

\* The strip shows whole states, limited, in order.
THEOREM Refinement == Spec => Implements
<1>1. QED
  BY InitRefines, StepRefines, Invariance, PTL DEF Spec, Implements, Promise!Spec

-----------------------------------------------------------------------------
(***************************************************************************)
(* No write is lost.  What is handed over: the handler's copy is the       *)
(* memory except while a write is under way, and where the loop is, with   *)
(* no flag up, it has the handler's copy already.                          *)
(***************************************************************************)

Taken(s) == s \in {i2c_state, Clamp[i2c_state]}

Published == tx # "data" \/ ~write => i2c_state = StateOf(mem)

HandedOver ==
    /\ Published
    /\ pc = "lock" => update_ready
    /\ pc = "check" => leds = state
    /\ ~update_ready /\ pc \in {"check", "render"} => Taken(state)
    /\ ~update_ready /\ pc = "apply" => state = i2c_state

LEMMA InitHandedOver == Init => HandedOver
BY DEF Init, HandedOver, Published, Taken

\* The bytes of a transaction are not published before its end.
LEMMA MasterHandsOver ==
    ASSUME IInv, HandedOver, Master
    PROVE  HandedOver'
<1> USE DEF HandedOver, Published, Taken, loop
<1>1. ASSUME NEW a \in Byte, ReceiveAddress(a) PROVE HandedOver'
  <2>1. UNCHANGED <<mem, write, update_ready, i2c_state, loop>> /\ tx = "idle"
    BY <1>1 DEF ReceiveAddress, StoreByte, IInv, AddressAwaited
  <2> QED
    BY <2>1
<1>2. ASSUME NEW b \in Data, ReceiveData(b) PROVE HandedOver'
  <2>1. UNCHANGED <<update_ready, i2c_state, loop>> /\ tx' = "data" /\ write'
    BY <1>2 DEF ReceiveData, StoreByte, IInv, AddressAwaited
  <2> QED
    BY <2>1
<1>3. CASE Request
  BY <1>3 DEF Request
<1>4. CASE Finish
  <2>1. UNCHANGED <<mem, write, loop>> /\ tx' = "idle" /\ pc # "copy"
    BY <1>4 DEF Finish, IInv, CopyMasked
  <2>2. CASE write
    <3>1. i2c_state' = StateOf(mem) /\ update_ready'
      BY <1>4, <2>2 DEF Finish
    <3>2. StateOf(mem)' = StateOf(mem)
      BY <2>1
    <3> QED
      BY <2>1, <3>1, <3>2
  <2>3. CASE ~write
    <3>1. UNCHANGED <<i2c_state, update_ready>>
      BY <1>4, <2>3 DEF Finish
    <3> QED
      BY <2>1, <2>3, <3>1
  <2> QED
    BY <2>2, <2>3
<1> QED
  BY <1>1, <1>2, <1>3, <1>4 DEF Master

\* The loop clears the flag only where it takes the copy that the flag stood for.
LEMMA MainHandsOver ==
    ASSUME IInv, HandedOver, Main
    PROVE  HandedOver'
<1> USE DEF HandedOver, Taken, context, master
<1>0. UNCHANGED <<mem, write, i2c_state, tx>>
  BY DEF Main, Check, Lock, CopyByte, Unlock, Apply, Render
<1>1. Published'
  BY <1>0 DEF Published
<1>2. CASE Check
  BY <1>0, <1>1, <1>2 DEF Check
<1>3. CASE Lock
  BY <1>0, <1>1, <1>3 DEF Lock
<1>4. CASE CopyByte
  BY <1>0, <1>1, <1>4 DEF CopyByte
<1>5. CASE Unlock
  <2>1. state = i2c_state
    <3>1. \A o \in Offsets : o < copied
      BY <1>5, SizesAssumption DEF Unlock, Offsets, Promise!Offsets
    <3>2. \A o \in Offsets : state[o] = i2c_state[o]
      BY <1>5, <3>1 DEF Unlock, IInv, CopyMasked
    <3> QED
      BY <3>2, CopiedWhole DEF IInv, TypeOK
  <2> QED
    BY <1>0, <1>1, <1>5, <2>1 DEF Unlock
<1>6. CASE Apply
  BY <1>0, <1>1, <1>6 DEF Apply
<1>7. CASE Render
  BY <1>0, <1>1, <1>7 DEF Render
<1> QED
  BY <1>2, <1>3, <1>4, <1>5, <1>6, <1>7 DEF Main

LEMMA HandedOverStep == IInv /\ HandedOver /\ [Next]_vars => HandedOver'
<1> SUFFICES ASSUME IInv, HandedOver, [Next]_vars PROVE HandedOver'
  OBVIOUS
<1>1. CASE PowerLoss
  BY <1>1 DEF PowerLoss, HandedOver, Published, Taken
<1>2. CASE UNCHANGED vars
  BY <1>2 DEF vars, context, loop, master, HandedOver, Published, Taken
<1> QED
  BY <1>1, <1>2, MasterHandsOver, MainHandsOver DEF Next

\* A write that ended is on the strip or still flagged, however often the handler
\* interrupts the loop (i2c_slave_handler, leds_mode).
THEOREM NoneLost == Spec => []NothingLost
<1>1. IInv /\ HandedOver => NothingLost
  BY DEF IInv, RegistersAsWritten, HandedOver, Published, Taken, NothingLost
<1> QED
  BY <1>1, InitHandedOver, HandedOverStep, Invariance, PTL DEF Spec
=============================================================================
