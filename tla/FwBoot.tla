------------------------------- MODULE FwBoot -------------------------------
(***************************************************************************)
(* How the firmware of the LED controller starts, updates and rolls back:  *)
(* the boot loader (firmware/busk/main.c), the start of the firmware       *)
(* (firmware/usk/main.c), the update of the other slot                     *)
(* (update_firmware and fast_check of payload.c) and the counter of fuses  *)
(* in flash whose parity names the current slot (fuses.c).                 *)
(*                                                                         *)
(* Every write to flash or to the eMMC is a step, power may be lost        *)
(* between any two, and every way the firmware has of giving up ends in    *)
(* finish_with_code, which does not return.  The image in a slot decides   *)
(* how far the chip gets with it.  An image that starts runs this code.    *)
(***************************************************************************)
EXTENDS Integers

CONSTANTS
    Images,      \* firmware images, told apart by their CRC
    Valid,       \* those whose CRC is that of their data
    Starting,    \* those that stop the watchdog
    Glitching,   \* those that can start the console
    Torn,        \* what is no image: erased flash, or an image written in part
    ImageBlocks, \* blocks of an image
    MaxBlocks,   \* 0x1c0
    Sizes,       \* the block counts of the update commands
    FuseCap      \* 256 * 8

ASSUME ImagesAssumption ==
    Glitching \subseteq Starting /\ Starting \subseteq Valid /\ Valid \subseteq Images
ASSUME BlocksAssumption ==
    ImageBlocks \in Nat /\ MaxBlocks \in Nat /\ Sizes \subseteq Nat
\* "both 0 and 256*8 are even"
ASSUME FuseCapAssumption == FuseCap \in Nat /\ FuseCap > 0 /\ FuseCap % 2 = 0
ASSUME TornAssumption == Torn \notin Images

Contents == Images \cup {Torn}

\* What block 1 of the eMMC asks for: "none" is the boot configuration table.
Plain(kind) == [kind |-> kind, img |-> Torn, size |-> 0]
UpdateTo(i, n) == [kind |-> "update", img |-> i, size |-> n]
Orders == {UpdateTo(i, n) : i \in Images, n \in Sizes} \cup {Plain("rollback")}
Commands == Orders \cup {Plain("none"), Plain("reset")}

VARIABLES
    pc,       \* what the chip is doing
    cause,    \* of its last reset: "power", "flashing" or "watchdog"
    boot_try, \* scratch[0] of the watchdog
    boot_slot,\* scratch[1] of the watchdog
    ram,      \* the image that was copied to memory
    order,    \* the order update_firmware follows
    left,     \* the blocks it has still to write
    full_try, \* of the glitch
    slot,     \* the two firmware slots in flash
    fuses,    \* the fuses burnt, count_fuses()
    cmd,      \* block 1 of the eMMC
    asked,    \* history: an order was given since a fuse was burnt last
    decayed   \* history: a slot went bad by itself

flash == <<slot, fuses, decayed>>
update == <<order, left>>
boot == <<cause, boot_try, boot_slot, ram>>
vars == <<pc, boot, update, full_try, flash, cmd, asked>>

TypeOK ==
    /\ pc \in {"boot", "run", "check", "clear", "validate", "update", "rewrite",
               "glitch", "burn", "lit", "failed", "halt"}
    /\ cause \in {"power", "flashing", "watchdog"}
    /\ boot_try \in 0..3 /\ boot_slot \in 0..1
    /\ ram \in Contents
    /\ order \in Commands /\ left \in 0..MaxBlocks /\ full_try \in 0..1
    /\ slot \in [0..1 -> Contents]
    /\ fuses \in 0..FuseCap
    /\ cmd \in Commands
    /\ asked \in BOOLEAN /\ decayed \in BOOLEAN

-----------------------------------------------------------------------------
\* firmware.uf2 writes the boot loader, erased fuses and slot 0.
Init ==
    /\ pc = "boot"
    /\ cause \in {"power", "flashing"}
    /\ boot_try = 0 /\ boot_slot = 0 /\ ram = Torn
    /\ order = Plain("none") /\ left = 0 /\ full_try = 0
    /\ slot \in {[s \in 0..1 |-> IF s = 0 THEN i ELSE Torn] : i \in Glitching}
    /\ fuses = 0
    /\ cmd = Plain("none") /\ asked = FALSE /\ decayed = FALSE

Parity == fuses % 2

\* startup_from_slot: a slot of a wrong size or CRC restarts the chip.
Startup(s) ==
    /\ boot_slot' = s
    /\ IF slot[s] \in Valid
       THEN pc' = "run" /\ ram' = slot[s] /\ cause' = cause
       ELSE pc' = "boot" /\ ram' = Torn /\ cause' = "watchdog"

FirstBoot ==
    /\ pc = "boot" /\ cause # "watchdog"
    /\ boot_try' = 0
    /\ Startup(Parity)
    /\ UNCHANGED <<update, full_try, flash, cmd, asked>>

\* Seeded faults: the tries are not counted; the last but one is not made.
NextBootUncounted ==
    /\ pc = "boot" /\ cause = "watchdog" /\ boot_try # 3
    /\ boot_try' = boot_try
    /\ Startup((Parity + boot_try + 1) % 2)
    /\ UNCHANGED <<update, full_try, flash, cmd, asked>>
TriesExhaustedEarly ==
    /\ pc = "boot" /\ cause = "watchdog" /\ boot_try >= 1
    /\ pc' = "halt"
    /\ UNCHANGED <<boot, update, full_try, flash, cmd, asked>>

\* (boot_slot ^ boot_try ^ 1) & 1
NextBoot ==
    /\ pc = "boot" /\ cause = "watchdog" /\ boot_try # 3
    /\ boot_try' = boot_try + 1
    /\ Startup((Parity + boot_try + 1) % 2)
    /\ UNCHANGED <<update, full_try, flash, cmd, asked>>

\* halt()
TriesExhausted ==
    /\ pc = "boot" /\ cause = "watchdog" /\ boot_try = 3
    /\ pc' = "halt"
    /\ UNCHANGED <<boot, update, full_try, flash, cmd, asked>>

\* The image does not come to stop the watchdog, which bites in 100 ms.
WatchdogBites ==
    /\ pc = "run" /\ ram \notin Starting
    /\ pc' = "boot" /\ cause' = "watchdog"
    /\ UNCHANGED <<boot_try, boot_slot, ram, update, full_try, flash, cmd, asked>>

\* main up to fast_check; the very first start after flashing ends here.
Start ==
    /\ pc = "run" /\ ram \in Starting
    /\ pc' = IF cause # "power" /\ boot_try = 0 THEN "failed" ELSE "check"
    /\ full_try' = 0
    /\ UNCHANGED <<boot, update, flash, cmd, asked>>

\* finish_with_code, from a self test, the eMMC or a glitch that fails.
Fail ==
    /\ pc \in {"check", "glitch"}
    /\ pc' = "failed"
    /\ UNCHANGED <<boot, update, full_try, flash, cmd, asked>>

-----------------------------------------------------------------------------
(* fast_check and update_firmware *)

\* Seeded fault: the other slot follows an order as well.
FastCheckAnyTry ==
    /\ pc = "check"
    /\ IF cmd \in Orders
       THEN pc' = "clear" /\ order' = cmd
       ELSE pc' \in {"rewrite", "glitch"} /\ order' = order
    /\ UNCHANGED <<boot, left, full_try, flash, cmd, asked>>

\* Only a first boot follows an order.  main rewrites the payload when the
\* block that was read has no signature, or the configuration is another's.
FastCheck ==
    /\ pc = "check"
    /\ IF cmd \in Orders /\ boot_try = 0
       THEN pc' = "clear" /\ order' = cmd
       ELSE pc' \in {"rewrite", "glitch"} /\ order' = order
    /\ UNCHANGED <<boot, left, full_try, flash, cmd, asked>>

\* Seeded fault: the order stays in the block.
OrderStays ==
    /\ pc = "clear"
    /\ pc' = "validate"
    /\ UNCHANGED <<boot, update, full_try, flash, cmd, asked>>

\* The order is replaced before it is followed.
ClearOrder ==
    /\ pc = "clear"
    /\ cmd' = Plain("reset")
    /\ pc' = "validate"
    /\ UNCHANGED <<boot, update, full_try, flash, asked>>

\* write_data gives up, whether or not the block was written.
ClearFails ==
    /\ pc = "clear"
    /\ cmd' \in {cmd, Plain("reset")}
    /\ pc' = "failed"
    /\ UNCHANGED <<boot, update, full_try, flash, asked>>

\* An update that is too large, or to the image that runs, is refused; one of
\* no blocks, like a rollback, just starts the other slot.
Refused ==
    /\ order.kind = "update"
    /\ \/ order.size > MaxBlocks
       \/ order.size > 0 /\ order.img = slot[boot_slot]

Validate ==
    /\ pc = "validate"
    /\ IF Refused
       THEN pc' \in {"rewrite", "glitch"} /\ left' = left
       ELSE pc' = "update" /\ left' = order.size
    /\ UNCHANGED <<boot, order, full_try, flash, cmd, asked>>

\* Seeded faults: the slot that runs is written; a block too many is.
UpdateOwnSlot ==
    /\ pc = "update" /\ left > 0
    /\ slot' = [slot EXCEPT ![boot_slot] =
                   IF order.size - left + 1 >= ImageBlocks THEN order.img ELSE Torn]
    /\ left' = left - 1
    /\ UNCHANGED <<pc, boot, order, full_try, fuses, decayed, cmd, asked>>
UpdateBlockBeyond ==
    /\ pc = "update" /\ left >= 0
    /\ slot' = [slot EXCEPT ![1 - boot_slot] =
                   IF order.size - left + 1 >= ImageBlocks THEN order.img ELSE Torn]
    /\ left' = left - 1
    /\ UNCHANGED <<pc, boot, order, full_try, fuses, decayed, cmd, asked>>

\* One block of the other slot.  The first erases the header of what was there.
UpdateBlock ==
    /\ pc = "update" /\ left > 0
    /\ slot' = [slot EXCEPT ![1 - boot_slot] =
                   IF order.size - left + 1 >= ImageBlocks THEN order.img ELSE Torn]
    /\ left' = left - 1
    /\ UNCHANGED <<pc, boot, order, full_try, fuses, decayed, cmd, asked>>

\* A block of the eMMC cannot be read.
UpdateFails ==
    /\ pc = "update" /\ left > 0
    /\ pc' = "failed"
    /\ UNCHANGED <<boot, update, full_try, flash, cmd, asked>>

\* "go to the bootloader and load new firmware"
UpdateDone ==
    /\ pc = "update" /\ left = 0
    /\ pc' = "boot" /\ cause' = "watchdog"
    /\ UNCHANGED <<boot_try, boot_slot, ram, update, full_try, flash, cmd, asked>>

-----------------------------------------------------------------------------
(* The payload, the glitch and the fuse *)

\* rewrite_payload: write_payload writes the boot configuration table over block 1.
Rewrite ==
    /\ pc = "rewrite"
    /\ cmd' = Plain("none")
    /\ pc' = "glitch"
    /\ UNCHANGED <<boot, update, full_try, flash, asked>>

\* The eMMC fails, or this was the first write to it.
RewriteStops ==
    /\ pc = "rewrite"
    /\ cmd' \in {cmd, Plain("none")}
    /\ pc' = "failed"
    /\ UNCHANGED <<boot, update, full_try, flash, asked>>

\* All offsets fail: the first time, the payload is rewritten.
GlitchFails ==
    /\ pc = "glitch"
    /\ full_try' = 1
    /\ pc' = IF full_try = 0 THEN "rewrite" ELSE "failed"
    /\ UNCHANGED <<boot, update, flash, cmd, asked>>

Glitched ==
    /\ pc = "glitch" /\ ram \in Glitching
    /\ pc' = IF Parity # boot_slot THEN "burn" ELSE "lit"
    /\ UNCHANGED <<boot, update, full_try, flash, cmd, asked>>

\* burn_fuse: "finish update / rollback"
BurnFuse ==
    /\ pc = "burn" /\ fuses < FuseCap
    /\ fuses' = fuses + 1
    /\ asked' = FALSE
    /\ pc' = "lit"
    /\ UNCHANGED <<boot, update, full_try, slot, decayed, cmd>>

\* All are burnt: they are erased, and one is burnt.
EraseFuses ==
    /\ pc = "burn" /\ fuses = FuseCap
    /\ fuses' = 0
    /\ UNCHANGED <<pc, boot, update, full_try, slot, decayed, cmd, asked>>

-----------------------------------------------------------------------------
(* The console, and power *)

\* The console that was started writes block 1: an order, a chip reset, or,
\* with a system update, its own table.
Command(c) ==
    /\ pc = "lit"
    /\ cmd' = c
    /\ asked' = (asked \/ c \in Orders)
    /\ UNCHANGED <<pc, boot, update, full_try, flash>>

PowerLoss ==
    /\ pc' = "boot" /\ cause' = "power"
    /\ boot_try' = 0 /\ boot_slot' = 0 /\ ram' = Torn
    /\ order' = Plain("none") /\ left' = 0 /\ full_try' = 0
    /\ UNCHANGED <<flash, cmd, asked>>

\* A slot goes bad, which the chip sees when it starts.
Decay(s) ==
    /\ pc = "boot"
    /\ slot' = [slot EXCEPT ![s] = Torn]
    /\ decayed' = TRUE
    /\ UNCHANGED <<pc, boot, update, full_try, fuses, cmd, asked>>

-----------------------------------------------------------------------------
Chip ==
    \/ FirstBoot \/ NextBoot \/ TriesExhausted \/ WatchdogBites \/ Start \/ Fail
    \/ FastCheck \/ ClearOrder \/ ClearFails \/ Validate
    \/ UpdateBlock \/ UpdateFails \/ UpdateDone
    \/ Rewrite \/ RewriteStops \/ GlitchFails \/ Glitched \/ BurnFuse \/ EraseFuses

Next ==
    \/ Chip
    \/ \E c \in Commands : Command(c)
    \/ PowerLoss
    \/ \E s \in 0..1 : Decay(s)

Spec == Init /\ [][Next]_vars

(***************************************************************************)
(* Safety                                                                  *)
(***************************************************************************)

\* Wherever an update, a rollback or the change of fuses is cut off, the slot
\* the next power-on starts holds an image that starts the console, as long as
\* flash has kept what was written to it.
NeverBricked == ~decayed => slot[Parity] \in Glitching

\* "3- total fail": the chip gives up only when neither slot holds an image
\* that starts, whatever led to the tries.
HaltsOnlyWhenLost == pc = "halt" => \A s \in 0..1 : slot[s] \notin Starting

\* The current slot changes only after an order, and one order changes it once,
\* unless a slot went bad and the boot loader went over to the other.
SwitchAsked == [][fuses' % 2 # fuses % 2 => asked \/ decayed]_vars

(***************************************************************************)
(* What the parts promise together                                         *)
(***************************************************************************)

Promise == INSTANCE TwoSlots WITH
    current <- slot[Parity],
    other <- slot[1 - Parity],
    granted <- asked,
    worn <- decayed

\* Through every loss of power, boot try and restart, and through the change from
\* the last fuse to the first, the slots are a current image that is not written
\* and another that takes its place once for each order, after it has started the
\* console.
Implements == Promise!Spec

(***************************************************************************)
(* Progress                                                                *)
(***************************************************************************)

\* The tries of the boot loader, from power-on.
Try == IF pc = "boot" /\ cause # "watchdog" THEN 0 ELSE boot_try + 1

\* What is left of a try.
Left ==
    CASE pc = "run"      -> 11
      [] pc = "check"    -> 10
      [] pc = "clear"    -> 9
      [] pc = "validate" -> 8
      [] pc = "update"   -> 7
      [] pc = "rewrite"  -> IF full_try = 0 THEN 6 ELSE 4
      [] pc = "glitch"   -> IF full_try = 0 THEN 5 ELSE 3
      [] pc = "burn"     -> 2
      [] pc = "boot"     -> 1
      [] OTHER           -> 0

\* Nearer to the end: in the tries, else in one try, else in its update or in the
\* change from the last fuse to the first.
Nearer ==
    \/ Try' > Try
    \/ Try' = Try /\ Left' < Left
    \/ /\ Try' = Try /\ Left' = Left
       /\ \/ pc = "update" /\ left' < left
          \/ pc = "burn" /\ fuses' < fuses

\* Each step of the chip, the failing ones included, brings it nearer to the end of
\* its start, whichever slots, orders and restarts it goes through.
Progress == [][Chip => Nearer]_vars

(***************************************************************************)
(* Liveness.  Nothing but the loss of power stops the chip between two     *)
(* steps, and each of its loops is bounded.                                *)
(***************************************************************************)
FairSpec == Spec /\ WF_vars(Chip)

\* The chip does not restart for ever: with power, it comes to rest.
NoBootLoop ==
    <>[][~PowerLoss]_vars => <>[](pc \in {"lit", "failed", "halt"})
=============================================================================
