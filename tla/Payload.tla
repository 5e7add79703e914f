------------------------------ MODULE Payload -------------------------------
(***************************************************************************)
(* What the firmware of the LED controller writes to the eMMC, block by    *)
(* block (firmware/usk/payload.c): write_payload copies the console's boot *)
(* configuration tables to a backup, unless they are its own already, and  *)
(* writes its payload, its tables and a descriptor; update_firmware        *)
(* replaces an order in block 1 of the first table.                        *)
(*                                                                         *)
(* A command to the card may fail with or without effect, a read may fail  *)
(* and leave the buffer half filled, and power may be lost between any two *)
(* commands.  write_data and copy_bct try every block six times.  Both are *)
(* one loop here: for write_data, was_read is its copy_done and was_write  *)
(* its write_done.  The content of a block is whose it is.                 *)
(***************************************************************************)
EXTENDS Integers

CONSTANT Size    \* the blocks of each area

\* The areas, in the order write_payload writes them, and 0 for the order.
Order == 0
Backups == {1, 2}
PayloadArea == 3
Tables == {4, 5}
Descriptor == 6
Areas == 1..6
Addresses == UNION {{area} \X (0..(Size[area] - 1)) : area \in Areas}

ASSUME SizeAssumption ==
    /\ Size \in [Areas -> Nat \ {0}]
    /\ Size[4] = Size[1] /\ Size[5] = Size[2] /\ Size[4] > 1

\* Block 1, with the signature that tells whose the first table is.
Block1 == <<4, 1>>

Commands == {"update", "reset"}
Contents == {"console", "old", "blank", "ours", "junk"} \cup Commands

VARIABLES
    card,       \* the blocks of the eMMC
    configured, \* is_configured(): the flag in flash that init_config sets
    pc,         \* what the chip is doing
    full_try,   \* the round of the glitch
    is_space_bl, is_command, was_self_reset,
    stage,      \* the area that is written, or Order
    block,      \* the block of it
    attempt,    \* the counter of the loop over the tries
    was_read, was_write,
    data_buf, temp_buf,
    spoilt      \* history: a table that is not the console's was copied to
                \* its backup in one of the two ways of Hole

flags == <<is_space_bl, is_command, was_self_reset>>
try == <<attempt, was_read, was_write>>
buffers == <<data_buf, temp_buf>>
place == <<stage, block>>
vars == <<card, configured, pc, full_try, flags, place, try, buffers, spoilt>>

TypeOK ==
    /\ card \in [Addresses -> Contents]
    /\ pc \in {"boot", "decide", "pass", "erase", "program", "glitch", "lit", "stopped"}
    /\ full_try \in 0..1 /\ attempt \in 0..5
    /\ stage \in Areas \cup {Order}
    /\ block \in Nat /\ (stage # Order => <<stage, block>> \in Addresses)
    /\ data_buf \in Contents /\ temp_buf \in Contents
    /\ configured \in BOOLEAN /\ spoilt \in BOOLEAN
    /\ is_space_bl \in BOOLEAN /\ is_command \in BOOLEAN /\ was_self_reset \in BOOLEAN
    /\ was_read \in BOOLEAN /\ was_write \in BOOLEAN

-----------------------------------------------------------------------------
Init ==
    /\ card = [a \in Addresses |-> IF a[1] \in Tables THEN "console" ELSE "blank"]
    /\ configured = FALSE
    /\ pc = "boot" /\ full_try = 0
    /\ is_space_bl = FALSE /\ is_command = FALSE /\ was_self_reset = FALSE
    /\ stage = Order /\ block = 0
    /\ attempt = 0 /\ was_read = FALSE /\ was_write = FALSE
    /\ data_buf = "blank" /\ temp_buf = "blank"
    /\ spoilt = FALSE

\* The first block of an area, its first try.
Begin(area) ==
    /\ stage' = area /\ block' = 0
    /\ attempt' = 0 /\ was_read' = FALSE /\ was_write' = FALSE

\* fast_check, and the flags main sets: the button asks for a rewrite too.  An
\* update is followed at the first boot only.
FastCheck ==
    /\ pc = "boot"
    /\ is_space_bl' = (card[Block1] = "ours")
    /\ is_command' = (card[Block1] \in Commands)
    /\ was_self_reset' \in {~configured, TRUE}
    /\ full_try' = 0
    /\ \/ pc' = "decide" /\ UNCHANGED <<place, try>>
       \/ card[Block1] = "update" /\ pc' = "pass" /\ Begin(Order)
    /\ data_buf' = card[Block1]
    /\ UNCHANGED <<card, configured, temp_buf, spoilt>>

\* reinit_mmc, or a read of block 1, fails for good.
Stop ==
    /\ pc \in {"boot", "decide", "glitch"}
    /\ pc' = "stopped"
    /\ UNCHANGED <<card, configured, full_try, flags, place, try, buffers, spoilt>>

\* The table is not the console's and is copied all the same: by the rewrite
\* after a glitch that failed, for is_space_bl is that of fast_check; or since a
\* pass was cut off between the first block of the table and its signature.
Hole ==
    /\ \E a \in Addresses : a[1] \in Tables /\ card[a] # "console"
    /\ full_try = 1 \/ card[Block1] \notin {"ours"} \cup Commands

\* Seeded fault: an order in block 1 is taken for the console's table.
WritePayloadCopiesOrder ==
    /\ IF ~is_space_bl
       THEN Begin(1) /\ spoilt' = (spoilt \/ Hole)
       ELSE Begin(PayloadArea) /\ spoilt' = spoilt
    /\ pc' = "pass"

\* write_payload: the copies only of a table that is not its own.
WritePayload ==
    /\ IF ~is_space_bl /\ ~is_command
       THEN Begin(1) /\ spoilt' = (spoilt \/ Hole)
       ELSE Begin(PayloadArea) /\ spoilt' = spoilt
    /\ pc' = "pass"

\* main: "perform payload rewrite if required", and after a round that failed.
Decide ==
    /\ pc = "decide"
    /\ IF ~is_space_bl \/ was_self_reset \/ full_try = 1
       THEN WritePayload
       ELSE pc' = "glitch" /\ UNCHANGED <<place, try, spoilt>>
    /\ UNCHANGED <<card, configured, full_try, flags, buffers>>

-----------------------------------------------------------------------------
(* write_data and copy_bct *)

Copying == stage \in Backups
Source == <<stage + 3, block>>
Dest == IF stage = Order THEN Block1 ELSE <<stage, block>>
Wanted == IF Copying THEN temp_buf ELSE IF stage = Order THEN "reset" ELSE "ours"

\* Seeded fault: the tries are not counted after reinit_mmc.
AgainForEver(read, write) ==
    /\ attempt' = IF attempt < 3 THEN attempt + 1 ELSE attempt
    /\ was_read' = read /\ was_write' = write /\ pc' = pc

\* The next try, the fourth after reinit_mmc, which may fail for good.
Again(read, write) ==
    \/ /\ attempt \notin {2, 5}
       /\ attempt' = attempt + 1 /\ was_read' = read /\ was_write' = write /\ pc' = pc
    \/ /\ attempt = 2
       /\ attempt' = 3 /\ was_read' = (read /\ ~Copying) /\ was_write' = FALSE /\ pc' = pc
    \/ /\ attempt \in {2, 5}
       /\ pc' = "stopped" /\ UNCHANGED try

\* cmd_mmc_read fails: the buffer holds what it held, or a part of the block.
ReadFails == data_buf' \in {data_buf, "junk"}

ReadSource ==
    /\ pc = "pass" /\ Copying /\ ~was_read
    /\ \/ /\ data_buf' = card[Source] /\ temp_buf' = card[Source]
          /\ was_read' = TRUE /\ UNCHANGED <<pc, attempt, was_write>>
       \/ ReadFails /\ temp_buf' = temp_buf /\ Again(FALSE, was_write)
    /\ UNCHANGED <<card, configured, full_try, flags, place, spoilt>>

Fill ==
    /\ pc = "pass" /\ ~Copying /\ ~was_read
    /\ data_buf' = Wanted
    /\ was_read' = TRUE
    /\ UNCHANGED <<card, configured, pc, full_try, flags, place, attempt, was_write,
                   temp_buf, spoilt>>

\* cmd_mmc_write sends data_buf; whether the card took it, it does not say.
WriteBlock ==
    /\ pc = "pass" /\ was_read /\ ~was_write
    /\ card' \in {card, [card EXCEPT ![Dest] = data_buf]}
    /\ \/ was_write' = TRUE /\ UNCHANGED <<pc, attempt, was_read>>
       \/ Again(TRUE, FALSE)
    /\ UNCHANGED <<configured, full_try, flags, place, buffers, spoilt>>

\* Seeded fault: one block too many of each area.
NextBlockBeyond ==
    \/ stage = Order /\ pc' \in {"boot", "decide"} /\ UNCHANGED <<place, try>>
    \/ /\ stage # Order
       /\ stage' = stage /\ block' = block + 1
       /\ attempt' = 0 /\ was_read' = FALSE /\ was_write' = FALSE
       /\ pc' = pc

\* A block is done: an order is followed by a restart, or was refused; after
\* the descriptor the first write ends, and any other goes on to init_config.
NextBlock ==
    \/ stage = Order /\ pc' \in {"boot", "decide"} /\ UNCHANGED <<place, try>>
    \/ /\ stage # Order /\ block + 1 < Size[stage]
       /\ stage' = stage /\ block' = block + 1
       /\ attempt' = 0 /\ was_read' = FALSE /\ was_write' = FALSE
       /\ pc' = pc
    \/ /\ stage \in 1..5 /\ block + 1 = Size[stage]
       /\ Begin(stage + 1)
       /\ pc' = pc
    \/ /\ stage = Descriptor /\ block + 1 = Size[stage]
       /\ pc' = IF ~is_space_bl /\ ~is_command /\ ~was_self_reset THEN "stopped"
                ELSE "erase"
       /\ UNCHANGED <<place, try>>

\* Seeded fault: a block that can be read back is taken for written.
ReadBackUnchecked ==
    /\ pc = "pass" /\ was_read /\ was_write
    /\ \/ data_buf' = card[Dest] /\ NextBlock
       \/ ReadFails /\ Again(TRUE, TRUE) /\ UNCHANGED place
    /\ UNCHANGED <<card, configured, full_try, flags, temp_buf, spoilt>>

ReadBack ==
    /\ pc = "pass" /\ was_read /\ was_write
    /\ \/ data_buf' = card[Dest] /\ card[Dest] = Wanted /\ NextBlock
       \/ /\ data_buf' = card[Dest] /\ card[Dest] # Wanted
          /\ Again(~Copying, FALSE) /\ UNCHANGED place
       \/ ReadFails /\ Again(TRUE, TRUE) /\ UNCHANGED place
    /\ UNCHANGED <<card, configured, full_try, flags, temp_buf, spoilt>>

-----------------------------------------------------------------------------
\* init_config
EraseConfig ==
    /\ pc = "erase"
    /\ configured' = FALSE
    /\ pc' = "program"
    /\ UNCHANGED <<card, full_try, flags, place, try, buffers, spoilt>>

ProgramConfig ==
    /\ pc = "program"
    /\ configured' = TRUE
    /\ pc' = "glitch"
    /\ UNCHANGED <<card, full_try, flags, place, try, buffers, spoilt>>

Glitched ==
    /\ pc = "glitch"
    /\ pc' = "lit"
    /\ UNCHANGED <<card, configured, full_try, flags, place, try, buffers, spoilt>>

\* The first time all offsets fail, the payload is rewritten.
GlitchFails ==
    /\ pc = "glitch" /\ full_try = 0
    /\ full_try' = 1
    /\ pc' = "decide"
    /\ UNCHANGED <<card, configured, flags, place, try, buffers, spoilt>>
-----------------------------------------------------------------------------
(* The console, and power *)

\* The console gets a system update, which writes tables of its own.
SystemUpdate ==
    /\ pc = "lit"
    /\ card' = [a \in Addresses |->
                  IF a[1] \in Tables THEN "console"
                  ELSE IF a[1] \in Backups /\ card[a] = "console" THEN "old"
                  ELSE card[a]]
    /\ spoilt' = FALSE
    /\ UNCHANGED <<configured, pc, full_try, flags, place, try, buffers>>

\* The payload, which only a table of the firmware's starts, gives an order.
GiveOrder(c) ==
    /\ pc = "lit" /\ card[Block1] \in {"ours"} \cup Commands
    /\ card' = [card EXCEPT ![Block1] = c]
    /\ UNCHANGED <<configured, pc, full_try, flags, place, try, buffers, spoilt>>

PowerLoss ==
    /\ pc' = "boot" /\ full_try' = 0
    /\ is_space_bl' = FALSE /\ is_command' = FALSE /\ was_self_reset' = FALSE
    /\ Begin(Order)
    /\ data_buf' = "blank" /\ temp_buf' = "blank"
    /\ UNCHANGED <<card, configured, spoilt>>

-----------------------------------------------------------------------------
Chip ==
    \/ FastCheck \/ Stop \/ Decide
    \/ ReadSource \/ Fill \/ WriteBlock \/ ReadBack
    \/ EraseConfig \/ ProgramConfig \/ Glitched \/ GlitchFails

Console == SystemUpdate \/ \E c \in Commands : GiveOrder(c)

Next == Chip \/ Console \/ PowerLoss

Spec == Init /\ [][Next]_vars

(***************************************************************************)
(* Safety                                                                  *)
(***************************************************************************)

\* When a pass ends and the flash is told that the card is set up, every block of
\* the payload, the tables and the descriptor is on it, whatever was tried and lost
\* before; and so it is in the second round of the glitch, which follows a rewrite.
\* In the first round it need not be: after a system update and a pass cut off past
\* block 1 the next start finds its signature and the flag, and writes nothing.
PassComplete ==
    pc \in {"erase", "program"} \/ (pc = "glitch" /\ full_try = 1) =>
        \A a \in Addresses : a[1] \notin Backups => card[a] = "ours"

\* The console's own tables are not lost: from the moment one block of them is
\* overwritten, the backup holds all of them, wherever power went or the card
\* failed.  The two ways in which the code copies its own tables over the
\* backup are excepted, and there are no others.
BackupKept ==
    ~spoilt /\ (\E a \in Addresses : a[1] \in Tables /\ card[a] # "console") =>
        \A a \in Addresses : a[1] \in Backups => card[a] = "console"

\* What is left of a start: an order to replace, the rounds, and the steps of one.
Left ==
    CASE pc = "boot" /\ card[Block1] = "update" -> 13
      [] pc = "pass" /\ stage = Order           -> 12
      [] pc = "boot" /\ card[Block1] # "update" -> 11
      [] pc \in {"lit", "stopped"}              -> 0
      [] OTHER -> (IF full_try = 0 THEN 5 ELSE 0) +
                  CASE pc = "decide"  -> 5
                    [] pc = "pass"    -> 4
                    [] pc = "erase"   -> 3
                    [] pc = "program" -> 2
                    [] pc = "glitch"  -> 1

\* How far the try of a block is.
Tried == (IF was_read THEN 1 ELSE 0) + (IF was_write THEN 1 ELSE 0)

\* Nearer to the end: in the start, else in the areas, else in the blocks of one,
\* else in the tries of a block, else in one try.
Nearer ==
    \/ Left' < Left
    \/ /\ Left' = Left /\ pc = "pass"
       /\ \/ stage' > stage
          \/ stage' = stage /\ block' > block
          \/ place' = place /\ attempt' > attempt
          \/ place' = place /\ attempt' = attempt /\ Tried' > Tried

\* The firmware does nothing with the card that it can do for ever: each of its
\* steps, those that fail included, brings the end of the start nearer, and an
\* order that was replaced is not followed once more.
Progress == [][Chip => Nearer]_vars

(***************************************************************************)
(* Liveness.  Nothing but the loss of power stops the chip, and every try  *)
(* of a command ends, with the answer of the card or its timeout.          *)
(***************************************************************************)
FairSpec == Spec /\ WF_vars(Chip)

\* With power, and no order, the firmware comes to an end with the card.
ComesToRest ==
    <>[][Chip]_vars => <>[](pc \in {"lit", "stopped"})
=============================================================================
