--------------------------- MODULE PayloadProofs ----------------------------
(***************************************************************************)
(* Proofs about Payload, for areas of every size.                          *)
(***************************************************************************)
EXTENDS Payload, TLAPS

Overwritten == \E a \in Addresses : a[1] \in Tables /\ card[a] # "console"
BackupsHold == \A a \in Addresses : a[1] \in Backups => card[a] = "console"

\* The blocks the pass has done.
Done(a) == a[1] < stage \/ (a[1] = stage /\ a[2] < block)

\* The flags of fast_check are about the table that is on the card, until the
\* pass changes it: what they call its own was backed up before.
FlagsTell ==
    /\ ~spoilt /\ pc # "lit" /\ (is_space_bl \/ is_command) => BackupsHold
    /\ pc = "decide" /\ full_try = 0 /\ card[Block1] \in {"ours"} \cup Commands =>
          is_space_bl \/ is_command
    /\ pc = "pass" /\ stage = Order => is_command
    /\ pc = "pass" /\ Copying => ~is_space_bl /\ ~is_command

\* While it copies, the tables are the console's and the blocks that are done
\* are theirs; what is read back is compared with what was read.
CopyTrue ==
    pc = "pass" /\ Copying /\ ~spoilt =>
        /\ ~Overwritten
        /\ \A a \in Addresses : a[1] \in Backups /\ Done(a) => card[a] = "console"
        /\ was_read => temp_buf = "console"

\* While it writes, the backup is there and the blocks that are done are its own.
WriteTrue ==
    pc = "pass" /\ stage \in 3..6 =>
        /\ ~spoilt => BackupsHold
        /\ \A a \in Addresses : a[1] \in 3..6 /\ Done(a) => card[a] = "ours"

IInv ==
    /\ TypeOK
    /\ FlagsTell
    /\ CopyTrue
    /\ WriteTrue
    /\ PassComplete
    /\ BackupKept

-----------------------------------------------------------------------------
(* Addresses. *)

LEMMA SizeType == ASSUME NEW s \in Areas PROVE Size[s] \in Nat /\ Size[s] > 0
  BY SizeAssumption

LEMMA AddressIs ==
    ASSUME NEW s \in Areas, NEW n \in Nat, n < Size[s]
    PROVE  <<s, n>> \in Addresses
<1>1. n \in 0..(Size[s] - 1)
  BY SizeType
<1>2. QED
  BY <1>1 DEF Addresses

LEMMA AddressParts ==
    ASSUME NEW a \in Addresses
    PROVE  a[1] \in Areas /\ a[2] \in Nat /\ a[2] < Size[a[1]] /\ a = <<a[1], a[2]>>
<1>1. PICK s \in Areas : a \in {s} \X (0..(Size[s] - 1))
  BY DEF Addresses
<1>2. a[1] = s /\ a[2] \in 0..(Size[s] - 1) /\ a = <<a[1], a[2]>>
  BY <1>1
<1>3. QED
  BY <1>2, SizeType

LEMMA Block1Is == Block1 \in Addresses /\ Block1[1] = 4
  BY AddressIs, SizeAssumption DEF Block1, Areas

LEMMA FirstIs == ASSUME NEW s \in Areas PROVE <<s, 0>> \in Addresses
  BY AddressIs, SizeType

\* The block a copy reads, and the one any step writes.
LEMMA PlaceIs ==
    ASSUME TypeOK
    PROVE  /\ Dest \in Addresses
           /\ stage # Order => Dest = <<stage, block>> /\ Dest[1] = stage
           /\ stage = Order => Dest[1] = 4
           /\ Copying => Source \in Addresses /\ Source[1] \in Tables
<1>1. Dest \in Addresses /\ (stage # Order => Dest = <<stage, block>> /\ Dest[1] = stage)
                         /\ (stage = Order => Dest[1] = 4)
  BY Block1Is DEF TypeOK, Dest
<1>2. ASSUME Copying PROVE Source \in Addresses /\ Source[1] \in Tables
  <2>1. stage \in {1, 2} /\ <<stage, block>> \in Addresses /\ block \in Nat
    BY <1>2 DEF TypeOK, Copying, Backups, Order
  <2>2. block < Size[stage]
    BY <2>1, AddressParts
  <2>3. stage + 3 \in Areas /\ Size[stage + 3] = Size[stage] /\ stage + 3 \in Tables
    BY <2>1, SizeAssumption DEF Areas, Tables
  <2>4. QED
    BY <2>1, <2>2, <2>3, AddressIs DEF Source
<1>3. QED
  BY <1>1, <1>2

-----------------------------------------------------------------------------
(* Steps that leave the card alone. *)

LEMMA SameCard ==
    ASSUME card' = card
    PROVE  (Overwritten' <=> Overwritten) /\ (BackupsHold' <=> BackupsHold)
  BY DEF Overwritten, BackupsHold

LEMMA InitHolds == Init => IInv
<1> SUFFICES ASSUME Init PROVE IInv
  OBVIOUS
<1>1. TypeOK
  <2>1. card \in [Addresses -> Contents]
    BY DEF Init, Contents
  <2>2. stage = Order /\ block \in Nat /\ full_try \in 0..1 /\ attempt \in 0..5
    BY DEF Init
  <2>3. QED
    BY <2>1, <2>2 DEF Init, TypeOK, Contents
<1>2. ~Overwritten
  BY DEF Init, Overwritten
<1>3. BackupKept
  BY <1>2 DEF BackupKept, Overwritten
<1>4. FlagsTell /\ CopyTrue /\ WriteTrue /\ PassComplete
  BY DEF Init, FlagsTell, CopyTrue, WriteTrue, PassComplete
<1>5. QED
  BY <1>1, <1>3, <1>4 DEF IInv

\* A step to a place outside a pass and a decision, the card and the history
\* as they were, that does not change the flags, keeps the invariant; the second
\* round of the glitch starts from init_config only.
LEMMA IdleStep ==
    ASSUME IInv, TypeOK', card' = card, spoilt' = spoilt,
           pc' \in {"boot", "glitch", "lit", "stopped"}, pc # "lit",
           pc' = "glitch" /\ full_try' = 1 => pc = "program",
           UNCHANGED flags
    PROVE  IInv'
<1>1. FlagsTell'
  BY SameCard DEF IInv, FlagsTell, flags
<1>2. CopyTrue' /\ WriteTrue' /\ PassComplete'
  BY DEF IInv, CopyTrue, WriteTrue, PassComplete
<1>3. BackupKept'
  BY DEF IInv, BackupKept
<1>4. QED
  BY <1>1, <1>2, <1>3 DEF IInv

LEMMA BeginType ==
    ASSUME NEW s \in Areas \cup {Order}, Begin(s)
    PROVE  /\ attempt' \in 0..5 /\ was_read' \in BOOLEAN /\ was_write' \in BOOLEAN
           /\ stage' \in Areas \cup {Order} /\ block' \in Nat
           /\ stage' # Order => <<stage', block'>> \in Addresses
<1>1. stage' = s /\ block' = 0 /\ attempt' = 0 /\ was_read' = FALSE /\ was_write' = FALSE
  BY DEF Begin
<1>2. s # Order => <<s, 0>> \in Addresses
  BY FirstIs
<1>3. 0 \in 0..5 /\ 0 \in Nat
  OBVIOUS
<1>4. QED
  BY <1>1, <1>2, <1>3, Zenon

LEMMA FastCheckStep == ASSUME IInv, FastCheck PROVE IInv'
<1> USE DEF IInv
<1>1. card[Block1] \in Contents
  BY Block1Is DEF TypeOK
<1>2. TypeOK'
  <2> DEFINE Places == /\ attempt \in 0..5 /\ was_read \in BOOLEAN /\ was_write \in BOOLEAN
                       /\ stage \in Areas \cup {Order} /\ block \in Nat
                       /\ stage # Order => <<stage, block>> \in Addresses
  <2>1. ASSUME pc' = "decide", UNCHANGED <<place, try>> PROVE Places'
    BY <2>1 DEF TypeOK, place, try
  <2>2. ASSUME Begin(Order) PROVE Places'
    BY <2>2, BeginType, Zenon
  <2>3. Places' /\ pc' \in {"decide", "pass"}
    BY <2>1, <2>2 DEF FastCheck
  <2>4. is_space_bl' \in BOOLEAN /\ is_command' \in BOOLEAN /\ was_self_reset' \in BOOLEAN
    <3>1. is_space_bl' \in BOOLEAN
      BY DEF FastCheck
    <3>2. is_command' \in BOOLEAN
      BY DEF FastCheck
    <3>3. was_self_reset' \in BOOLEAN
      BY DEF FastCheck, TypeOK
    <3>4. QED
      BY <3>1, <3>2, <3>3
  <2>5. full_try' \in 0..1 /\ data_buf' \in Contents
    BY <1>1 DEF FastCheck
  <2>6. UNCHANGED <<card, configured, temp_buf, spoilt>>
    BY DEF FastCheck
  <2>7. QED
    BY <2>3, <2>4, <2>5, <2>6 DEF TypeOK
<1>3. is_space_bl' \/ is_command' => Overwritten
  BY Block1Is DEF FastCheck, Overwritten, Tables, Commands
<1>4. ~spoilt /\ Overwritten => BackupsHold
  BY DEF BackupKept, Overwritten, BackupsHold
<1>5. pc' = "pass" => stage' = Order /\ is_command'
  BY DEF FastCheck, Begin, Commands
<1>6. FlagsTell'
  <2>1. ~spoilt' /\ (is_space_bl' \/ is_command') => BackupsHold'
    BY <1>3, <1>4, SameCard DEF FastCheck
  <2>2. pc' = "pass" => ~Copying'
    BY <1>5 DEF Copying, Order, Backups
  <2>3. card[Block1] \in {"ours"} \cup Commands => is_space_bl' \/ is_command'
    BY DEF FastCheck
  <2>4. QED
    BY <2>1, <2>2, <2>3, <1>5 DEF FlagsTell, FastCheck
<1>7. CopyTrue' /\ WriteTrue'
  BY <1>5 DEF CopyTrue, WriteTrue, Copying, Order, Backups
<1>8. PassComplete' /\ BackupKept'
  BY DEF FastCheck, PassComplete, BackupKept
<1>9. QED
  BY <1>2, <1>6, <1>7, <1>8

LEMMA DecideStep == ASSUME IInv, Decide PROVE IInv'
<1> USE DEF IInv
<1>1. ASSUME pc' = "glitch", UNCHANGED <<place, try, spoilt>> PROVE IInv'
  <2>1. TypeOK'
    BY <1>1 DEF Decide, TypeOK, flags, place, try, buffers
  <2>2. full_try' # 1
    BY <1>1 DEF Decide, WritePayload
  <2>3. QED
    BY <1>1, <2>1, <2>2, IdleStep DEF Decide
<1>2. ASSUME WritePayload PROVE IInv'
  <2>1. card' = card /\ UNCHANGED <<configured, full_try, flags, buffers>> /\ pc = "decide"
    BY DEF Decide
  <2>2. CASE ~is_space_bl /\ ~is_command
    <3>1. pc' = "pass" /\ Begin(1) /\ spoilt' = (spoilt \/ Hole)
      BY <1>2, <2>2 DEF WritePayload
    <3>2. TypeOK'
      BY <2>1, <3>1, BeginType DEF TypeOK, Areas, flags, buffers, Hole
    <3>3. stage' = 1 /\ block' = 0 /\ was_read' = FALSE
      BY <3>1 DEF Begin
    <3>4. ~spoilt' => ~Overwritten
      <4>1. full_try = 0 \/ full_try = 1
        BY DEF TypeOK
      <4>2. full_try = 0 => card[Block1] \notin {"ours"} \cup Commands
        BY <2>1, <2>2, Zenon DEF FlagsTell
      <4>3. Overwritten => Hole
        BY <4>1, <4>2, Zenon DEF Hole, Overwritten
      <4>4. QED
        BY <3>1, <4>3
    <3>5. \A a \in Addresses : ~(Done(a))'
      BY <3>3, AddressParts DEF Done, Areas
    <3>6. FlagsTell'
      BY <2>1, <2>2, <3>1, <3>3 DEF FlagsTell, flags, Order
    <3>7. CopyTrue'
      BY <2>1, <3>3, <3>4, <3>5, SameCard DEF CopyTrue
    <3>8. WriteTrue' /\ PassComplete'
      BY <3>1, <3>3 DEF WriteTrue, PassComplete
    <3>9. BackupKept'
      BY <2>1, <3>4, SameCard DEF BackupKept, Overwritten
    <3>10. QED
      BY <3>2, <3>6, <3>7, <3>8, <3>9
  <2>3. CASE is_space_bl \/ is_command
    <3>1. pc' = "pass" /\ Begin(PayloadArea) /\ spoilt' = spoilt
      BY <1>2, <2>3 DEF WritePayload
    <3>2. TypeOK'
      BY <2>1, <3>1, BeginType DEF TypeOK, Areas, PayloadArea, flags, buffers
    <3>3. stage' = 3 /\ block' = 0
      BY <3>1 DEF Begin, PayloadArea
    <3>4. ~spoilt => BackupsHold
      BY <2>1, <2>3 DEF FlagsTell
    <3>5. \A a \in Addresses : a[1] \in 3..6 => ~(Done(a))'
      BY <3>3, AddressParts DEF Done
    <3>6. ~Copying'
      BY <3>3 DEF Copying, Backups
    <3>7. FlagsTell' /\ CopyTrue'
      BY <2>1, <3>1, <3>3, <3>4, <3>6, SameCard DEF FlagsTell, CopyTrue, Order
    <3>8. WriteTrue'
      BY <2>1, <3>1, <3>4, <3>5, SameCard DEF WriteTrue
    <3>9. PassComplete' /\ BackupKept'
      BY <2>1, <3>1 DEF PassComplete, BackupKept
    <3>10. QED
      BY <3>2, <3>7, <3>8, <3>9
  <2>4. QED
    BY <2>2, <2>3 DEF TypeOK
<1>3. QED
  BY <1>1, <1>2 DEF Decide

-----------------------------------------------------------------------------
(* The steps of a pass. *)

\* The next try of a block, or the end.
LEMMA AgainType ==
    ASSUME NEW read \in BOOLEAN, NEW write \in BOOLEAN, TypeOK, pc = "pass",
           Again(read, write)
    PROVE  /\ pc' \in {"pass", "stopped"} /\ attempt' \in 0..5
           /\ was_read' \in BOOLEAN /\ was_write' \in BOOLEAN
           /\ pc' = "pass" /\ was_read' => read
<1>1. attempt \notin {2, 5} => attempt + 1 \in 0..5
  BY DEF TypeOK
<1>2. 3 \in 0..5
  OBVIOUS
<1>3. CASE attempt \notin {2, 5} /\ attempt' = attempt + 1 /\ was_read' = read
             /\ was_write' = write /\ pc' = pc
  BY <1>1, <1>3
<1>4. CASE attempt' = 3 /\ was_read' = (read /\ ~Copying) /\ was_write' = FALSE /\ pc' = pc
  BY <1>2, <1>4
<1>5. CASE pc' = "stopped" /\ UNCHANGED try
  BY <1>5 DEF try, TypeOK
<1>6. QED
  BY <1>3, <1>4, <1>5 DEF Again

\* A step that leaves the card, the place and the flags as they are, or stops,
\* keeps the invariant if it keeps what a copy has read.
LEMMA SamePlaceStep ==
    ASSUME IInv, TypeOK', pc = "pass", pc' \in {"pass", "stopped"},
           card' = card, spoilt' = spoilt, UNCHANGED flags, UNCHANGED place,
           pc' = "pass" /\ Copying /\ was_read' =>
               \/ temp_buf' = temp_buf /\ was_read
               \/ temp_buf' = card[Source]
    PROVE  IInv'
<1> USE DEF IInv
<1>1. (Copying' <=> Copying) /\ (Overwritten' <=> Overwritten) /\ (BackupsHold' <=> BackupsHold)
  BY SameCard DEF place, Copying
<1>2. \A a \in Addresses : (Done(a))' <=> Done(a)
  BY DEF Done, place
<1>3. FlagsTell'
  BY <1>1 DEF FlagsTell, flags, place
<1>4. CopyTrue'
  <2> SUFFICES ASSUME pc' = "pass", Copying, ~spoilt
               PROVE  /\ ~Overwritten
                      /\ \A a \in Addresses : a[1] \in Backups /\ Done(a) => card[a] = "console"
                      /\ was_read' => temp_buf' = "console"
    BY <1>1, <1>2 DEF CopyTrue
  <2>1. /\ ~Overwritten
        /\ \A a \in Addresses : a[1] \in Backups /\ Done(a) => card[a] = "console"
        /\ was_read => temp_buf = "console"
    BY DEF CopyTrue
  <2>2. card[Source] = "console"
    BY <2>1, PlaceIs DEF Overwritten
  <2>3. QED
    BY <2>1, <2>2
<1>5. WriteTrue'
  BY <1>1, <1>2 DEF WriteTrue, place
<1>6. PassComplete' /\ BackupKept'
  BY DEF PassComplete, BackupKept
<1>7. QED
  BY <1>3, <1>4, <1>5, <1>6

LEMMA ReadSourceStep == ASSUME IInv, ReadSource PROVE IInv'
<1> USE DEF IInv
<1>1. card[Source] \in Contents
  BY PlaceIs DEF ReadSource, TypeOK
<1>2. ASSUME data_buf' = card[Source], temp_buf' = card[Source], was_read' = TRUE,
             UNCHANGED <<pc, attempt, was_write>>
      PROVE  IInv'
  <2>1. TypeOK'
    BY <1>1, <1>2 DEF ReadSource, TypeOK, flags, place
  <2>2. QED
    BY <1>2, <2>1, SamePlaceStep DEF ReadSource
<1>3. ASSUME ReadFails, temp_buf' = temp_buf, Again(FALSE, was_write) PROVE IInv'
  <2>1. /\ pc' \in {"pass", "stopped"} /\ attempt' \in 0..5
        /\ was_read' \in BOOLEAN /\ was_write' \in BOOLEAN
        /\ pc' = "pass" => ~was_read'
    BY <1>3, AgainType DEF ReadSource, TypeOK
  <2>2. TypeOK'
    BY <1>3, <2>1 DEF ReadSource, ReadFails, TypeOK, Contents, flags, place
  <2>3. QED
    BY <2>1, <2>2, SamePlaceStep DEF ReadSource
<1>4. QED
  BY <1>2, <1>3 DEF ReadSource

LEMMA FillStep == ASSUME IInv, Fill PROVE IInv'
<1> USE DEF IInv
<1>1. Wanted \in Contents
  BY DEF Fill, Wanted, Contents, Commands
<1>2. TypeOK'
  BY <1>1 DEF Fill, TypeOK, flags, place
<1>3. QED
  BY <1>2, SamePlaceStep DEF Fill

LEMMA StopStep == ASSUME IInv, Stop PROVE IInv'
<1>1. TypeOK'
  BY DEF IInv, Stop, TypeOK, flags, place, try, buffers
<1>2. QED
  BY <1>1, IdleStep DEF Stop

\* The card with the block of the step written: what was done stays done, and a
\* copy leaves the tables alone as a write leaves the backups alone.
LEMMA WriteBlockStep == ASSUME IInv, WriteBlock PROVE IInv'
<1> USE DEF IInv
<1>1. /\ pc = "pass" /\ was_read /\ ~was_write
      /\ UNCHANGED <<configured, full_try, flags, place, buffers, spoilt>>
      /\ card' = card \/ card' = [card EXCEPT ![Dest] = data_buf]
  BY DEF WriteBlock
<1>2. pc' \in {"pass", "stopped"} /\ attempt' \in 0..5 /\ was_read' \in BOOLEAN
      /\ was_write' \in BOOLEAN
  <2>1. CASE was_write' = TRUE /\ UNCHANGED <<pc, attempt, was_read>>
    BY <1>1, <2>1 DEF TypeOK
  <2>2. CASE Again(TRUE, FALSE)
    <3>1. TypeOK /\ pc = "pass"
      BY <1>1
    <3>2. QED
      BY <2>2, <3>1, AgainType
  <2>3. QED
    BY <2>1, <2>2 DEF WriteBlock
<1>3. TypeOK'
  <2>1. card' \in [Addresses -> Contents]
    BY <1>1 DEF TypeOK
  <2>2. QED
    BY <1>1, <1>2, <2>1 DEF TypeOK, flags, place, buffers
<1>4. CASE card' = card
  BY <1>1, <1>2, <1>3, <1>4, SamePlaceStep DEF buffers
<1>5. CASE card' = [card EXCEPT ![Dest] = data_buf]
  <2>1. \A a \in Addresses : a # Dest => card'[a] = card[a]
    BY <1>5 DEF TypeOK
  <2>2. (Copying' <=> Copying) /\ (\A a \in Addresses : (Done(a))' <=> Done(a))
    BY <1>1 DEF place, Copying, Done
  <2>3. \A a \in Addresses : Done(a) => stage = Order \/ a # Dest
    <3>1. stage # Order => Dest[1] = stage /\ Dest[2] = block
      BY PlaceIs
    <3>2. stage \in 0..6 /\ block \in Nat
      BY DEF TypeOK, Areas, Order
    <3>3. QED
      BY <3>1, <3>2 DEF Done
  <2>4. ~Copying => (BackupsHold' <=> BackupsHold)
    <3>1. ~Copying => Dest[1] \notin Backups
      BY PlaceIs DEF Copying, Backups
    <3>2. QED
      BY <2>1, <3>1 DEF BackupsHold
  <2>5. Copying => (Overwritten' <=> Overwritten)
    <3>1. Copying => Dest[1] \notin Tables
      BY PlaceIs DEF Copying, Backups, Tables, Order
    <3>2. QED
      BY <2>1, <3>1 DEF Overwritten
  <2>6. FlagsTell'
    <3>1. Copying => ~is_space_bl /\ ~is_command
      BY <1>1 DEF FlagsTell
    <3>2. ~spoilt' /\ pc' # "lit" /\ (is_space_bl' \/ is_command') => BackupsHold'
      BY <1>1, <2>4, <3>1 DEF FlagsTell, flags
    <3>3. QED
      BY <1>1, <1>2, <2>2, <3>1, <3>2 DEF FlagsTell, flags, place
  <2>7. CopyTrue'
    <3> SUFFICES ASSUME pc' = "pass", Copying, ~spoilt
                 PROVE  /\ ~Overwritten'
                        /\ \A a \in Addresses : a[1] \in Backups /\ Done(a) => card'[a] = "console"
                        /\ was_read' => temp_buf' = "console"
      BY <1>1, <2>2 DEF CopyTrue
    <3>1. /\ ~Overwritten
          /\ \A a \in Addresses : a[1] \in Backups /\ Done(a) => card[a] = "console"
          /\ temp_buf = "console"
      BY <1>1 DEF CopyTrue
    <3>2. stage # Order
      BY DEF Copying, Backups, Order
    <3>3. QED
      BY <1>1, <2>1, <2>3, <2>5, <3>1, <3>2 DEF buffers
  <2>8. WriteTrue'
    <3> SUFFICES ASSUME stage \in 3..6
                 PROVE  /\ ~spoilt => BackupsHold'
                        /\ \A a \in Addresses : a[1] \in 3..6 /\ Done(a) => card'[a] = "ours"
      BY <1>1, <2>2 DEF WriteTrue, place
    <3>1. ~Copying /\ stage # Order
      BY DEF Copying, Backups, Order
    <3>2. QED
      BY <1>1, <2>1, <2>3, <2>4, <3>1 DEF WriteTrue
  <2>9. PassComplete'
    BY <1>2 DEF PassComplete
  <2>10. BackupKept'
    <3>1. ~Copying /\ ~spoilt => BackupsHold
      <4>1. CASE stage = Order
        BY <1>1, <4>1 DEF FlagsTell
      <4>2. CASE stage # Order
        <5>1. ~Copying => stage \in 3..6
          BY <4>2 DEF TypeOK, Areas, Copying, Backups
        <5>2. QED
          BY <1>1, <5>1 DEF WriteTrue
      <4>3. QED
        BY <4>1, <4>2
    <3>2. Copying /\ ~spoilt => ~Overwritten
      BY <1>1 DEF CopyTrue
    <3>3. ~spoilt' /\ Overwritten' => BackupsHold'
      BY <1>1, <2>4, <2>5, <3>1, <3>2
    <3>4. QED
      BY <3>3 DEF BackupKept, Overwritten, BackupsHold
  <2>11. QED
    BY <1>3, <2>6, <2>7, <2>8, <2>9, <2>10
<1>6. QED
  BY <1>1, <1>4, <1>5

\* The blocks done at the next place are those done, and the one that was read
\* back.
LEMMA DoneNext ==
    ASSUME TypeOK, stage # Order,
           NEW s, NEW n,
           \/ s = stage /\ n = block + 1
           \/ s = stage + 1 /\ n = 0 /\ block + 1 = Size[stage],
           NEW a \in Addresses, a[1] < s \/ (a[1] = s /\ a[2] < n)
    PROVE  Done(a) \/ a = Dest
<1>1. stage \in Areas /\ block \in Nat /\ stage \in Int
  BY DEF TypeOK, Areas
<1>2. a[1] \in Int /\ a[2] \in Nat /\ a[2] < Size[a[1]] /\ a = <<a[1], a[2]>>
  BY AddressParts DEF Areas
<1>3. a[1] < stage \/ (a[1] = stage /\ a[2] < block + 1)
  BY <1>1, <1>2
<1>4. a[1] = stage /\ a[2] = block => a = Dest
  BY <1>2, PlaceIs
<1>5. QED
  BY <1>1, <1>2, <1>3, <1>4 DEF Done

\* A block that was read back as it should be.
LEMMA NextBlockStep ==
    ASSUME IInv, pc = "pass", was_read, card[Dest] = Wanted, NextBlock,
           data_buf' = card[Dest],
           UNCHANGED <<card, configured, full_try, flags, temp_buf, spoilt>>
    PROVE  IInv'
<1> USE DEF IInv
<1>1. card[Dest] \in Contents
  BY PlaceIs DEF TypeOK
<1>2. (Overwritten' <=> Overwritten) /\ (BackupsHold' <=> BackupsHold)
  BY SameCard
<1>3. BackupKept'
  BY DEF BackupKept
<1>4. ASSUME stage = Order, pc' \in {"boot", "decide"}, UNCHANGED <<place, try>>
      PROVE  IInv'
  <2>1. TypeOK'
    BY <1>1, <1>4 DEF TypeOK, flags, place, try
  <2>2. FlagsTell'
    BY <1>2, <1>4 DEF FlagsTell, flags
  <2>3. CopyTrue' /\ WriteTrue' /\ PassComplete'
    BY <1>4 DEF CopyTrue, WriteTrue, PassComplete
  <2>4. QED
    BY <2>1, <2>2, <2>3, <1>3
<1>5. ASSUME stage # Order,
             \A a \in Addresses : (Done(a))' => Done(a) \/ a = Dest,
             TypeOK', pc' = pc, was_read' = FALSE,
             stage' \in {stage, stage + 1}, stage' # Order
      PROVE  IInv'
  <2>1. stage \in 1..6 /\ stage' \in 1..6
    BY <1>5 DEF TypeOK, Areas, Order
  <2>2. Copying' => Copying
    BY <1>5, <2>1 DEF Copying, Backups
  <2>3. ASSUME Copying, ~spoilt, NEW a \in Addresses, a[1] \in Backups, (Done(a))'
        PROVE  card[a] = "console"
    <3>1. temp_buf = "console" /\ (Done(a) => card[a] = "console")
      BY <2>3 DEF CopyTrue
    <3>2. card[Dest] = "console"
      BY <2>3, <3>1 DEF Wanted
    <3>3. QED
      BY <1>5, <2>3, <3>1, <3>2
  <2>4. CopyTrue'
    BY <1>2, <1>5, <2>2, <2>3 DEF CopyTrue
  <2>5. ASSUME stage' \in 3..6, ~spoilt PROVE BackupsHold
    <3>1. CASE stage \in 3..6
      BY <2>5, <3>1 DEF WriteTrue
    <3>2. CASE stage \notin 3..6
      <4>1. stage = 2 /\ stage' = 3 /\ Copying
        BY <1>5, <2>1, <2>5, <3>2 DEF Copying, Backups
      <4>2. \A a \in Addresses : a[1] \in Backups => (Done(a))'
        BY <4>1 DEF Done, Backups
      <4>3. QED
        BY <2>3, <2>5, <4>1, <4>2 DEF BackupsHold
    <3>3. QED
      BY <3>1, <3>2
  <2>6. ASSUME stage' \in 3..6, NEW a \in Addresses, a[1] \in 3..6, (Done(a))'
        PROVE  card[a] = "ours"
    <3>1. CASE stage \in 3..6
      <4>1. Done(a) => card[a] = "ours"
        BY <2>6, <3>1 DEF WriteTrue
      <4>2. card[Dest] = "ours"
        BY <3>1 DEF Wanted, Copying, Backups, Order
      <4>3. QED
        BY <1>5, <2>6, <4>1, <4>2
    <3>2. CASE stage \notin 3..6
      <4>1. stage = 2 /\ stage' = 3
        BY <1>5, <2>1, <2>6, <3>2
      <4>2. Done(a) \/ a = Dest
        BY <1>5, <2>6
      <4>3. Dest[1] = 2
        BY <4>1, <1>5, PlaceIs
      <4>4. QED
        BY <4>1, <4>2, <4>3, <2>6 DEF Done
    <3>3. QED
      BY <3>1, <3>2
  <2>7. WriteTrue'
    BY <1>2, <2>5, <2>6 DEF WriteTrue
  <2>8. FlagsTell'
    BY <1>2, <1>5, <2>2 DEF FlagsTell, flags
  <2>9. PassComplete'
    BY <1>5 DEF PassComplete
  <2>10. QED
    BY <1>3, <1>5, <2>4, <2>7, <2>8, <2>9
<1>6. ASSUME stage # Order, block + 1 < Size[stage], stage' = stage, block' = block + 1,
             attempt' = 0, was_read' = FALSE, was_write' = FALSE, pc' = pc
      PROVE  IInv'
  <2>1. stage \in Areas /\ block + 1 \in Nat /\ 0 \in 0..5
    BY <1>6 DEF TypeOK
  <2>2. <<stage, block + 1>> \in Addresses
    BY <1>6, <2>1, AddressIs
  <2>3. TypeOK'
    BY <1>1, <1>6, <2>1, <2>2 DEF TypeOK, flags
  <2>4. \A a \in Addresses : (Done(a))' => Done(a) \/ a = Dest
    BY <1>6, DoneNext DEF Done
  <2>5. QED
    BY <1>5, <1>6, <2>3, <2>4
<1>7. ASSUME stage \in 1..5, block + 1 = Size[stage], Begin(stage + 1), pc' = pc
      PROVE  IInv'
  <2>1. stage + 1 \in Areas /\ stage + 1 # Order /\ stage # Order
    BY <1>7 DEF Areas, Order
  <2>2. stage' = stage + 1 /\ block' = 0 /\ was_read' = FALSE
    BY <1>7 DEF Begin
  <2>3. /\ attempt' \in 0..5 /\ was_read' \in BOOLEAN /\ was_write' \in BOOLEAN
        /\ stage' \in Areas \cup {Order} /\ block' \in Nat
        /\ stage' # Order => <<stage', block'>> \in Addresses
    BY <1>7, <2>1, BeginType
  <2>4. TypeOK'
    BY <1>1, <1>7, <2>3 DEF TypeOK, flags
  <2>5. \A a \in Addresses : (Done(a))' => Done(a) \/ a = Dest
    BY <1>7, <2>1, <2>2, DoneNext DEF Done
  <2>6. QED
    BY <1>5, <1>7, <2>1, <2>2, <2>4, <2>5
<1>8. ASSUME stage = Descriptor, block + 1 = Size[stage],
             pc' = IF ~is_space_bl /\ ~is_command /\ ~was_self_reset THEN "stopped"
                   ELSE "erase",
             UNCHANGED <<place, try>>
      PROVE  IInv'
  <2>1. TypeOK'
    BY <1>1, <1>8 DEF TypeOK, flags, place, try
  <2>2. FlagsTell' /\ CopyTrue' /\ WriteTrue'
    BY <1>2, <1>8 DEF FlagsTell, flags, CopyTrue, WriteTrue
  <2>3. ASSUME NEW a \in Addresses, a[1] \notin Backups PROVE card[a] = "ours"
    <3>1. a[1] \in 3..6 /\ a[1] < 7
      BY <2>3, AddressParts DEF Areas, Backups
    <3>2. stage # Order /\ stage + 1 = 7 /\ stage \in 3..6
      BY <1>8 DEF Descriptor, Order
    <3>3. Done(a) \/ a = Dest
      BY <1>8, <3>1, <3>2, DoneNext
    <3>4. Done(a) => card[a] = "ours"
      BY <3>1, <3>2 DEF WriteTrue
    <3>5. card[Dest] = "ours"
      BY <3>2 DEF Wanted, Copying, Backups, Order
    <3>6. QED
      BY <3>3, <3>4, <3>5
  <2>4. PassComplete'
    BY <2>3 DEF PassComplete
  <2>5. QED
    BY <1>3, <2>1, <2>2, <2>4
<1>9. QED
  BY <1>4, <1>6, <1>7, <1>8 DEF NextBlock

LEMMA ReadBackStep == ASSUME IInv, ReadBack PROVE IInv'
<1> USE DEF IInv
<1>1. /\ pc = "pass" /\ was_read /\ was_write
      /\ UNCHANGED <<card, configured, full_try, flags, temp_buf, spoilt>>
  BY DEF ReadBack
<1>2. card[Dest] \in Contents /\ TypeOK
  BY PlaceIs DEF TypeOK
<1>3. ASSUME NEW read \in BOOLEAN, NEW write \in BOOLEAN, Again(read, write),
             data_buf' \in Contents, UNCHANGED place
      PROVE  IInv'
  <2>1. /\ pc' \in {"pass", "stopped"} /\ attempt' \in 0..5
        /\ was_read' \in BOOLEAN /\ was_write' \in BOOLEAN
    BY <1>1, <1>2, <1>3, AgainType
  <2>2. TypeOK'
    BY <1>1, <1>3, <2>1 DEF TypeOK, flags, place
  <2>3. QED
    BY <1>1, <1>3, <2>1, <2>2, SamePlaceStep
<1>4. ReadFails => data_buf' \in Contents
  BY DEF ReadFails, TypeOK, Contents
<1>5. CASE data_buf' = card[Dest] /\ card[Dest] = Wanted /\ NextBlock
  BY <1>1, <1>5, NextBlockStep
<1>6. CASE data_buf' = card[Dest] /\ Again(~Copying, FALSE) /\ UNCHANGED place
  <2>1. (~Copying) \in BOOLEAN
    BY DEF Copying
  <2>2. QED
    BY <1>2, <1>3, <1>6, <2>1
<1>7. CASE ReadFails /\ Again(TRUE, TRUE) /\ UNCHANGED place
  BY <1>3, <1>4, <1>7
<1>8. QED
  BY <1>5, <1>6, <1>7 DEF ReadBack

-----------------------------------------------------------------------------
(* After a pass. *)

LEMMA EraseConfigStep == ASSUME IInv, EraseConfig PROVE IInv'
<1> USE DEF IInv
<1>1. TypeOK'
  BY DEF EraseConfig, TypeOK, flags, place, try, buffers
<1>2. FlagsTell' /\ CopyTrue' /\ WriteTrue'
  BY SameCard DEF EraseConfig, FlagsTell, CopyTrue, WriteTrue, flags
<1>3. PassComplete' /\ BackupKept'
  BY DEF EraseConfig, PassComplete, BackupKept
<1>4. QED
  BY <1>1, <1>2, <1>3

LEMMA ProgramConfigStep == ASSUME IInv, ProgramConfig PROVE IInv'
<1>1. TypeOK'
  BY DEF IInv, ProgramConfig, TypeOK, flags, place, try, buffers
<1>2. QED
  BY <1>1, IdleStep DEF ProgramConfig

LEMMA GlitchedStep == ASSUME IInv, Glitched PROVE IInv'
<1>1. TypeOK'
  BY DEF IInv, Glitched, TypeOK, flags, place, try, buffers
<1>2. QED
  BY <1>1, IdleStep DEF Glitched

LEMMA GlitchFailsStep == ASSUME IInv, GlitchFails PROVE IInv'
<1> USE DEF IInv
<1>1. TypeOK'
  BY DEF GlitchFails, TypeOK, flags, place, try, buffers
<1>2. FlagsTell' /\ CopyTrue' /\ WriteTrue'
  BY SameCard DEF GlitchFails, FlagsTell, CopyTrue, WriteTrue, flags
<1>3. PassComplete' /\ BackupKept'
  BY DEF GlitchFails, PassComplete, BackupKept
<1>4. QED
  BY <1>1, <1>2, <1>3

-----------------------------------------------------------------------------
(* The console, and power. *)

LEMMA SystemUpdateStep == ASSUME IInv, SystemUpdate PROVE IInv'
<1> USE DEF IInv
<1>1. card' \in [Addresses -> Contents]
  BY DEF SystemUpdate, TypeOK, Contents
<1>2. TypeOK'
  BY <1>1 DEF SystemUpdate, TypeOK, flags, place, try, buffers
<1>3. ~Overwritten'
  BY DEF SystemUpdate, Overwritten
<1>4. pc' = "lit"
  BY DEF SystemUpdate
<1>5. FlagsTell' /\ CopyTrue' /\ WriteTrue' /\ PassComplete'
  BY <1>4 DEF FlagsTell, CopyTrue, WriteTrue, PassComplete
<1>6. BackupKept'
  BY <1>3 DEF BackupKept, Overwritten
<1>7. QED
  BY <1>2, <1>5, <1>6

LEMMA GiveOrderStep ==
    ASSUME IInv, NEW c \in Commands, GiveOrder(c) PROVE IInv'
<1> USE DEF IInv
<1>1. card' = [card EXCEPT ![Block1] = c] /\ pc' = "lit" /\ spoilt' = spoilt
  BY DEF GiveOrder
<1>2. card' \in [Addresses -> Contents]
  BY <1>1 DEF TypeOK, Contents
<1>3. TypeOK'
  BY <1>2 DEF GiveOrder, TypeOK, flags, place, try, buffers
<1>4. FlagsTell' /\ CopyTrue' /\ WriteTrue' /\ PassComplete'
  BY <1>1 DEF FlagsTell, CopyTrue, WriteTrue, PassComplete
<1>5. Overwritten
  BY Block1Is DEF GiveOrder, Overwritten, Tables, Commands
<1>6. ~spoilt => BackupsHold
  BY <1>5 DEF BackupKept, Overwritten, BackupsHold
<1>7. BackupsHold => BackupsHold'
  BY <1>1, Block1Is DEF BackupsHold, Backups, TypeOK
<1>8. BackupKept'
  BY <1>1, <1>6, <1>7 DEF BackupKept, BackupsHold
<1>9. QED
  BY <1>3, <1>4, <1>8

LEMMA PowerLossStep == ASSUME IInv, PowerLoss PROVE IInv'
<1> USE DEF IInv
<1>1. TypeOK'
  <2>1. /\ attempt' \in 0..5 /\ was_read' \in BOOLEAN /\ was_write' \in BOOLEAN
        /\ stage' \in Areas \cup {Order} /\ block' \in Nat
        /\ stage' # Order => <<stage', block'>> \in Addresses
    BY BeginType DEF PowerLoss
  <2>2. full_try' \in 0..1 /\ data_buf' \in Contents /\ temp_buf' \in Contents
    BY DEF PowerLoss, Contents
  <2>3. QED
    BY <2>1, <2>2 DEF PowerLoss, TypeOK
<1>2. pc' = "boot" /\ ~is_space_bl' /\ ~is_command'
  BY DEF PowerLoss
<1>3. FlagsTell' /\ CopyTrue' /\ WriteTrue' /\ PassComplete'
  BY <1>2 DEF FlagsTell, CopyTrue, WriteTrue, PassComplete
<1>4. BackupKept'
  BY DEF PowerLoss, BackupKept
<1>5. QED
  BY <1>1, <1>3, <1>4

-----------------------------------------------------------------------------
LEMMA StepHolds == IInv /\ [Next]_vars => IInv'
<1> SUFFICES ASSUME IInv, [Next]_vars PROVE IInv'
  OBVIOUS
<1>1. CASE Chip
  BY <1>1, FastCheckStep, StopStep, DecideStep, ReadSourceStep, FillStep,
     WriteBlockStep, ReadBackStep, EraseConfigStep, ProgramConfigStep, GlitchedStep,
     GlitchFailsStep DEF Chip
<1>2. CASE Console
  BY <1>2, SystemUpdateStep, GiveOrderStep DEF Console
<1>3. CASE PowerLoss
  BY <1>3, PowerLossStep
<1>4. CASE UNCHANGED vars
  <2>1. TypeOK'
    BY <1>4 DEF IInv, TypeOK, vars, flags, place, try, buffers
  <2>2. UNCHANGED flags /\ UNCHANGED place /\ card' = card /\ pc' = pc /\ spoilt' = spoilt
        /\ UNCHANGED try /\ UNCHANGED buffers /\ full_try' = full_try
    BY <1>4 DEF vars
  <2>3. (Overwritten' <=> Overwritten) /\ (BackupsHold' <=> BackupsHold)
    BY <2>2, SameCard
  <2>4. (Copying' <=> Copying) /\ \A a \in Addresses : (Done(a))' <=> Done(a)
    BY <2>2 DEF Copying, Done, place
  <2>5. FlagsTell'
    BY <2>2, <2>3, <2>4 DEF IInv, FlagsTell, flags, place
  <2>6. CopyTrue' /\ WriteTrue'
    BY <2>2, <2>3, <2>4 DEF IInv, CopyTrue, WriteTrue, place, try, buffers
  <2>7. PassComplete' /\ BackupKept'
    BY <2>2 DEF IInv, PassComplete, BackupKept
  <2>8. QED
    BY <2>1, <2>5, <2>6, <2>7 DEF IInv
<1>5. QED
  BY <1>1, <1>2, <1>3, <1>4 DEF Next

\* The inductive invariant: what a pass has done stays done, and the flags of
\* fast_check go with the table on the card.
THEOREM Invariance == Spec => []IInv
  BY InitHolds, StepHolds, PTL DEF Spec

\* write_data and copy_bct keep their place in the areas, their tries are at
\* most six, and the buffers and the card hold blocks of the contents named.
THEOREM TypeCorrect == Spec => []TypeOK
<1>1. IInv => TypeOK
  BY DEF IInv
<1>2. QED
  BY <1>1, Invariance, PTL

\* When init_config runs, and in the round of the glitch after a rewrite, every
\* block of a pass is on the card, for areas of every size and whatever failed, was
\* tried again or was cut off before.
THEOREM WrittenWhole == Spec => []PassComplete
<1>1. IInv => PassComplete
  BY DEF IInv
<1>2. QED
  BY <1>1, Invariance, PTL

\* write_payload does not overwrite a block of the console's tables before the
\* backup is whole, apart from the two ways of Hole.
THEOREM BackupSafe == Spec => []BackupKept
<1>1. IInv => BackupKept
  BY DEF IInv
<1>2. QED
  BY <1>1, Invariance, PTL

-----------------------------------------------------------------------------
(* Every step brings the end nearer. *)

Round == IF full_try = 0 THEN 5 ELSE 0

\* What is left, place by place.
LeftByPlace ==
    /\ pc = "boot" => Left = IF card[Block1] = "update" THEN 13 ELSE 11
    /\ pc = "pass" => Left = IF stage = Order THEN 12 ELSE Round + 4
    /\ pc = "decide" => Left = Round + 5
    /\ pc = "erase" => Left = Round + 3
    /\ pc = "program" => Left = Round + 2
    /\ pc = "glitch" => Left = Round + 1
    /\ pc \in {"lit", "stopped"} => Left = 0

LEMMA LeftIs == LeftByPlace /\ Round \in {0, 5}
BY DEF LeftByPlace, Left, Round

LEMMA LeftIsNext == LeftByPlace' /\ Round' \in {0, 5}
BY DEF LeftByPlace, Left, Round

\* Stopping is nearer than any place the chip stops in.
LEMMA StoppedNearer ==
    ASSUME TypeOK, pc \notin {"lit", "stopped"}, pc' = "stopped"
    PROVE  Nearer
<1>1. Left' = 0
  BY LeftIsNext DEF LeftByPlace
<1>2. Left > 0 /\ Left \in Nat
  BY LeftIs DEF LeftByPlace, TypeOK
<1> QED
  BY <1>1, <1>2 DEF Nearer

\* In a pass nothing but the place and the try need tell what is left.
LEMMA SamePass ==
    ASSUME pc = "pass", pc' = "pass", full_try' = full_try,
           (stage' = Order) <=> (stage = Order)
    PROVE  Left' = Left
BY LeftIs, LeftIsNext DEF LeftByPlace, Round

\* A try that failed is the next one, or the last.
LEMMA AgainNearer ==
    ASSUME TypeOK, pc = "pass", UNCHANGED <<place, full_try>>, NEW read, NEW write,
           Again(read, write)
    PROVE  Nearer
<1>1. CASE pc' = "stopped"
  BY <1>1, StoppedNearer
<1>2. CASE pc' = pc /\ attempt' > attempt
  <2>1. Left' = Left
    BY <1>2, SamePass DEF place
  <2> QED
    BY <1>2, <2>1 DEF Nearer
<1> QED
  BY <1>1, <1>2 DEF Again, TypeOK

\* A step of a try that succeeds.
LEMMA TriedNearer ==
    ASSUME pc = "pass", UNCHANGED <<pc, place, full_try, attempt>>, Tried' > Tried
    PROVE  Nearer
<1>1. Left' = Left
  BY SamePass DEF place
<1> QED
  BY <1>1 DEF Nearer

LEMMA NextBlockNearer ==
    ASSUME TypeOK, pc = "pass", full_try' = full_try, card' = card,
           stage = Order => card[Block1] = "reset", NextBlock
    PROVE  Nearer
<1>1. CASE stage = Order /\ pc' \in {"boot", "decide"}
  <2>1. Left = 12 /\ Left' \in {5, 10, 11}
    BY <1>1, LeftIs, LeftIsNext DEF LeftByPlace
  <2> QED
    BY <2>1 DEF Nearer
<1>2. CASE stage # Order /\ stage' = stage /\ block' = block + 1 /\ pc' = pc
  <2>1. Left' = Left
    BY <1>2, SamePass
  <2>2. block' > block
    BY <1>2 DEF TypeOK
  <2> QED
    BY <1>2, <2>1, <2>2 DEF Nearer
<1>3. CASE stage \in 1..5 /\ Begin(stage + 1) /\ pc' = pc
  <2>1. stage' = stage + 1
    BY <1>3 DEF Begin
  <2>2. Left' = Left
    BY <1>3, <2>1, SamePass DEF Order
  <2> QED
    BY <1>3, <2>1, <2>2 DEF Nearer
<1>4. CASE stage = Descriptor /\ pc' \in {"stopped", "erase"}
  <2>1. Left' \in {0, Round + 3} /\ Left = Round + 4
    BY <1>4, LeftIs, LeftIsNext DEF LeftByPlace, Round, Descriptor, Order
  <2> QED
    BY <2>1, LeftIs DEF Nearer
<1> QED
  BY <1>1, <1>2, <1>3, <1>4 DEF NextBlock

LEMMA PassNearer ==
    ASSUME TypeOK, ReadSource \/ Fill \/ WriteBlock \/ ReadBack
    PROVE  Nearer
<1>1. CASE ReadSource
  <2>1. CASE was_read' = TRUE /\ UNCHANGED <<pc, attempt, was_write>>
    <3>1. Tried' > Tried
      BY <1>1, <2>1 DEF ReadSource, Tried
    <3> QED
      BY <1>1, <2>1, <3>1, TriedNearer DEF ReadSource
  <2>2. CASE Again(FALSE, was_write)
    BY <1>1, <2>2, AgainNearer DEF ReadSource
  <2> QED
    BY <1>1, <2>1, <2>2 DEF ReadSource
<1>2. CASE Fill
  <2>1. Tried' > Tried
    BY <1>2 DEF Fill, Tried
  <2> QED
    BY <1>2, <2>1, TriedNearer DEF Fill
<1>3. CASE WriteBlock
  <2>1. CASE was_write' = TRUE /\ UNCHANGED <<pc, attempt, was_read>>
    <3>1. Tried' > Tried
      BY <1>3, <2>1 DEF WriteBlock, Tried
    <3> QED
      BY <1>3, <2>1, <3>1, TriedNearer DEF WriteBlock
  <2>2. CASE Again(TRUE, FALSE)
    BY <1>3, <2>2, AgainNearer DEF WriteBlock
  <2> QED
    BY <1>3, <2>1, <2>2 DEF WriteBlock
<1>4. CASE ReadBack
  <2>1. CASE card[Dest] = Wanted /\ NextBlock
    <3>1. stage = Order => card[Block1] = "reset"
      BY <2>1 DEF Dest, Wanted, Copying, Backups, Order
    <3> QED
      BY <1>4, <2>1, <3>1, NextBlockNearer DEF ReadBack
  <2>2. CASE Again(~Copying, FALSE) /\ UNCHANGED place
    BY <1>4, <2>2, AgainNearer DEF ReadBack
  <2>3. CASE Again(TRUE, TRUE) /\ UNCHANGED place
    BY <1>4, <2>3, AgainNearer DEF ReadBack
  <2> QED
    BY <1>4, <2>1, <2>2, <2>3 DEF ReadBack
<1> QED
  BY <1>1, <1>2, <1>3, <1>4

LEMMA StartNearer ==
    ASSUME TypeOK,
           \/ FastCheck \/ Stop \/ Decide
           \/ EraseConfig \/ ProgramConfig \/ Glitched \/ GlitchFails
    PROVE  Nearer
<1> USE LeftIs, LeftIsNext DEF LeftByPlace
<1>1. CASE FastCheck
  <2>1. CASE pc' = "decide"
    <3>1. Left >= 11 /\ Left \in Nat /\ Left' = 10
      BY <1>1, <2>1 DEF FastCheck, Round
    <3> QED
      BY <3>1 DEF Nearer
  <2>2. CASE card[Block1] = "update" /\ pc' = "pass" /\ Begin(Order)
    <3>1. Left = 13 /\ Left' = 12
      BY <1>1, <2>2 DEF FastCheck, Begin
    <3> QED
      BY <3>1 DEF Nearer
  <2> QED
    BY <1>1, <2>1, <2>2 DEF FastCheck
<1>2. CASE Stop
  BY <1>2, StoppedNearer DEF Stop
<1>3. CASE Decide
  <2>1. Round' = Round /\ Left = Round + 5
    BY <1>3 DEF Decide, Round
  <2>2. CASE WritePayload
    <3>1. pc' = "pass" /\ stage' # Order
      BY <2>2 DEF WritePayload, Begin, PayloadArea, Order
    <3>2. Left' = Round + 4
      BY <2>1, <3>1
    <3> QED
      BY <2>1, <3>2 DEF Nearer
  <2>3. CASE pc' = "glitch"
    <3>1. Left' = Round + 1
      BY <2>1, <2>3
    <3> QED
      BY <2>1, <3>1 DEF Nearer
  <2> QED
    BY <1>3, <2>2, <2>3 DEF Decide
<1>4. CASE EraseConfig \/ ProgramConfig \/ Glitched
  <2>1. Round' = Round
    BY <1>4 DEF EraseConfig, ProgramConfig, Glitched, Round
  <2>2. Left' < Left
    BY <1>4, <2>1 DEF EraseConfig, ProgramConfig, Glitched
  <2> QED
    BY <2>2 DEF Nearer
<1>5. CASE GlitchFails
  <2>1. Left = 6 /\ Left' = 5
    BY <1>5 DEF GlitchFails, Round
  <2> QED
    BY <2>1 DEF Nearer
<1> QED
  BY <1>1, <1>2, <1>3, <1>4, <1>5

\* The firmware cannot be kept at the card by tries, areas or orders: each of its
\* steps decreases what is left, for areas of every size (write_data, copy_bct,
\* write_payload, main).
THEOREM AlwaysNearer == Spec => Progress
<1>1. TypeOK /\ [Next]_vars => [Chip => Nearer]_vars
  BY PassNearer, StartNearer DEF Chip
<1> QED
  BY <1>1, TypeCorrect, PTL DEF Spec, Progress
=============================================================================
