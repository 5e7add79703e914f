---------------------------- MODULE FwBootProofs ----------------------------
(***************************************************************************)
(* Proofs about FwBoot, for every set of images, every size of an image    *)
(* and of an update, and every even number of fuses.                       *)
(***************************************************************************)
EXTENDS FwBoot, TLAPS

\* The slot of the n-th try.
Named(n) == (Parity + n) % 2

Updating == {"clear", "validate", "update"}
Busy == Updating \cup {"check", "rewrite", "glitch", "burn"}
Restarted == pc = "boot" /\ cause = "watchdog"

\* What runs is the image of the slot the try names; only a first try updates,
\* and a fuse is burnt only by an image that can start the console.
Running ==
    /\ pc \in Busy \cup {"run"} => ram = slot[boot_slot] /\ boot_slot = Named(boot_try)
    /\ pc \in Busy => ram \in Starting
    /\ pc \in Updating => boot_try = 0
    /\ pc = "burn" => ram \in Glitching /\ Parity # boot_slot

\* What the tries so far have shown: the last one failed, and so did the one
\* before it.
Lost ==
    /\ Restarted /\ boot_try >= 1 => slot[Named(boot_try)] \notin Starting
    /\ (Restarted \/ pc = "run") /\ boot_try >= 2 => slot[Named(boot_try + 1)] \notin Starting
    /\ HaltsOnlyWhenLost

\* The other slot is tried only on an order, which is cleared by then.
Ordered ==
    /\ cmd \in Orders => asked
    /\ pc \in Updating => asked
    /\ pc \in {"validate", "update"} => cmd \notin Orders
    /\ Restarted => asked /\ cmd \notin Orders
    /\ pc \in Busy \cup {"run"} /\ boot_try # 0 => asked /\ cmd \notin Orders

IInv ==
    /\ TypeOK
    /\ Running
    /\ Lost
    /\ ~decayed => NeverBricked /\ Ordered

-----------------------------------------------------------------------------
(* The slots and the orders. *)

\* Parity.
LEMMA ModTwo ==
    ASSUME NEW m \in Nat
    PROVE  m % 2 \in 0..1 /\ (m + 1) % 2 = 1 - (m % 2) /\ (m + 2) % 2 = m % 2
  OBVIOUS

\* Two tries in a row are of different slots, and every other one of the same.
LEMMA SlotNames ==
    ASSUME fuses \in 0..FuseCap
    PROVE  /\ Parity \in 0..1
           /\ \A n \in Nat : Named(n) \in 0..1
           /\ Named(0) = Parity
           /\ \A n \in Nat : Named(n + 1) = 1 - Named(n)
           /\ \A n \in Nat : Named(n + 2) = Named(n)
<1>1. Parity \in 0..1 /\ fuses \in Nat
  BY ModTwo, FuseCapAssumption DEF Parity
<1>2. Named(0) = Parity
  BY <1>1 DEF Named
<1>3. ASSUME NEW n \in Nat
      PROVE  Named(n) \in 0..1 /\ Named(n + 1) = 1 - Named(n) /\ Named(n + 2) = Named(n)
  <2>1. Parity + n \in Nat /\ Parity + (n + 1) = (Parity + n) + 1
                         /\ Parity + (n + 2) = (Parity + n) + 2
    BY <1>1
  <2>2. QED
    BY <2>1, ModTwo DEF Named
<1>4. QED
  BY <1>1, <1>2, <1>3

\* An order is what it is: only an update has a size, and that is a number.
LEMMA OrderFields ==
    ASSUME NEW c \in Commands
    PROVE  c.size \in Nat /\ (c.kind # "update" => c.size = 0) /\ c.img \in Contents
  BY BlocksAssumption DEF Commands, Orders, UpdateTo, Plain, Contents

\* Clearing the order, or writing the table over it, leaves none.
LEMMA PlainOrders ==
    /\ Plain("none") \in Commands /\ Plain("none") \notin Orders
    /\ Plain("reset") \in Commands /\ Plain("reset") \notin Orders
<1>1. \A c \in Orders : c.kind \in {"update", "rollback"}
  BY DEF Orders, UpdateTo, Plain
<1>2. Plain("none").kind = "none" /\ Plain("reset").kind = "reset"
  BY DEF Plain
<1>3. QED
  BY <1>1, <1>2 DEF Commands

\* Only an image starts, and none is what is torn.
LEMMA ImageKinds ==
    /\ Glitching \subseteq Starting /\ Starting \subseteq Valid
    /\ Valid \subseteq Contents /\ Torn \in Contents /\ Torn \notin Valid
  BY ImagesAssumption, TornAssumption DEF Contents

\* Burning a fuse changes the current slot; erasing them all does not.
LEMMA Burnt == ASSUME NEW n \in 0..FuseCap PROVE (n + 1) % 2 = 1 - (n % 2)
  BY FuseCapAssumption
LEMMA Erased == 0 % 2 = FuseCap % 2 /\ 0 \in 0..FuseCap
  BY FuseCapAssumption

-----------------------------------------------------------------------------
(* The inductive invariant. *)

LEMMA InitInv == Init => IInv
<1> SUFFICES ASSUME Init PROVE IInv
  OBVIOUS
<1>0. fuses \in 0..FuseCap /\ 0 \in 0..MaxBlocks
  BY FuseCapAssumption, BlocksAssumption DEF Init
<1>1. PICK i \in Glitching : slot = [s \in 0..1 |-> IF s = 0 THEN i ELSE Torn]
  BY DEF Init
<1>2. TypeOK
  <2>1. i \in Contents /\ Torn \in Contents
    BY ImageKinds
  <2>2. slot \in [0..1 -> Contents]
    BY <1>1, <2>1
  <2>3. boot_try \in 0..3 /\ boot_slot \in 0..1 /\ full_try \in 0..1
    BY DEF Init
  <2>4. QED
    BY <1>0, <2>1, <2>2, <2>3, PlainOrders DEF Init, TypeOK
<1>3. Running /\ Lost
  BY DEF Init, Running, Lost, Busy, Updating, Restarted, HaltsOnlyWhenLost
<1>4. NeverBricked
  BY <1>1, SlotNames, <1>0 DEF Init, NeverBricked, Parity
<1>5. Ordered
  BY PlainOrders DEF Init, Ordered, Busy, Updating, Restarted
<1>6. QED
  BY <1>2, <1>3, <1>4, <1>5 DEF IInv

\* startup_from_slot, entered with the count n of tries already stored.
LEMMA StartupStep ==
    ASSUME IInv, NEW n \in 0..3, boot_try' = n, Startup(Named(n)),
           UNCHANGED <<update, full_try, flash, cmd, asked>>,
           n >= 2 => slot[Named(n + 1)] \notin Starting,
           ~decayed /\ n # 0 => asked /\ cmd \notin Orders
    PROVE  IInv'
<1> DEFINE s == Named(n)
<1>0. fuses \in 0..FuseCap /\ n \in Nat /\ n + 1 \in Nat
  BY DEF IInv, TypeOK
<1>1. s \in 0..1 /\ slot[s] \in Contents /\ boot_slot' = s /\ slot' = slot /\ fuses' = fuses
  BY <1>0, SlotNames DEF IInv, TypeOK, Startup, flash
<1>2. \A k : Named(k)' = Named(k)
  BY <1>1 DEF Named, Parity
<1>3. CASE slot[s] \in Valid
  <2>1. pc' = "run" /\ ram' = slot[s] /\ cause' = cause
    BY <1>3 DEF Startup
  <2>2. TypeOK'
    BY <1>1, <2>1 DEF IInv, TypeOK, update, flash
  <2>3. Running'
    BY <1>1, <1>2, <2>1 DEF Running, Busy, Updating
  <2>4. Lost'
    BY <1>1, <1>2, <2>1 DEF Lost, Restarted, HaltsOnlyWhenLost
  <2>5. ~decayed => NeverBricked' /\ Ordered'
    BY <1>1, <2>1 DEF IInv, NeverBricked, Parity, Ordered, Restarted, Busy, Updating
  <2>6. QED
    BY <2>2, <2>3, <2>4, <2>5 DEF IInv, flash
<1>4. CASE slot[s] \notin Valid
  <2>1. pc' = "boot" /\ ram' = Torn /\ cause' = "watchdog"
    BY <1>4 DEF Startup
  <2>2. TypeOK'
    BY <1>1, <2>1, ImageKinds DEF IInv, TypeOK, update, flash
  <2>3. Running'
    BY <2>1 DEF Running, Busy, Updating
  <2>4. slot[s] \notin Starting
    BY <1>4, ImageKinds
  <2>5. Lost'
    BY <1>1, <1>2, <2>1, <2>4 DEF Lost, Restarted, HaltsOnlyWhenLost
  <2>6. ~decayed => n # 0
    BY <1>0, <1>4, SlotNames, ImageKinds DEF IInv, NeverBricked
  <2>7. ~decayed => NeverBricked' /\ Ordered'
    BY <1>1, <2>1, <2>6 DEF IInv, NeverBricked, Parity, Ordered, Restarted, Busy, Updating
  <2>8. QED
    BY <2>2, <2>3, <2>5, <2>7 DEF IInv, flash
<1>5. QED
  BY <1>3, <1>4

LEMMA BootInv == IInv /\ (FirstBoot \/ NextBoot) => IInv'
<1> SUFFICES ASSUME IInv, FirstBoot \/ NextBoot PROVE IInv'
  OBVIOUS
<1>0. fuses \in 0..FuseCap /\ boot_try \in 0..3
  BY DEF IInv, TypeOK
<1>1. CASE FirstBoot
  <2>1. Startup(Named(0)) /\ boot_try' = 0
    BY <1>1, <1>0, SlotNames DEF FirstBoot
  <2>2. QED
    BY <1>1, <2>1, StartupStep DEF FirstBoot
<1>2. CASE NextBoot
  <2> DEFINE n == boot_try + 1
  <2>1. n \in 0..3 /\ n \in Nat /\ boot_try \in Nat /\ n + 1 = boot_try + 2
    BY <1>2, <1>0 DEF NextBoot
  <2>2. (Parity + boot_try) + 1 = Parity + (boot_try + 1)
    BY <1>0, SlotNames
  <2>3. Startup(Named(n)) /\ boot_try' = n
    BY <1>2, <2>2 DEF NextBoot, Named
  <2>4. Named(n + 1) = Named(boot_try)
    BY <2>1, <1>0, SlotNames
  <2>5. n >= 2 => slot[Named(n + 1)] \notin Starting
    BY <1>2, <1>0, <2>4 DEF NextBoot, IInv, Lost, Restarted
  <2>6. ~decayed => asked /\ cmd \notin Orders
    BY <1>2 DEF NextBoot, IInv, Ordered, Restarted
  <2> HIDE DEF n
  <2>7. QED
    BY <1>2, <2>1, <2>3, <2>5, <2>6, StartupStep DEF NextBoot
<1>3. QED
  BY <1>1, <1>2

\* A step that leaves flash, the tries and the image alone, and ends the boot or
\* keeps it busy, has only the orders to look after.
LEMMA QuietStep ==
    ASSUME IInv, TypeOK', UNCHANGED <<boot, flash>>,
           pc \in Busy \cup {"run", "lit"},
           pc' \in Busy => pc # "run" \/ ram \in Starting,
           pc' \in Busy => pc \in Busy \cup {"run"},
           pc' \in {"lit", "failed"} \cup Busy,
           pc' \in Updating => boot_try = 0,
           pc' = "burn" => ram \in Glitching /\ Parity # boot_slot,
           ~decayed => Ordered'
    PROVE  IInv'
<1>1. Running'
  BY DEF IInv, Running, Busy, Updating, boot, flash, Named, Parity
<1>2. Lost'
  BY DEF Lost, Restarted, HaltsOnlyWhenLost, Busy, Updating
<1>3. ~decayed => NeverBricked'
  BY DEF IInv, NeverBricked, Parity, flash
<1>4. QED
  BY <1>1, <1>2, <1>3 DEF IInv, flash

LEMMA QuietInv ==
    IInv /\ (\/ Start \/ Fail \/ FastCheck \/ ClearOrder \/ ClearFails \/ Validate \/ UpdateFails
             \/ Rewrite \/ RewriteStops \/ GlitchFails \/ Glitched
             \/ \E c \in Commands : Command(c))
        => IInv'
<1> SUFFICES ASSUME IInv,
                    \/ Start \/ Fail \/ FastCheck \/ ClearOrder \/ ClearFails \/ Validate
                    \/ UpdateFails \/ Rewrite \/ RewriteStops \/ GlitchFails \/ Glitched
                    \/ \E c \in Commands : Command(c)
             PROVE  IInv'
  OBVIOUS
<1> USE DEF update
<1>0. TypeOK /\ Running /\ (~decayed => Ordered)
  BY DEF IInv
<1>1. CASE Start
  <2>1. TypeOK'
    BY <1>0, <1>1 DEF Start, TypeOK, boot, flash
  <2>2. ~decayed => Ordered'
    BY <1>0, <1>1 DEF Start, Ordered, Restarted, Busy, Updating, boot
  <2>3. QED
    BY <1>1, <2>1, <2>2, QuietStep DEF Start, Busy, Updating
<1>2. CASE Fail
  <2>1. TypeOK'
    BY <1>0, <1>2 DEF Fail, TypeOK, boot, flash
  <2>2. ~decayed => Ordered'
    BY <1>0, <1>2 DEF Fail, Ordered, Restarted, Busy, Updating
  <2>3. QED
    BY <1>2, <2>1, <2>2, QuietStep DEF Fail, Busy, Updating
<1>3. CASE FastCheck
  <2>1. TypeOK'
    BY <1>0, <1>3 DEF FastCheck, TypeOK, boot, flash
  <2>2. ~decayed => Ordered'
    BY <1>0, <1>3 DEF FastCheck, Ordered, Restarted, Busy, Updating, boot
  <2>3. QED
    BY <1>3, <2>1, <2>2, QuietStep DEF FastCheck, Busy, Updating
<1>4. CASE ClearOrder
  <2>1. TypeOK'
    BY <1>0, <1>4, PlainOrders DEF ClearOrder, TypeOK, boot, flash
  <2>2. ~decayed => Ordered'
    BY <1>0, <1>4, PlainOrders DEF ClearOrder, Ordered, Restarted, Busy, Updating, boot
  <2>3. QED
    BY <1>0, <1>4, <2>1, <2>2, QuietStep DEF ClearOrder, Running, Busy, Updating
<1>5. CASE ClearFails
  <2>1. TypeOK'
    BY <1>0, <1>5, PlainOrders DEF ClearFails, TypeOK, boot, flash
  <2>2. ~decayed => Ordered'
    BY <1>0, <1>5, PlainOrders DEF ClearFails, Ordered, Restarted, Busy, Updating, boot
  <2>3. QED
    BY <1>5, <2>1, <2>2, QuietStep DEF ClearFails, Busy, Updating
<1>6. CASE Validate
  <2>1. order.size \in Nat /\ (order.kind # "update" => order.size = 0)
    BY <1>0, OrderFields DEF TypeOK
  <2>2. ~Refused => order.size \in 0..MaxBlocks
    BY <2>1, BlocksAssumption DEF Refused
  <2>3. TypeOK'
    BY <1>0, <1>6, <2>2 DEF Validate, TypeOK, boot, flash
  <2>4. ~decayed => Ordered'
    BY <1>0, <1>6 DEF Validate, Ordered, Restarted, Busy, Updating, boot
  <2>5. QED
    BY <1>0, <1>6, <2>3, <2>4, QuietStep DEF Validate, Running, Busy, Updating
<1>7. CASE UpdateFails
  <2>1. TypeOK'
    BY <1>0, <1>7 DEF UpdateFails, TypeOK, boot, flash
  <2>2. ~decayed => Ordered'
    BY <1>0, <1>7 DEF UpdateFails, Ordered, Restarted, Busy, Updating
  <2>3. QED
    BY <1>7, <2>1, <2>2, QuietStep DEF UpdateFails, Busy, Updating
<1>8. CASE Rewrite
  <2>1. TypeOK'
    BY <1>0, <1>8, PlainOrders DEF Rewrite, TypeOK, boot, flash
  <2>2. ~decayed => Ordered'
    BY <1>0, <1>8, PlainOrders DEF Rewrite, Ordered, Restarted, Busy, Updating, boot
  <2>3. QED
    BY <1>8, <2>1, <2>2, QuietStep DEF Rewrite, Busy, Updating
<1>9. CASE RewriteStops
  <2>1. TypeOK'
    BY <1>0, <1>9, PlainOrders DEF RewriteStops, TypeOK, boot, flash
  <2>2. ~decayed => Ordered'
    BY <1>0, <1>9, PlainOrders DEF RewriteStops, Ordered, Restarted, Busy, Updating, boot
  <2>3. QED
    BY <1>9, <2>1, <2>2, QuietStep DEF RewriteStops, Busy, Updating
<1>10. CASE GlitchFails
  <2>1. TypeOK'
    BY <1>0, <1>10 DEF GlitchFails, TypeOK, boot, flash
  <2>2. ~decayed => Ordered'
    BY <1>0, <1>10 DEF GlitchFails, Ordered, Restarted, Busy, Updating, boot
  <2>3. QED
    BY <1>10, <2>1, <2>2, QuietStep DEF GlitchFails, Busy, Updating
<1>11. CASE Glitched
  <2>1. TypeOK'
    BY <1>0, <1>11 DEF Glitched, TypeOK, boot, flash
  <2>2. ~decayed => Ordered'
    BY <1>0, <1>11 DEF Glitched, Ordered, Restarted, Busy, Updating, boot
  <2>3. QED
    BY <1>11, <2>1, <2>2, QuietStep DEF Glitched, Busy, Updating
<1>12. CASE \E c \in Commands : Command(c)
  <2>1. PICK c \in Commands : Command(c)
    BY <1>12
  <2>2. TypeOK'
    BY <1>0, <2>1 DEF Command, TypeOK, boot, flash
  <2>3. ~decayed => Ordered'
    BY <1>0, <2>1 DEF Command, Ordered, Restarted, Busy, Updating, boot
  <2>4. IInv'
    BY <1>0, <2>1, <2>2, <2>3
    DEF Command, IInv, Running, Lost, HaltsOnlyWhenLost, Restarted, NeverBricked, Busy, Updating,
        boot, flash, Parity
  <2>5. QED
    BY <2>4
<1>13. QED
  BY <1>1, <1>2, <1>3, <1>4, <1>5, <1>6, <1>7, <1>8, <1>9, <1>10, <1>11, <1>12

\* The steps that restart the chip or stop it.
LEMMA RestartInv ==
    IInv /\ (WatchdogBites \/ UpdateDone \/ TriesExhausted \/ PowerLoss) => IInv'
<1> SUFFICES ASSUME IInv, WatchdogBites \/ UpdateDone \/ TriesExhausted \/ PowerLoss
             PROVE  IInv'
  OBVIOUS
<1> USE DEF update
<1>0. /\ TypeOK /\ Running /\ Lost /\ (~decayed => NeverBricked /\ Ordered)
      /\ fuses \in 0..FuseCap /\ boot_try \in 0..3 /\ boot_try \in Nat
  BY DEF IInv, TypeOK
<1>1. CASE WatchdogBites
  <2>1. TypeOK'
    BY <1>0, <1>1 DEF WatchdogBites, TypeOK, flash
  <2>2. Running'
    BY <1>1 DEF WatchdogBites, Running, Busy, Updating
  <2>3. slot[Named(boot_try)] \notin Starting
    BY <1>0, <1>1 DEF WatchdogBites, Running
  <2>4. Lost'
    BY <1>0, <1>1, <2>3
    DEF WatchdogBites, Lost, Restarted, HaltsOnlyWhenLost, flash, Named, Parity
  <2>5. ~decayed => boot_try # 0
    BY <1>0, <2>3, SlotNames, ImageKinds DEF NeverBricked
  <2>6. ~decayed => NeverBricked' /\ Ordered'
    BY <1>0, <1>1, <2>5
    DEF WatchdogBites, NeverBricked, Parity, Ordered, Restarted, Busy, Updating, flash
  <2>7. QED
    BY <1>1, <2>1, <2>2, <2>4, <2>6 DEF IInv, WatchdogBites, flash
<1>2. CASE UpdateDone
  <2>1. TypeOK'
    BY <1>0, <1>2 DEF UpdateDone, TypeOK, flash
  <2>2. Running'
    BY <1>2 DEF UpdateDone, Running, Busy, Updating
  <2>3. boot_try = 0
    BY <1>0, <1>2 DEF UpdateDone, Running, Updating
  <2>4. Lost'
    BY <1>2, <2>3 DEF UpdateDone, Lost, Restarted, HaltsOnlyWhenLost
  <2>5. ~decayed => NeverBricked' /\ Ordered'
    BY <1>0, <1>2
    DEF UpdateDone, NeverBricked, Parity, Ordered, Restarted, Busy, Updating, flash
  <2>6. QED
    BY <1>2, <2>1, <2>2, <2>4, <2>5 DEF IInv, UpdateDone, flash
<1>3. CASE TriesExhausted
  <2>1. TypeOK'
    BY <1>0, <1>3 DEF TriesExhausted, TypeOK, boot, flash
  <2>2. Running'
    BY <1>3 DEF TriesExhausted, Running, Busy, Updating
  <2>3. slot[Named(3)] \notin Starting /\ slot[Named(3 + 1)] \notin Starting
    BY <1>0, <1>3 DEF TriesExhausted, Lost, Restarted
  <2>4. Named(3) \in 0..1 /\ Named(3 + 1) = 1 - Named(3)
    BY <1>0, SlotNames
  <2>5. \A s \in 0..1 : s = Named(3) \/ s = Named(3 + 1)
    BY <2>4
  <2>6. Lost'
    BY <1>3, <2>3, <2>5 DEF TriesExhausted, Lost, Restarted, HaltsOnlyWhenLost, flash
  <2>7. ~decayed => NeverBricked' /\ Ordered'
    BY <1>0, <1>3
    DEF TriesExhausted, NeverBricked, Parity, Ordered, Restarted, Busy, Updating, flash
  <2>8. QED
    BY <1>3, <2>1, <2>2, <2>6, <2>7 DEF IInv, TriesExhausted, flash
<1>4. CASE PowerLoss
  <2>1. 0 \in 0..3 /\ 0 \in 0..1 /\ 0 \in 0..MaxBlocks
    BY BlocksAssumption
  <2>2. TypeOK'
    BY <1>0, <1>4, <2>1, PlainOrders, ImageKinds DEF PowerLoss, TypeOK, flash
  <2>3. Running' /\ Lost'
    BY <1>4 DEF PowerLoss, Running, Lost, Restarted, HaltsOnlyWhenLost, Busy, Updating
  <2>4. ~decayed => NeverBricked' /\ Ordered'
    BY <1>0, <1>4
    DEF PowerLoss, NeverBricked, Parity, Ordered, Restarted, Busy, Updating, flash
  <2>5. QED
    BY <1>4, <2>2, <2>3, <2>4 DEF IInv, PowerLoss, flash
<1>5. QED
  BY <1>1, <1>2, <1>3, <1>4

\* The steps that write flash.
LEMMA FlashInv ==
    IInv /\ (UpdateBlock \/ BurnFuse \/ EraseFuses \/ \E s \in 0..1 : Decay(s)) => IInv'
<1> SUFFICES ASSUME IInv, UpdateBlock \/ BurnFuse \/ EraseFuses \/ \E s \in 0..1 : Decay(s)
             PROVE  IInv'
  OBVIOUS
<1>0. /\ TypeOK /\ Running /\ Lost /\ (~decayed => NeverBricked /\ Ordered)
      /\ fuses \in 0..FuseCap /\ boot_try \in 0..3 /\ boot_slot \in 0..1
      /\ slot \in [0..1 -> Contents]
  BY DEF IInv, TypeOK
<1>1. CASE UpdateBlock
  <2>1. PICK i \in Contents : slot' = [slot EXCEPT ![1 - boot_slot] = i]
    BY <1>0, <1>1, OrderFields, ImageKinds DEF UpdateBlock, TypeOK
  <2>2. 1 - boot_slot \in 0..1 /\ 1 - boot_slot # boot_slot /\ slot' \in [0..1 -> Contents]
        /\ slot'[boot_slot] = slot[boot_slot]
    BY <1>0, <2>1
  <2>3. left' \in 0..MaxBlocks
    BY <1>0, <1>1, BlocksAssumption DEF UpdateBlock, TypeOK
  <2>4. TypeOK'
    BY <1>0, <1>1, <2>2, <2>3 DEF UpdateBlock, TypeOK, boot
  <2>5. boot_slot = Parity
    BY <1>0, <1>1, SlotNames DEF UpdateBlock, Running, Busy, Updating
  <2>6. Running'
    BY <1>0, <1>1, <2>2 DEF UpdateBlock, Running, Busy, Updating, boot, Named, Parity
  <2>7. Lost'
    BY <1>1 DEF UpdateBlock, Lost, Restarted, HaltsOnlyWhenLost
  <2>8. ~decayed => NeverBricked' /\ Ordered'
    BY <1>0, <1>1, <2>2, <2>5
    DEF UpdateBlock, NeverBricked, Parity, Ordered, Restarted, Busy, Updating, boot
  <2>9. QED
    BY <1>1, <2>4, <2>6, <2>7, <2>8 DEF IInv, UpdateBlock
<1>2. CASE BurnFuse
  <2>1. fuses' \in 0..FuseCap
    BY <1>0, <1>2, FuseCapAssumption DEF BurnFuse
  <2>2. TypeOK'
    BY <1>0, <1>2, <2>1 DEF BurnFuse, TypeOK, boot, update
  <2>3. Running' /\ Lost'
    BY <1>2 DEF BurnFuse, Running, Lost, Restarted, HaltsOnlyWhenLost, Busy, Updating
  <2>4. Parity' = 1 - Parity /\ Parity \in 0..1
    BY <1>0, <1>2, Burnt, SlotNames DEF BurnFuse, Parity
  <2>5. Parity' = boot_slot
    BY <1>0, <1>2, <2>4 DEF BurnFuse, Running
  <2>6. slot'[Parity'] \in Glitching
    BY <1>0, <1>2, <2>5 DEF BurnFuse, Running, Busy
  <2>7. ~decayed => cmd' \notin Orders
    BY <1>0, <1>2, SlotNames DEF BurnFuse, Running, Ordered, Busy
  <2>8. ~decayed => NeverBricked' /\ Ordered'
    BY <1>2, <2>6, <2>7 DEF BurnFuse, NeverBricked, Ordered, Restarted, Busy, Updating
  <2>9. QED
    BY <1>2, <2>2, <2>3, <2>8 DEF IInv, BurnFuse
<1>3. CASE EraseFuses
  <2>1. fuses' % 2 = fuses % 2 /\ fuses' \in 0..FuseCap
    BY <1>3, Erased DEF EraseFuses
  <2>2. TypeOK'
    BY <1>0, <1>3, <2>1 DEF EraseFuses, TypeOK, boot, update
  <2>3. \A n : Named(n)' = Named(n)
    BY <2>1 DEF Named, Parity
  <2>4. Parity' = Parity
    BY <2>1 DEF Parity
  <2>5. Running'
    BY <1>0, <1>3, <2>3, <2>4 DEF EraseFuses, Running, boot
  <2>6. Lost'
    BY <1>3 DEF EraseFuses, Lost, Restarted, HaltsOnlyWhenLost
  <2>7. ~decayed => NeverBricked' /\ Ordered'
    BY <1>0, <1>3, <2>4
    DEF EraseFuses, NeverBricked, Ordered, Restarted, Busy, Updating, boot
  <2>8. QED
    BY <1>3, <2>2, <2>5, <2>6, <2>7 DEF IInv, EraseFuses
<1>4. CASE \E s \in 0..1 : Decay(s)
  <2>1. PICK s \in 0..1 : Decay(s)
    BY <1>4
  <2>2. slot' = [slot EXCEPT ![s] = Torn] /\ slot' \in [0..1 -> Contents]
    BY <1>0, <2>1, ImageKinds DEF Decay
  <2>3. TypeOK'
    BY <1>0, <2>1, <2>2 DEF Decay, TypeOK, boot, update
  <2>4. Running'
    BY <2>1 DEF Decay, Running, Busy, Updating
  <2>5. \A t \in 0..1 : slot[t] \notin Starting => slot'[t] \notin Starting
    BY <1>0, <2>2, ImageKinds
  <2>6. \A n \in Nat : Named(n) \in 0..1 /\ Named(n)' = Named(n)
    BY <1>0, <2>1, SlotNames DEF Decay, Named, Parity
  <2>7. boot_try \in Nat /\ boot_try + 1 \in Nat
    BY <1>0
  <2>8. Lost'
    BY <1>0, <2>1, <2>5, <2>6, <2>7 DEF Decay, Lost, Restarted, HaltsOnlyWhenLost, boot
  <2>9. QED
    BY <2>1, <2>3, <2>4, <2>8 DEF IInv, Decay
<1>5. QED
  BY <1>1, <1>2, <1>3, <1>4

LEMMA StepInv == IInv /\ [Next]_vars => IInv'
<1> SUFFICES ASSUME IInv, [Next]_vars PROVE IInv'
  OBVIOUS
<1>1. CASE UNCHANGED vars
  BY <1>1 DEF vars, boot, update, flash, IInv, TypeOK, Running, Lost, Restarted,
     HaltsOnlyWhenLost, NeverBricked, Ordered, Named, Parity, Busy, Updating
<1>2. QED
  BY <1>1, BootInv, QuietInv, RestartInv, FlashInv DEF Next, Chip

THEOREM Invariance == Spec => []IInv
  BY InitInv, StepInv, PTL DEF Spec

-----------------------------------------------------------------------------
(* What follows from it. *)

\* The counters of tries, of blocks and of fuses stay in their ranges.
THEOREM TypeCorrect == Spec => []TypeOK
<1>1. IInv => TypeOK
  BY DEF IInv
<1>2. QED
  BY <1>1, Invariance, PTL

\* No loss of power leaves a chip that cannot start the console.
THEOREM Unbricked == Spec => []NeverBricked
<1>1. IInv => NeverBricked
  BY DEF IInv, NeverBricked
<1>2. QED
  BY <1>1, Invariance, PTL

\* The chip gives up only when both slots are lost.
THEOREM HaltsLate == Spec => []HaltsOnlyWhenLost
<1>1. IInv => HaltsOnlyWhenLost
  BY DEF IInv, Lost
<1>2. QED
  BY <1>1, Invariance, PTL

\* One order changes the current slot once.
THEOREM OneSwitch == Spec => SwitchAsked
<1>1. ASSUME IInv, [Next]_vars, fuses' % 2 # fuses % 2 PROVE asked \/ decayed
  <2>1. \/ fuses' = fuses
        \/ pc = "burn" /\ fuses' = fuses + 1
        \/ pc = "burn" /\ fuses = FuseCap /\ fuses' = 0
    BY <1>1 DEF Next, Chip, vars, flash, update, FirstBoot, NextBoot, TriesExhausted,
       WatchdogBites, Start, Fail, FastCheck, ClearOrder, ClearFails, Validate, UpdateBlock,
       UpdateFails, UpdateDone, Rewrite, RewriteStops, GlitchFails, Glitched, BurnFuse,
       EraseFuses, Command, PowerLoss, Decay
  <2>2. pc = "burn"
    BY <1>1, <2>1
  <2>3. fuses \in 0..FuseCap /\ Parity # boot_slot /\ boot_slot = Named(boot_try)
    BY <1>1, <2>2 DEF IInv, TypeOK, Running, Busy
  <2>4. boot_try # 0
    BY <2>3, SlotNames
  <2>5. QED
    BY <1>1, <2>2, <2>4 DEF IInv, Ordered, Busy
<1>2. IInv /\ [Next]_vars => [fuses' % 2 # fuses % 2 => asked \/ decayed]_vars
  BY <1>1
<1>3. QED
  BY <1>2, Invariance, PTL DEF Spec, SwitchAsked

-----------------------------------------------------------------------------
(* The promise of the two slots. *)

\* The two slots, the fuses and the order are all the promise sees.
LEMMA NothingSeen ==
    ASSUME UNCHANGED <<slot, fuses, decayed, asked>>
    PROVE  UNCHANGED Promise!vars
BY DEF Promise!vars, Parity

\* An update runs in the current slot: the one it writes is the other.
LEMMA WriteSeen ==
    ASSUME IInv, UpdateBlock
    PROVE  Promise!Write
<1>1. /\ boot_slot = Parity /\ Parity \in 0..1 /\ 1 - Parity \in 0..1 /\ 1 - Parity # Parity
      /\ slot \in [0..1 -> Contents] /\ order \in Commands
  BY SlotNames DEF IInv, TypeOK, Running, Busy, Updating, UpdateBlock
<1>2. asked \/ decayed
  BY DEF IInv, Ordered, Updating, UpdateBlock
<1>3. PICK c \in Contents : slot' = [slot EXCEPT ![1 - Parity] = c]
  BY <1>1, OrderFields, ImageKinds DEF UpdateBlock
<1>4. UNCHANGED <<Parity, asked, decayed>>
  BY DEF UpdateBlock, Parity
<1>5. slot'[1 - Parity'] \in Contents /\ slot'[Parity'] = slot[Parity]
  BY <1>1, <1>3, <1>4
<1> QED
  BY <1>2, <1>4, <1>5 DEF Promise!Write, Promise!Allowed

\* A fuse is burnt by the image of the other slot, once it started the console.
LEMMA BurnSeen ==
    ASSUME IInv, BurnFuse
    PROVE  Promise!Switch
<1>1. /\ ram = slot[boot_slot] /\ boot_slot = Named(boot_try) /\ boot_slot \in 0..1
      /\ ram \in Glitching /\ Parity # boot_slot /\ fuses \in 0..FuseCap
  BY DEF IInv, TypeOK, Running, Busy, BurnFuse
<1>2. Parity \in 0..1 /\ boot_try # 0
  BY <1>1, SlotNames
<1>3. asked \/ decayed
  BY <1>2 DEF IInv, Ordered, Busy, BurnFuse
<1>4. boot_slot = 1 - Parity
  BY <1>1, <1>2
<1>5. Parity' = 1 - Parity
  BY <1>1, Burnt DEF BurnFuse, Parity
<1>6. 1 - Parity' = Parity
  BY <1>2, <1>5
<1>7. UNCHANGED <<slot, decayed>> /\ asked' = FALSE
  BY DEF BurnFuse
<1> QED
  BY <1>1, <1>3, <1>4, <1>5, <1>6, <1>7 DEF Promise!Switch, Promise!Allowed

LEMMA DecaySeen ==
    ASSUME IInv, NEW s \in 0..1, Decay(s)
    PROVE  Promise!Decay
<1>1. Parity \in 0..1 /\ 1 - Parity \in 0..1 /\ 1 - Parity # Parity /\ slot \in [0..1 -> Contents]
  BY SlotNames DEF IInv, TypeOK
<1>2. /\ slot' = [slot EXCEPT ![s] = Torn] /\ decayed' = TRUE
      /\ UNCHANGED <<Parity, asked>>
  BY DEF Decay, Parity
<1>3. CASE s = Parity
  BY <1>1, <1>2, <1>3 DEF Promise!Decay
<1>4. CASE s = 1 - Parity
  BY <1>1, <1>2, <1>4 DEF Promise!Decay
<1> QED
  BY <1>1, <1>3, <1>4

LEMMA StepSeen == IInv /\ [Next]_vars => [Promise!Next]_(Promise!vars)
<1> SUFFICES ASSUME IInv, [Next]_vars PROVE [Promise!Next]_(Promise!vars)
  OBVIOUS
<1>1. CASE UpdateBlock
  BY <1>1, WriteSeen DEF Promise!Next
<1>2. CASE BurnFuse
  BY <1>2, BurnSeen DEF Promise!Next
<1>3. CASE EraseFuses
  <2>1. UNCHANGED <<slot, Parity, decayed, asked>>
    BY <1>3, Erased DEF EraseFuses, Parity
  <2> QED
    BY <2>1 DEF Promise!vars
<1>4. ASSUME NEW c \in Commands, Command(c) PROVE [Promise!Next]_(Promise!vars)
  <2>1. CASE asked' = asked
    BY <1>4, <2>1, NothingSeen DEF Command, flash
  <2>2. CASE asked' # asked
    <3>1. asked' = TRUE /\ UNCHANGED <<slot, Parity, decayed>>
      BY <1>4, <2>2 DEF Command, flash, Parity, IInv, TypeOK
    <3> QED
      BY <3>1 DEF Promise!Grant, Promise!Next
  <2> QED
    BY <2>1, <2>2
<1>5. ASSUME NEW s \in 0..1, Decay(s) PROVE Promise!Decay
  BY <1>5, DecaySeen
<1>6. CASE \/ FirstBoot \/ NextBoot \/ TriesExhausted \/ WatchdogBites \/ Start \/ Fail
           \/ FastCheck \/ ClearOrder \/ ClearFails \/ Validate \/ UpdateFails \/ UpdateDone
  BY <1>6, NothingSeen
     DEF FirstBoot, NextBoot, TriesExhausted, WatchdogBites, Start, Fail, FastCheck, ClearOrder,
         ClearFails, Validate, UpdateFails, UpdateDone, flash
<1>7. CASE Rewrite \/ RewriteStops \/ GlitchFails \/ Glitched \/ PowerLoss \/ UNCHANGED vars
  BY <1>7, NothingSeen
     DEF Rewrite, RewriteStops, GlitchFails, Glitched, PowerLoss, vars, flash
<1> QED
  BY <1>1, <1>2, <1>3, <1>4, <1>5, <1>6, <1>7 DEF Next, Chip, Promise!Next

\* The slots, the fuses and the tries implement an update that never touches the
\* current image and gives it up only for one that works
\* (startup_from_slot, update_firmware, burn_fuse).
THEOREM Refinement == Spec => Implements
<1>1. Init => Promise!Init
  <2> SUFFICES ASSUME Init PROVE Promise!Init
    OBVIOUS
  <2>1. PICK i \in Glitching : slot = [s \in 0..1 |-> IF s = 0 THEN i ELSE Torn]
    BY DEF Init
  <2>2. Parity = 0 /\ 1 - Parity = 1
    BY DEF Init, Parity
  <2> QED
    BY <2>1, <2>2 DEF Init, Promise!Init
<1> QED
  BY <1>1, StepSeen, Invariance, PTL DEF Spec, Implements, Promise!Spec

-----------------------------------------------------------------------------
(* Every step brings the end nearer. *)

\* A step within a try.
LEMMA SameTry ==
    ASSUME boot' = boot, pc # "boot", pc' # "boot"
    PROVE  Try' = Try
BY DEF Try, boot

\* The tries of the boot loader count on.
LEMMA BootNearer ==
    ASSUME TypeOK, FirstBoot \/ NextBoot \/ TriesExhausted
    PROVE  Nearer
<1>1. CASE FirstBoot
  <2>1. Try = 0 /\ boot_try' = 0
    BY <1>1 DEF FirstBoot, Try
  <2>2. pc' = "boot" => cause' = "watchdog"
    BY <1>1 DEF FirstBoot, Startup
  <2>3. Try' = 1
    BY <2>1, <2>2 DEF Try
  <2> QED
    BY <2>1, <2>3 DEF Nearer
<1>2. CASE NextBoot
  <2>1. Try = boot_try + 1 /\ boot_try' = boot_try + 1 /\ boot_try \in 0..3
    BY <1>2 DEF NextBoot, Try, TypeOK
  <2>2. cause' = "watchdog"
    BY <1>2 DEF NextBoot, Startup
  <2>3. Try' = boot_try + 2
    BY <2>1, <2>2 DEF Try
  <2> QED
    BY <2>1, <2>3 DEF Nearer
<1>3. CASE TriesExhausted
  <2>1. Try' = Try
    BY <1>3 DEF TriesExhausted, Try, boot
  <2>2. Left = 1 /\ Left' = 0
    BY <1>3 DEF TriesExhausted, Left
  <2> QED
    BY <2>1, <2>2 DEF Nearer
<1> QED
  BY <1>1, <1>2, <1>3

\* A restart ends a try and begins none.
LEMMA RestartNearer ==
    ASSUME WatchdogBites \/ UpdateDone
    PROVE  Nearer
<1>1. Try' = Try
  BY DEF WatchdogBites, UpdateDone, Try
<1>2. Left \in {7, 11} /\ Left' = 1
  BY DEF WatchdogBites, UpdateDone, Left
<1> QED
  BY <1>1, <1>2 DEF Nearer

\* In a try the firmware goes on.
LEMMA TryNearer ==
    ASSUME TypeOK,
           \/ Start \/ Fail \/ FastCheck \/ ClearOrder \/ ClearFails \/ Validate \/ UpdateFails
           \/ Rewrite \/ RewriteStops \/ GlitchFails \/ Glitched
    PROVE  Nearer
<1>1. Try' = Try
  BY SameTry DEF Start, Fail, FastCheck, ClearOrder, ClearFails, Validate, UpdateFails,
     Rewrite, RewriteStops, GlitchFails, Glitched
<1>2. CASE Start \/ Fail \/ FastCheck \/ ClearOrder \/ ClearFails \/ Validate \/ UpdateFails
  <2>1. Left' < Left
    BY <1>2 DEF Left, Start, Fail, FastCheck, ClearOrder, ClearFails, Validate, UpdateFails
  <2> QED
    BY <1>1, <2>1 DEF Nearer
<1>3. CASE Rewrite \/ RewriteStops \/ GlitchFails \/ Glitched
  <2>1. Left' < Left
    BY <1>3 DEF Left, Rewrite, RewriteStops, GlitchFails, Glitched
  <2> QED
    BY <1>1, <2>1 DEF Nearer
<1> QED
  BY <1>2, <1>3

\* What is written to flash is counted, and fuses are erased once all are burnt.
LEMMA FlashNearer ==
    ASSUME TypeOK, UpdateBlock \/ BurnFuse \/ EraseFuses
    PROVE  Nearer
<1>1. Try' = Try
  BY SameTry DEF UpdateBlock, BurnFuse, EraseFuses
<1>2. CASE UpdateBlock
  <2>1. Left' = Left /\ left' < left
    BY <1>2, BlocksAssumption DEF UpdateBlock, Left, TypeOK
  <2> QED
    BY <1>1, <1>2, <2>1 DEF Nearer, UpdateBlock
<1>3. CASE BurnFuse
  <2>1. Left' < Left
    BY <1>3 DEF BurnFuse, Left
  <2> QED
    BY <1>1, <2>1 DEF Nearer
<1>4. CASE EraseFuses
  <2>1. Left' = Left /\ fuses' < fuses
    BY <1>4, FuseCapAssumption DEF EraseFuses, Left
  <2> QED
    BY <1>1, <1>4, <2>1 DEF Nearer, EraseFuses
<1> QED
  BY <1>2, <1>3, <1>4

\* Whatever is in the slots and in block 1, no step of the chip can be repeated
\* without end: four tries, and in each a bounded number of steps
\* (startup_from_slot, fast_check, update_firmware, burn_fuse).
THEOREM AlwaysNearer == Spec => Progress
<1>1. TypeOK /\ [Next]_vars => [Chip => Nearer]_vars
  BY BootNearer, RestartNearer, TryNearer, FlashNearer DEF Chip
<1> QED
  BY <1>1, TypeCorrect, PTL DEF Spec, Progress
=============================================================================
