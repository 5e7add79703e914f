------------------------------ MODULE UskConfig ------------------------------
(***************************************************************************)
(* The configuration of the firmware in flash (firmware/usk/config.c) and  *)
(* what main.c does with it to start the console.  Page 0 says whose       *)
(* console the payload was written for; each offset of the glitch has a    *)
(* page whose bits are cleared one by one, once for every start that it    *)
(* led to.  The offsets with a record are tried first, the heaviest first, *)
(* then all of them in random order.                                       *)
(*                                                                         *)
(* An offset is its index, from 1: the page it has.  A sector is erased as *)
(* a whole and a page programmed as a whole; power may be lost between any *)
(* two.  The chip may be moved to another console, or updated, while it is *)
(* off.  The writing of the payload is one step here: module Payload has   *)
(* its blocks.                                                             *)
(***************************************************************************)
EXTENDS Glitch

CONSTANTS
    Consoles,     \* a console's CID with the firmware version and payload CRC
    None,         \* the owner of a page 0 that is_inited() does not accept
    OffsetCnt,    \* OFFSET_CNT
    PagesPerSector, \* 16
    RecordMax,    \* 2048, the bits of a page
    RecordEdges,  \* 3
    RandomEdges   \* 4

ASSUME ConsolesAssumption == None \notin Consoles
ASSUME CountsAssumption ==
    /\ OffsetCnt \in Nat \ {0} /\ PagesPerSector \in Nat \ {0}
    /\ RecordMax \in Nat \ {0}
ASSUME EdgesAssumption == RecordEdges \in Nat /\ RandomEdges \in Nat

Offsets == 1..OffsetCnt
SectorOf(o) == o \div PagesPerSector
LastSector == SectorOf(OffsetCnt)
Weights == [Offsets -> 0..RecordMax]

VARIABLES
    pc,           \* where main is
    console,      \* what is_configured compares page 0 with
    owner,        \* page 0: cid, versions and pcrc; None when blank
    lock, i2c,    \* page 0: the flags
    weight,       \* get_weigth of each page
    sector,       \* the sector erase_config comes to next
    full_try, round, \* main's full_try, and its y or z
    max_weight, last_weight, last_offset,
    offset,       \* the offset that is tried
    left,         \* offsets_array from y on
    tried,        \* history: the offsets tried in this round
    from          \* history: the consoles each offset's record counts starts of

page0 == <<owner, lock, i2c>>
records == <<weight, from>>
search == <<full_try, round, max_weight, last_weight, last_offset, offset, left, tried>>
vars == <<pc, console, page0, records, sector, search, glitch>>

TypeOK ==
    /\ pc \in {"start", "rewrite", "erase", "init", "saved", "random", "leds"}
    /\ console \in Consoles
    /\ owner \in Consoles \cup {None}
    /\ lock \in BOOLEAN /\ i2c \in BOOLEAN
    /\ weight \in Weights
    /\ sector \in 0..LastSector
    /\ full_try \in 0..1 /\ round \in 0..1
    /\ max_weight \in -1..RecordMax /\ last_weight \in -1..RecordMax
    /\ last_offset \in -1..OffsetCnt
    /\ offset \in 0..OffsetCnt
    /\ left \subseteq Offsets /\ tried \subseteq Offsets
    /\ from \in [Offsets -> SUBSET Consoles]
    /\ GlitchTypeOK({0, RecordEdges, RandomEdges})

-----------------------------------------------------------------------------
\* Erased flash.
Init ==
    /\ pc = "start" /\ console \in Consoles
    /\ owner = None /\ lock = FALSE /\ i2c = FALSE
    /\ weight = [o \in Offsets |-> 0] /\ from = [o \in Offsets |-> {}]
    /\ sector = 0
    /\ full_try = 0 /\ round = 0
    /\ max_weight = -1 /\ last_weight = -1 /\ last_offset = 0
    /\ offset = 0 /\ left = {} /\ tried = {}
    /\ GlitchInit

\* Seeded fault: any configuration will do.
is_inited == owner # None
is_configured == owner = console

\* main up to the glitch: a self test that fails; a payload that is rewritten,
\* for another console or firmware, on the button or for a system update.
Start ==
    /\ pc = "start"
    /\ pc' \in {"leds", "rewrite"} \cup (IF is_configured THEN {"saved"} ELSE {})
    /\ UNCHANGED <<console, page0, records, sector, search, glitch>>

\* write_payload, which goes on to init_config or ends in a code.
Rewrite ==
    /\ pc = "rewrite"
    /\ pc' \in {"erase", "leds"}
    /\ UNCHANGED <<console, page0, records, sector, search, glitch>>

-----------------------------------------------------------------------------
(* init_config *)

EraseRecords(s) ==
    /\ weight' = [o \in Offsets |-> IF SectorOf(o) = s THEN 0 ELSE weight[o]]
    /\ from' = [o \in Offsets |-> IF SectorOf(o) = s THEN {} ELSE from[o]]

ErasePage0 == owner' = None /\ lock' = FALSE /\ i2c' = FALSE

\* Seeded faults: the last sector, which is used in part, is left out; the
\* sectors are erased from the last to the first.
EraseSectorShort ==
    /\ pc = "erase"
    /\ EraseRecords(sector)
    /\ IF sector = 0 THEN ErasePage0 ELSE UNCHANGED page0
    /\ IF sector < LastSector - 1
       THEN sector' = sector + 1 /\ pc' = pc
       ELSE sector' = 0 /\ pc' = "init"
    /\ UNCHANGED <<console, search, glitch>>
EraseSectorBackwards ==
    /\ pc = "erase"
    /\ EraseRecords(LastSector - sector)
    /\ IF sector = LastSector THEN ErasePage0 ELSE UNCHANGED page0
    /\ IF sector < LastSector
       THEN sector' = sector + 1 /\ pc' = pc
       ELSE sector' = 0 /\ pc' = "init"
    /\ UNCHANGED <<console, search, glitch>>

\* One sector of erase_config; the first holds page 0.
EraseSector ==
    /\ pc = "erase"
    /\ EraseRecords(sector)
    /\ IF sector = 0 THEN ErasePage0 ELSE UNCHANGED page0
    /\ IF sector < LastSector
       THEN sector' = sector + 1 /\ pc' = pc
       ELSE sector' = 0 /\ pc' = "init"
    /\ UNCHANGED <<console, search, glitch>>

\* The rounds over the records start.
BeginSaved ==
    /\ pc' = "saved" /\ round' = 0
    /\ max_weight' = -1 /\ tried' = {}

InitPage ==
    /\ pc = "init"
    /\ owner' = console
    /\ BeginSaved
    /\ UNCHANGED <<console, lock, i2c, records, sector, full_try, last_weight, last_offset,
                   offset, left, glitch>>

-----------------------------------------------------------------------------
(* The records: find_best_record *)

Recorded == {o \in Offsets : weight[o] > 0}

\* Seeded faults: of several records of a weight only the first is found; the
\* one that was found is found again.
CandidatesUntied ==
    {o \in Recorded : max_weight = -1 \/ weight[o] < max_weight}
CandidatesAgain ==
    {o \in Recorded :
        \/ max_weight = -1 \/ weight[o] < max_weight
        \/ weight[o] = max_weight /\ max_weight = last_weight /\ last_offset <= o}

\* What the call may still find: what is lighter than the last one, or as heavy
\* and further on.
Candidates ==
    {o \in Recorded :
        \/ max_weight = -1 \/ weight[o] < max_weight
        \/ weight[o] = max_weight /\ max_weight = last_weight /\ last_offset < o}

\* o is tried before p: it is heavier, or as heavy and comes first.
Before(o, p) == weight[o] > weight[p] \/ (weight[o] = weight[p] /\ o < p)

Between == outcome \in {"idle", "exhausted"}

FindRecord(o) ==
    /\ pc = "saved" /\ Between
    /\ o \in Candidates /\ \A p \in Candidates \ {o} : Before(o, p)
    /\ offset' = o /\ tried' = tried \cup {o}
    /\ max_weight' = weight[o] /\ last_weight' = weight[o] /\ last_offset' = o
    /\ Begin(RecordEdges)
    /\ UNCHANGED <<pc, console, page0, records, sector, full_try, round, left>>

\* -1: the round is over, and after the second one come the random ones.
NoRecord ==
    /\ pc = "saved" /\ Between /\ Candidates = {}
    /\ last_weight' = 0 /\ last_offset' = -1
    /\ max_weight' = -1 /\ tried' = {} /\ round' = 1 - round
    /\ IF round = 0
       THEN pc' = pc /\ left' = left
       ELSE pc' = "random" /\ left' = Offsets
    /\ UNCHANGED <<console, page0, records, sector, full_try, offset, glitch>>

-----------------------------------------------------------------------------
(* The random rounds: prepare_random_array *)

PickOffset(o) ==
    /\ pc = "random" /\ Between
    /\ o \in left
    /\ left' = left \ {o}
    /\ offset' = o /\ tried' = tried \cup {o}
    /\ Begin(RandomEdges)
    /\ UNCHANGED <<pc, console, page0, records, sector, full_try, round,
                   max_weight, last_weight, last_offset>>

\* After two random rounds the payload is rewritten, and after two more the
\* chip gives up.
RoundDone ==
    /\ pc = "random" /\ Between /\ left = {}
    /\ tried' = {} /\ round' = 1 - round
    /\ IF round = 0 THEN pc' = pc /\ left' = Offsets /\ full_try' = full_try
       ELSE /\ left' = left
            /\ IF full_try = 0 THEN pc' = "rewrite" /\ full_try' = 1
               ELSE pc' = "leds" /\ full_try' = full_try
    /\ UNCHANGED <<console, page0, records, sector, max_weight, last_weight, last_offset,
                   offset, glitch>>

-----------------------------------------------------------------------------
Glitching(gres) ==
    /\ Pulse(gres)
    /\ UNCHANGED <<pc, console, page0, records, sector, search>>

\* finish_with_code(4), (5) and (6)
Stop ==
    /\ outcome \in Stops
    /\ pc' = "leds" /\ outcome' = "idle"
    /\ UNCHANGED <<console, page0, records, sector, search, width, tries,
                   step, edges, missing_count, last_res, edge_limit>>

\* Seeded fault: a counter that is full counts on.
AddRecordUnbounded ==
    /\ outcome = "glitched"
    /\ IF lock THEN UNCHANGED <<lock, records>>
       ELSE /\ weight' = [weight EXCEPT ![offset] = @ + 1]
            /\ from' = [from EXCEPT ![offset] = @ \cup {console}]
            /\ lock' = lock
    /\ pc' = "leds" /\ outcome' = "idle"
    /\ UNCHANGED <<console, owner, i2c, sector, search, width, tries,
                   step, edges, missing_count, last_res, edge_limit>>

\* add_boot_record: the next bit of the page, or, when there is none, the lock,
\* which ends all counting.
AddRecord ==
    /\ outcome = "glitched"
    /\ IF lock THEN UNCHANGED <<lock, records>>
       ELSE IF weight[offset] < RecordMax
       THEN /\ weight' = [weight EXCEPT ![offset] = @ + 1]
            /\ from' = [from EXCEPT ![offset] = @ \cup {console}]
            /\ lock' = lock
       ELSE lock' = TRUE /\ UNCHANGED records
    /\ pc' = "leds" /\ outcome' = "idle"
    /\ UNCHANGED <<console, owner, i2c, sector, search, width, tries,
                   step, edges, missing_count, last_res, edge_limit>>

\* leds_mode takes the first state of an I2C master.
set_i2c_configured ==
    /\ pc = "leds" /\ ~i2c
    /\ i2c' = TRUE
    /\ UNCHANGED <<pc, console, owner, lock, records, sector, search, glitch>>

\* Power goes; when it comes back the console, its eMMC or the firmware may be
\* another.
PowerLoss ==
    /\ pc' = "start" /\ console' \in Consoles
    /\ sector' = 0
    /\ full_try' = 0 /\ round' = 0
    /\ max_weight' = -1 /\ last_weight' = -1 /\ last_offset' = 0
    /\ offset' = 0 /\ left' = {} /\ tried' = {}
    /\ width' = StartWidth /\ tries' = 0 /\ End("idle")
    /\ UNCHANGED <<page0, records>>

-----------------------------------------------------------------------------
Chip ==
    \/ Start \/ Rewrite \/ EraseSector \/ InitPage
    \/ \E o \in Offsets : FindRecord(o) \/ PickOffset(o)
    \/ NoRecord \/ RoundDone
    \/ \E gres \in Results : Glitching(gres)
    \/ Stop \/ AddRecord

Next == Chip \/ set_i2c_configured \/ PowerLoss

Spec == Init /\ [][Next]_vars

(***************************************************************************)
(* Safety                                                                  *)
(***************************************************************************)

\* The records of a configuration that is accepted are of the console it is
\* accepted for, wherever the erasing of the ones before was cut off: the chip
\* does not follow what worked for another.
RecordsOwn ==
    owner # None => \A o \in Offsets : from[o] \subseteq {owner}

\* Counting is locked only as long as the counter that locked it is full: no
\* loss of power leaves a lock with nothing behind it.
LockedWhenFull == lock => \E o \in Offsets : weight[o] = RecordMax

\* Of the records not yet tried in a round the heaviest is tried, the first of
\* those, and none is tried again.
BestFirst ==
    [][pc = "saved" /\ Between /\ outcome' = "busy" =>
          /\ offset' \notin tried
          /\ \A p \in Recorded \ tried' : Before(offset', p)]_vars

\* No round ends before every offset that is due in it was tried: every one
\* with a record, or every one there is.
RoundsComplete ==
    [][pc' # "start" /\ Between /\ (round' # round \/ pc' # pc) =>
          /\ pc = "saved" => tried = Recorded
          /\ pc = "random" => tried = Offsets]_vars

(***************************************************************************)
(* What the configuration promises                                         *)
(***************************************************************************)

\* What the pages say to a reader: without an owner he does not look at them.
Visible == [o \in Offsets |-> IF owner = None THEN 0 ELSE weight[o]]

Promise == INSTANCE BootRecords WITH
    lock <- owner # None /\ lock,
    count <- Visible

\* However the erasing, the writing of page 0 and the counting are cut off, and
\* wherever the chip goes next, the configuration changes as one store that is
\* given up at once, taken over empty, and counted in for its own console only.
Implements == Promise!Spec

(***************************************************************************)
(* Progress                                                                *)
(***************************************************************************)

\* What is left of a start: the two passes over the rounds.
Left ==
    CASE pc = "start" -> 16
      [] pc = "leds"  -> 0
      [] OTHER -> (IF full_try = 0 THEN 8 ELSE 0) +
                  CASE pc = "rewrite" -> 7
                    [] pc = "erase"   -> 6
                    [] pc = "init"    -> 5
                    [] pc = "saved"   -> 4 - round
                    [] pc = "random"  -> 2 - round

\* The search narrows, or counts an edge, or goes on towards the limit that it was
\* going towards.
Narrows ==
    \/ step' < step
    \/ step' = step /\ edges' > edges
    \/ /\ step' = step /\ edges' = edges
       /\ \/ last_res = "success" /\ last_res' # "success"
          \/ last_res = "failure" /\ last_res' = "failure" /\ width' > width
          \/ last_res = "timeout" /\ last_res' = "timeout" /\ width' < width

\* Nearer to the end: in the start, else in the sectors or the offsets of a round,
\* else in an attempt.
Nearer ==
    \/ Left' < Left
    \/ /\ Left' = Left
       /\ \/ pc = "erase" /\ sector' > sector
          \/ tried \subseteq tried' /\ tried # tried'
          \/ tried' = tried /\ outcome = "busy" /\ outcome' # "busy"
          \/ tried' = tried /\ outcome = "busy" /\ outcome' = "busy" /\ Narrows

\* But for pulses that the eMMC does not answer, which hide an edge of the search,
\* each step of the chip brings the end of the start nearer, and no result of a
\* pulse is without effect on the search.
Progress ==
    [][Chip /\ "missing" \notin {last_res, last_res'} => Nearer]_vars

(***************************************************************************)
(* Liveness.  Only the loss of power stops the chip between two steps.     *)
(***************************************************************************)
FairSpec == Spec /\ WF_vars(Chip)

\* With power, the search ends, whatever the pulses give, unless the eMMC now
\* and then misses one for ever: each miss hides an edge, and fewer than five in
\* a row stop nothing.
ComesToRest ==
    <>[][~PowerLoss /\ ~Glitching("missing")]_vars => <>[](pc = "leds")
=============================================================================
