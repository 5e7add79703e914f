--------------------------- MODULE UskConfigProofs ---------------------------
(***************************************************************************)
(* For every number of offsets, pages of every size and any consoles: the  *)
(* records are those of the console that owns the page, the lock has a     *)
(* full counter behind it, and a round tries what is due in it, the best   *)
(* first.                                                                  *)
(***************************************************************************)
EXTENDS UskConfig, TLAPS

Blank(o) == weight[o] = 0 /\ from[o] = {}

\* What erase_config has behind it is blank, page 0 first of all.
ErasedSoFar ==
    /\ pc # "erase" => sector = 0
    /\ pc = "erase" /\ sector > 0 => owner = None /\ ~lock
    /\ pc = "erase" => \A o \in Offsets : SectorOf(o) < sector => Blank(o)
    /\ pc = "init" => owner = None /\ ~lock /\ \A o \in Offsets : Blank(o)

\* Attempts are made only for the console that page 0 names, at an offset.
AttemptsOwn ==
    /\ pc \in {"saved", "random"} => owner = console
    /\ ~Between => pc \in {"saved", "random"} /\ offset \in Offsets

\* The records that are no lighter than the last one found and, if as heavy, not
\* after it.
UpToLast ==
    {o \in Recorded : weight[o] > max_weight \/ (weight[o] = max_weight /\ o <= last_offset)}

\* max_weight, last_weight and last_offset stand for the offsets tried.
SavedInOrder ==
    \/ max_weight = -1 /\ tried = {}
    \/ max_weight > 0 /\ last_weight = max_weight /\ last_offset \in Offsets /\ tried = UpToLast

RoundSoFar ==
    /\ pc = "start" => max_weight = -1 /\ tried = {}
    /\ pc = "saved" => SavedInOrder
    /\ pc = "random" => tried = Offsets \ left

IInv ==
    /\ TypeOK /\ RecordsOwn /\ LockedWhenFull
    /\ ErasedSoFar /\ AttemptsOwn /\ RoundSoFar

-----------------------------------------------------------------------------
(* Sectors *)

\* Division keeps the order.
LEMMA DivMonotone ==
    ASSUME NEW a \in Nat, NEW b \in Nat, NEW p \in Nat \ {0}, a <= b
    PROVE  a \div p \in Nat /\ a \div p <= b \div p
<1> DEFINE qa == a \div p
           qb == b \div p
           ra == a % p
           rb == b % p
<1>1. /\ qa \in Int /\ ra \in 0..(p - 1) /\ a = p * qa + ra
      /\ qb \in Int /\ rb \in 0..(p - 1) /\ b = p * qb + rb
  BY SMT
<1> HIDE DEF qa, qb, ra, rb
<1>2. qa >= 0
  <2> SUFFICES ASSUME qa <= -1 PROVE FALSE
    BY <1>1
  <2>1. p * qa <= p * (-1)
    BY <1>1, SMT
  <2> QED
    BY <1>1, <2>1
<1>3. qa <= qb
  <2> SUFFICES ASSUME qb + 1 <= qa PROVE FALSE
    BY <1>1
  <2>1. p * (qb + 1) <= p * qa
    BY <1>1, SMT
  <2>2. p * (qb + 1) = p * qb + p
    BY <1>1, SMT
  <2> QED
    BY <1>1, <2>1, <2>2
<1> QED
  BY <1>1, <1>2, <1>3 DEF qa, qb

\* The pages of all offsets are in the sectors that are erased.
LEMMA SectorsReach ==
    LastSector \in Nat /\ \A o \in Offsets : SectorOf(o) \in 0..LastSector
<1>1. LastSector \in Nat
  BY DivMonotone, CountsAssumption DEF LastSector, SectorOf
<1>2. ASSUME NEW o \in Offsets PROVE SectorOf(o) \in 0..LastSector
  <2>1. o \in Nat /\ OffsetCnt \in Nat /\ PagesPerSector \in Nat \ {0} /\ o <= OffsetCnt
    BY CountsAssumption DEF Offsets
  <2>2. SectorOf(o) \in Nat /\ SectorOf(o) <= LastSector
    BY <2>1, DivMonotone DEF SectorOf, LastSector
  <2> QED
    BY <1>1, <2>2
<1> QED
  BY <1>1, <1>2

-----------------------------------------------------------------------------
(* The attempt *)

\* A turn of the loop keeps the width and the search within their bounds.
LEMMA PulseTyped ==
    ASSUME NEW limits, limits \subseteq Nat, 0 \in limits,
           GlitchTypeOK(limits), NEW gres \in Results, Pulse(gres)
    PROVE  GlitchTypeOK(limits)'
<1>0. /\ width \in Int /\ step \in 1..FirstStep /\ edges \in Nat
      /\ edge_limit \in limits /\ edge_limit \in Nat
      /\ FirstStep \in Nat /\ MaxWidth \in Nat
  BY StepAssumption, WidthAssumption DEF GlitchTypeOK
<1>1. ASSUME NEW o, End(o), o \in {"idle", "glitched", "exhausted"} \cup Stops,
             width' \in 1..(MaxWidth + FirstStep), tries' = tries
      PROVE  GlitchTypeOK(limits)'
  BY <1>0, <1>1, StepAssumption, MissingAssumption DEF GlitchTypeOK, End, Results
<1>2. CASE PulseStops(gres)
  <2>1. PICK o \in Stops : End(o) /\ width' = width /\ tries' = tries
    BY <1>2 DEF PulseStops, Stops
  <2> QED
    BY <2>1, <1>1 DEF GlitchTypeOK
<1>3. ASSUME ~(NoAnswer(gres) \/ AtLimit)
      PROVE  /\ NewStep(gres) \in 1..FirstStep
             /\ NewWidth(gres) \in 1..(MaxWidth + FirstStep)
             /\ NewEdges(gres) \in Nat
  <2>1. NewStep(gres) \in 1..FirstStep
    <3>1. step # 1 => step \div 2 \in 1..step
      BY <1>0
    <3> QED
      BY <1>0, <3>1 DEF NewStep
  <2>2. width \in 2..(MaxWidth - 1)
    BY <1>0, <1>3 DEF AtLimit, GlitchTypeOK
  <2>3. NewWidth(gres) \in 1..(MaxWidth + FirstStep)
    <3>1. width + NewStep(gres) \in 1..(MaxWidth + FirstStep)
      BY <1>0, <2>1, <2>2
    <3>2. (IF width - NewStep(gres) <= 1 THEN 1 ELSE width - NewStep(gres))
              \in 1..(MaxWidth + FirstStep)
      BY <1>0, <2>1, <2>2
    <3>3. width \in 1..(MaxWidth + FirstStep)
      BY <1>0, <2>2
    <3> QED
      BY <3>1, <3>2, <3>3 DEF NewWidth
  <2>4. NewEdges(gres) \in Nat
    BY <1>0 DEF NewEdges
  <2> QED
    BY <2>1, <2>3, <2>4
<1>4. CASE PulseEnds(gres)
  <2>1. PICK o \in {"glitched", "exhausted"} : End(o) /\ width' = NewWidth(gres) /\ tries' = tries
    BY <1>4 DEF PulseEnds
  <2>2. width' \in 1..(MaxWidth + FirstStep)
    BY <1>3, <1>4, <2>1 DEF PulseEnds
  <2> QED
    BY <2>1, <2>2, <1>1
<1>5. CASE PulseGoesOn(gres)
  <2>1. missing_count' \in 0..(MissingLimit - 1)
    BY <1>5, MissingAssumption DEF PulseGoesOn, NoAnswer, GlitchTypeOK
  <2>2. edges' \in 0..edge_limit'
    BY <1>0, <1>3, <1>5 DEF PulseGoesOn
  <2>3. width' \in 1..(MaxWidth + FirstStep) /\ step' \in 1..FirstStep
    BY <1>3, <1>5 DEF PulseGoesOn
  <2>4. last_res' \in Results /\ UNCHANGED <<tries, edge_limit, outcome>>
    BY <1>5 DEF PulseGoesOn
  <2> QED
    BY <2>1, <2>2, <2>3, <2>4 DEF GlitchTypeOK
<1> QED
  BY <1>2, <1>4, <1>5 DEF Pulse

\* The call starts with a step the search allows.
LEMMA BeginTyped ==
    ASSUME NEW limits, limits \subseteq Nat, GlitchTypeOK(limits), NEW limit \in limits, Begin(limit)
    PROVE  GlitchTypeOK(limits)'
  BY StepAssumption, MissingAssumption DEF GlitchTypeOK, Begin, Results

\* What ends a call outside it.
LEMMA IdleTyped ==
    ASSUME NEW limits, limits \subseteq Nat, 0 \in limits, GlitchTypeOK(limits),
           \/ End("idle") /\ width' = StartWidth /\ tries' = 0
           \/ outcome' = "idle" /\ UNCHANGED <<width, tries, step, edges, missing_count, last_res, edge_limit>>
           \/ UNCHANGED glitch
    PROVE  GlitchTypeOK(limits)'
<1>1. CASE End("idle") /\ width' = StartWidth /\ tries' = 0
  BY <1>1, StepAssumption, WidthAssumption, MissingAssumption DEF GlitchTypeOK, End, Results
<1>2. CASE outcome' = "idle" /\ UNCHANGED <<width, tries, step, edges, missing_count, last_res, edge_limit>>
  BY <1>2 DEF GlitchTypeOK
<1>3. CASE UNCHANGED glitch
  BY <1>3 DEF GlitchTypeOK, glitch, attempt
<1> QED
  BY <1>1, <1>2, <1>3

-----------------------------------------------------------------------------
(* Types *)

EdgeLimits == {0, RecordEdges, RandomEdges}

LEMMA EdgeLimitsNat == EdgeLimits \subseteq Nat /\ 0 \in EdgeLimits
  BY EdgesAssumption DEF EdgeLimits

\* TypeOK but for the glitch.
RestTypeOK ==
    /\ pc \in {"start", "rewrite", "erase", "init", "saved", "random", "leds"}
    /\ console \in Consoles
    /\ owner \in Consoles \cup {None}
    /\ lock \in BOOLEAN /\ i2c \in BOOLEAN
    /\ weight \in Weights
    /\ sector \in 0..LastSector
    /\ full_try \in 0..1 /\ round \in 0..1
    /\ max_weight \in -1..RecordMax /\ last_weight \in -1..RecordMax
    /\ last_offset \in -1..OffsetCnt
    /\ offset \in 0..OffsetCnt
    /\ left \subseteq Offsets /\ tried \subseteq Offsets
    /\ from \in [Offsets -> SUBSET Consoles]

LEMMA TypeParts == TypeOK <=> RestTypeOK /\ GlitchTypeOK(EdgeLimits)
  BY DEF TypeOK, RestTypeOK, EdgeLimits

LEMMA TypeInit == Init => TypeOK
<1> SUFFICES ASSUME Init PROVE TypeOK
  OBVIOUS
<1>1. GlitchTypeOK(EdgeLimits)
  BY EdgeLimitsNat, StepAssumption, WidthAssumption, MissingAssumption
     DEF Init, GlitchInit, NoAttempt, GlitchTypeOK, Results
<1>2. RestTypeOK
  <2>1. RecordMax \in Nat /\ OffsetCnt \in Nat /\ LastSector \in Nat
    BY SectorsReach, CountsAssumption
  <2>2. weight \in Weights /\ from \in [Offsets -> SUBSET Consoles]
    BY <2>1 DEF Init, Weights
  <2>3. /\ sector \in 0..LastSector /\ full_try \in 0..1 /\ round \in 0..1
        /\ max_weight \in -1..RecordMax /\ last_weight \in -1..RecordMax
        /\ last_offset \in -1..OffsetCnt /\ offset \in 0..OffsetCnt
    BY <2>1 DEF Init
  <2>4. /\ pc = "start" /\ console \in Consoles /\ owner = None
        /\ lock \in BOOLEAN /\ i2c \in BOOLEAN
        /\ left \subseteq Offsets /\ tried \subseteq Offsets
    BY DEF Init
  <2> QED
    BY <2>2, <2>3, <2>4 DEF RestTypeOK
<1> QED
  BY <1>1, <1>2, TypeParts

\* The glitch is typed after every step.
LEMMA GlitchStep ==
    ASSUME GlitchTypeOK(EdgeLimits), [Next]_vars
    PROVE  GlitchTypeOK(EdgeLimits)'
<1>1. CASE \E o \in Offsets : FindRecord(o) \/ PickOffset(o)
  <2>1. Begin(RecordEdges) \/ Begin(RandomEdges)
    BY <1>1 DEF FindRecord, PickOffset
  <2> QED
    BY <2>1, EdgeLimitsNat, BeginTyped DEF EdgeLimits
<1>2. CASE \E gres \in Results : Glitching(gres)
  BY <1>2, EdgeLimitsNat, PulseTyped DEF Glitching
<1>3. CASE PowerLoss
  BY <1>3, EdgeLimitsNat, IdleTyped DEF PowerLoss
<1>4. CASE Stop \/ AddRecord
  BY <1>4, EdgeLimitsNat, IdleTyped DEF Stop, AddRecord
<1>5. CASE Start \/ Rewrite \/ EraseSector \/ InitPage \/ NoRecord \/ RoundDone \/ set_i2c_configured
  <2>1. UNCHANGED glitch
    BY <1>5 DEF Start, Rewrite, EraseSector, InitPage, NoRecord, RoundDone, set_i2c_configured
  <2> QED
    BY <2>1, EdgeLimitsNat, IdleTyped
<1>6. CASE UNCHANGED vars
  <2>1. UNCHANGED glitch
    BY <1>6 DEF vars
  <2> QED
    BY <2>1, EdgeLimitsNat, IdleTyped
<1> QED
  BY <1>1, <1>2, <1>3, <1>4, <1>5, <1>6 DEF Next, Chip

LEMMA RestStep ==
    ASSUME RestTypeOK, AttemptsOwn, [Next]_vars
    PROVE  RestTypeOK'
<1> USE DEF RestTypeOK, page0, records, search
<1>0. OffsetCnt \in Nat \ {0} /\ RecordMax \in Nat \ {0} /\ LastSector \in Nat
  BY CountsAssumption, SectorsReach
<1>1. CASE Start
  BY <1>1 DEF Start
<1>2. CASE Rewrite
  BY <1>2 DEF Rewrite
<1>3. CASE EraseSector
  <2>1. weight' \in Weights /\ from' \in [Offsets -> SUBSET Consoles]
    BY <1>0, <1>3 DEF EraseSector, EraseRecords, Weights
  <2>2. owner' \in Consoles \cup {None} /\ lock' \in BOOLEAN /\ i2c' \in BOOLEAN
    BY <1>3 DEF EraseSector, ErasePage0
  <2>3. sector' \in 0..LastSector /\ pc' \in {"erase", "init"}
    BY <1>0, <1>3 DEF EraseSector
  <2> QED
    BY <1>3, <2>1, <2>2, <2>3 DEF EraseSector
<1>4. CASE InitPage
  BY <1>0, <1>4 DEF InitPage, BeginSaved
<1>5. ASSUME NEW o \in Offsets, FindRecord(o) PROVE RestTypeOK'
  BY <1>0, <1>5 DEF FindRecord, Offsets, Weights
<1>6. ASSUME NEW o \in Offsets, PickOffset(o) PROVE RestTypeOK'
  BY <1>0, <1>6 DEF PickOffset, Offsets
<1>7. CASE NoRecord
  BY <1>0, <1>7 DEF NoRecord
<1>8. CASE RoundDone
  BY <1>0, <1>8 DEF RoundDone
<1>9. ASSUME NEW gres \in Results, Glitching(gres) PROVE RestTypeOK'
  BY <1>9 DEF Glitching
<1>10. CASE Stop
  BY <1>10 DEF Stop
<1>11. CASE AddRecord
  <2>1. offset \in Offsets
    BY <1>11 DEF AddRecord, AttemptsOwn, Between
  <2>2. weight' \in Weights /\ from' \in [Offsets -> SUBSET Consoles] /\ lock' \in BOOLEAN
    <3>1. CASE UNCHANGED records
      BY <1>11, <3>1 DEF AddRecord
    <3>2. CASE /\ weight[offset] < RecordMax
               /\ weight' = [weight EXCEPT ![offset] = @ + 1]
               /\ from' = [from EXCEPT ![offset] = @ \cup {console}]
               /\ lock' = lock
      <4>1. weight[offset] \in 0..RecordMax
        BY <2>1 DEF Weights
      <4>2. weight[offset] + 1 \in 0..RecordMax
        BY <4>1, <3>2, <1>0
      <4>3. weight' \in Weights
        BY <2>1, <4>2, <3>2 DEF Weights
      <4>4. from' \in [Offsets -> SUBSET Consoles]
        BY <2>1, <3>2
      <4> QED
        BY <4>3, <4>4, <3>2
    <3> QED
      BY <1>11, <3>1, <3>2 DEF AddRecord
  <2> QED
    BY <1>11, <2>2 DEF AddRecord
<1>12. CASE set_i2c_configured
  BY <1>12 DEF set_i2c_configured
<1>13. CASE PowerLoss
  BY <1>0, <1>13 DEF PowerLoss
<1>14. CASE UNCHANGED vars
  BY <1>14 DEF vars
<1> QED
  BY <1>1, <1>2, <1>3, <1>4, <1>5, <1>6, <1>7, <1>8, <1>9, <1>10, <1>11, <1>12, <1>13, <1>14
     DEF Next, Chip

-----------------------------------------------------------------------------
(* The records *)

LEMMA PlainInit == Init => RecordsOwn /\ LockedWhenFull /\ ErasedSoFar /\ AttemptsOwn /\ RoundSoFar
  BY DEF Init, GlitchInit, NoAttempt, RecordsOwn, LockedWhenFull, ErasedSoFar, AttemptsOwn,
         RoundSoFar, Between

\* Where the steps that do not touch the records lead.
LEMMA ErasedStep ==
    ASSUME RestTypeOK, AttemptsOwn, ErasedSoFar, [Next]_vars
    PROVE  ErasedSoFar'
<1> USE DEF ErasedSoFar, Blank, page0, records
<1>1. CASE EraseSector
  <2>1. /\ LastSector \in Nat /\ sector \in 0..LastSector
        /\ \A o \in Offsets : SectorOf(o) \in 0..LastSector
        /\ weight \in Weights /\ from \in [Offsets -> SUBSET Consoles]
    BY SectorsReach DEF RestTypeOK
  <2>2. ASSUME NEW o \in Offsets, SectorOf(o) <= sector PROVE Blank(o)'
    <3>1. CASE SectorOf(o) = sector
      BY <1>1, <2>1, <3>1 DEF EraseSector, EraseRecords
    <3>2. CASE SectorOf(o) # sector
      <4>1. SectorOf(o) < sector
        BY <2>1, <2>2, <3>2
      <4> QED
        BY <1>1, <3>2, <4>1 DEF EraseSector, EraseRecords
    <3> QED
      BY <3>1, <3>2
  <2>3. owner' = None /\ ~lock'
    <3>1. CASE sector = 0
      BY <1>1, <3>1 DEF EraseSector, ErasePage0
    <3>2. CASE sector # 0
      <4>1. sector > 0
        BY <2>1, <3>2
      <4> QED
        BY <1>1, <3>2, <4>1 DEF EraseSector
    <3> QED
      BY <3>1, <3>2
  <2>4. CASE sector < LastSector
    <3>1. sector' = sector + 1 /\ pc' = "erase"
      BY <1>1, <2>4 DEF EraseSector
    <3>2. \A o \in Offsets : SectorOf(o) < sector' => SectorOf(o) <= sector
      BY <2>1, <3>1
    <3> QED
      BY <2>2, <2>3, <3>1, <3>2 DEF Blank
  <2>5. CASE ~(sector < LastSector)
    <3>1. sector' = 0 /\ pc' = "init"
      BY <1>1, <2>5 DEF EraseSector
    <3>2. \A o \in Offsets : SectorOf(o) <= sector
      BY <2>1, <2>5
    <3> QED
      BY <2>2, <2>3, <3>1, <3>2 DEF Blank
  <2> QED
    BY <2>4, <2>5
<1>2. CASE AddRecord \/ Stop
  BY <1>2 DEF AddRecord, Stop, Stops, AttemptsOwn, Between
<1>3. CASE Start \/ Rewrite
  BY <1>3, SectorsReach DEF Start, Rewrite
<1>4. CASE InitPage \/ PowerLoss
  BY <1>4 DEF InitPage, BeginSaved, PowerLoss
<1>5. ASSUME NEW o \in Offsets, FindRecord(o) \/ PickOffset(o) PROVE ErasedSoFar'
  BY <1>5 DEF FindRecord, PickOffset
<1>6. CASE NoRecord \/ RoundDone
  BY <1>6 DEF NoRecord, RoundDone
<1>7. ASSUME NEW gres \in Results, Glitching(gres) PROVE ErasedSoFar'
  BY <1>7 DEF Glitching
<1>8. CASE set_i2c_configured \/ UNCHANGED vars
  BY <1>8 DEF set_i2c_configured, vars
<1> QED
  BY <1>1, <1>2, <1>3, <1>4, <1>5, <1>6, <1>7, <1>8 DEF Next, Chip

LEMMA AttemptsStep ==
    ASSUME RestTypeOK, AttemptsOwn, ErasedSoFar, [Next]_vars
    PROVE  AttemptsOwn'
<1> USE DEF AttemptsOwn, Between, page0
<1>1. CASE Start \/ Rewrite \/ InitPage \/ EraseSector
  <2>1. UNCHANGED outcome
    BY <1>1 DEF Start, Rewrite, InitPage, EraseSector, glitch, attempt
  <2>2. UNCHANGED console /\ pc' \notin {"random"}
    BY <1>1 DEF Start, Rewrite, InitPage, EraseSector, BeginSaved
  <2>3. pc' = "saved" => owner' = console
    BY <1>1 DEF Start, Rewrite, InitPage, EraseSector, BeginSaved, is_configured
  <2>4. pc \notin {"saved", "random"}
    BY <1>1 DEF Start, Rewrite, InitPage, EraseSector
  <2> QED
    BY <2>1, <2>2, <2>3, <2>4
<1>2. ASSUME NEW o \in Offsets, FindRecord(o) \/ PickOffset(o) PROVE AttemptsOwn'
  BY <1>2 DEF FindRecord, PickOffset
<1>3. CASE NoRecord \/ RoundDone
  <2>1. UNCHANGED <<outcome, console, owner>> /\ Between
    BY <1>3 DEF NoRecord, RoundDone, glitch, attempt
  <2>2. pc \in {"saved", "random"}
    BY <1>3 DEF NoRecord, RoundDone
  <2> QED
    BY <2>1, <2>2
<1>4. ASSUME NEW gres \in Results, Glitching(gres) PROVE AttemptsOwn'
  <2>1. ~Between
    BY <1>4 DEF Glitching, Pulse
  <2> QED
    BY <1>4, <2>1 DEF Glitching, search
<1>5. CASE Stop \/ AddRecord \/ PowerLoss
  BY <1>5 DEF Stop, AddRecord, PowerLoss, End
<1>6. CASE set_i2c_configured \/ UNCHANGED vars
  BY <1>6 DEF set_i2c_configured, vars, search, glitch, attempt
<1> QED
  BY <1>1, <1>2, <1>3, <1>4, <1>5, <1>6 DEF Next, Chip

LEMMA RecordsStep ==
    ASSUME RestTypeOK, AttemptsOwn, ErasedSoFar, RecordsOwn, LockedWhenFull, [Next]_vars
    PROVE  RecordsOwn' /\ LockedWhenFull'
<1> USE DEF RecordsOwn, LockedWhenFull
<1>1. CASE EraseSector
  <2>1. owner' = None /\ ~lock'
    <3>1. CASE sector = 0
      BY <1>1, <3>1 DEF EraseSector, ErasePage0
    <3>2. CASE sector # 0
      <4>1. sector > 0 /\ pc = "erase"
        BY <1>1, <3>2, SectorsReach DEF EraseSector, RestTypeOK
      <4> QED
        BY <1>1, <3>2, <4>1 DEF EraseSector, page0, ErasedSoFar
    <3> QED
      BY <3>1, <3>2
  <2> QED
    BY <2>1
<1>2. CASE InitPage
  BY <1>2 DEF InitPage, ErasedSoFar, Blank, records
<1>3. CASE AddRecord
  <2>1. offset \in Offsets /\ owner = console
    BY <1>3 DEF AddRecord, AttemptsOwn, Between
  <2>2. weight[offset] \in 0..RecordMax /\ RecordMax \in Nat
    BY <2>1, CountsAssumption DEF RestTypeOK, Weights
  <2>3. CASE lock
    BY <1>3, <2>3 DEF AddRecord, records
  <2>4. CASE ~lock /\ weight[offset] < RecordMax
    <3>1. ~lock' /\ owner' = owner /\ from' = [from EXCEPT ![offset] = @ \cup {console}]
      BY <1>3, <2>4 DEF AddRecord
    <3>2. \A o \in Offsets : from'[o] \subseteq from[o] \cup {console}
      BY <3>1 DEF RestTypeOK
    <3> QED
      BY <2>1, <3>1, <3>2
  <2>5. CASE ~lock /\ ~(weight[offset] < RecordMax)
    <3>1. owner' = owner /\ from' = from /\ weight' = weight
      BY <1>3, <2>5 DEF AddRecord, records
    <3>2. weight[offset] = RecordMax
      BY <2>2, <2>5
    <3> QED
      BY <2>1, <3>1, <3>2
  <2> QED
    BY <2>3, <2>4, <2>5
<1>4. CASE Start \/ Rewrite \/ NoRecord \/ RoundDone \/ Stop \/ set_i2c_configured \/ PowerLoss
  <2>1. UNCHANGED <<owner, lock, weight, from>>
    BY <1>4 DEF Start, Rewrite, NoRecord, RoundDone, Stop, set_i2c_configured, PowerLoss, page0, records
  <2> QED
    BY <2>1
<1>5. ASSUME NEW o \in Offsets, FindRecord(o) \/ PickOffset(o) PROVE RecordsOwn' /\ LockedWhenFull'
  BY <1>5 DEF FindRecord, PickOffset, page0, records
<1>6. ASSUME NEW gres \in Results, Glitching(gres) PROVE RecordsOwn' /\ LockedWhenFull'
  BY <1>6 DEF Glitching, page0, records
<1>7. CASE UNCHANGED vars
  BY <1>7 DEF vars, page0, records
<1> QED
  BY <1>1, <1>2, <1>3, <1>4, <1>5, <1>6, <1>7 DEF Next, Chip

-----------------------------------------------------------------------------
(* The rounds *)

\* What may still be found is what was not tried.
LEMMA CandidatesLeft ==
    ASSUME RestTypeOK, SavedInOrder
    PROVE  Candidates = Recorded \ tried /\ tried \subseteq Recorded
<1>1. \A o \in Offsets : o \in Int /\ weight[o] \in Int
  BY CountsAssumption DEF RestTypeOK, Weights, Offsets
<1>2. CASE max_weight = -1 /\ tried = {}
  BY <1>2 DEF Candidates
<1>3. CASE max_weight > 0 /\ last_weight = max_weight /\ last_offset \in Offsets /\ tried = UpToLast
  <2>1. max_weight \in Int /\ max_weight # -1
    BY <1>3, CountsAssumption DEF RestTypeOK
  <2>2. tried \subseteq Recorded
    BY <1>3 DEF UpToLast
  <2>3. ASSUME NEW o \in Recorded PROVE o \in Candidates <=> o \notin tried
    <3>1. o \in Int /\ weight[o] \in Int /\ last_offset \in Int
      BY <1>1, <1>3, <2>3 DEF Recorded
    <3>2. o \in Candidates <=> weight[o] < max_weight \/ (weight[o] = max_weight /\ last_offset < o)
      BY <1>3, <2>1, <2>3 DEF Candidates
    <3>3. o \in tried <=> weight[o] > max_weight \/ (weight[o] = max_weight /\ o <= last_offset)
      BY <1>3, <2>3 DEF UpToLast
    <3> QED
      BY <2>1, <3>1, <3>2, <3>3
  <2> QED
    BY <2>2, <2>3 DEF Candidates
<1> QED
  BY <1>2, <1>3 DEF SavedInOrder

LEMMA FindRecordInOrder ==
    ASSUME RestTypeOK, SavedInOrder, NEW o \in Offsets, FindRecord(o)
    PROVE  SavedInOrder'
<1>1. Candidates = Recorded \ tried /\ tried \subseteq Recorded
  BY CandidatesLeft
<1>2. /\ o \in Candidates /\ \A p \in Candidates \ {o} : Before(o, p)
      /\ weight' = weight /\ tried' = tried \cup {o}
      /\ max_weight' = weight[o] /\ last_weight' = weight[o] /\ last_offset' = o
  BY DEF FindRecord, records
<1>3. \A p \in Offsets : p \in Int /\ weight[p] \in Int
  BY CountsAssumption DEF RestTypeOK, Weights, Offsets
<1>4. Recorded' = Recorded /\ Recorded \subseteq Offsets
  BY <1>2 DEF Recorded
<1>5. ASSUME NEW p \in Recorded
      PROVE  p \in tried' <=> weight[p] > weight[o] \/ (weight[p] = weight[o] /\ p <= o)
  <2>1. p \in Int /\ o \in Int /\ weight[p] \in Int /\ weight[o] \in Int
    BY <1>3, <1>4, <1>5
  <2>2. CASE p = o
    BY <1>2, <2>1, <2>2
  <2>3. CASE p # o /\ p \in Candidates
    <3>1. weight[o] > weight[p] \/ (weight[o] = weight[p] /\ o < p)
      BY <1>2, <2>3 DEF Before
    <3>2. p \notin tried'
      BY <1>1, <1>2, <2>3
    <3> QED
      BY <2>1, <3>1, <3>2
  <2>4. CASE p # o /\ p \notin Candidates
    <3>1. p \in tried /\ p \in tried'
      BY <1>1, <1>2, <1>5, <2>4
    <3>2. max_weight > 0 /\ last_weight = max_weight /\ last_offset \in Offsets /\ tried = UpToLast
      BY <3>1 DEF SavedInOrder
    <3>3. max_weight \in Int /\ last_offset \in Int /\ max_weight # -1
      BY <1>3, <3>2, CountsAssumption DEF RestTypeOK
    <3>4. weight[p] > max_weight \/ (weight[p] = max_weight /\ p <= last_offset)
      BY <3>1, <3>2 DEF UpToLast
    <3>5. weight[o] < max_weight \/ (weight[o] = max_weight /\ last_offset < o)
      BY <1>2, <3>2, <3>3 DEF Candidates
    <3> QED
      BY <2>1, <3>1, <3>3, <3>4, <3>5
  <2> QED
    BY <2>2, <2>3, <2>4
<1>6. tried' \subseteq Recorded
  BY <1>1, <1>2 DEF Candidates
<1>7. tried' = UpToLast'
  BY <1>2, <1>4, <1>5, <1>6 DEF UpToLast
<1>8. weight[o] > 0
  BY <1>1, <1>2 DEF Recorded
<1> QED
  BY <1>2, <1>7, <1>8 DEF SavedInOrder

LEMMA RoundStep ==
    ASSUME RestTypeOK, AttemptsOwn, RoundSoFar, [Next]_vars
    PROVE  RoundSoFar'
<1> USE DEF RoundSoFar
<1>1. CASE Start \/ Rewrite \/ EraseSector \/ InitPage
  <2>1. pc' = "saved" => max_weight' = -1 /\ tried' = {}
    BY <1>1 DEF Start, Rewrite, EraseSector, InitPage, BeginSaved, search
  <2>2. pc' \notin {"start", "random"}
    BY <1>1 DEF Start, Rewrite, EraseSector, InitPage, BeginSaved
  <2> QED
    BY <2>1, <2>2 DEF SavedInOrder
<1>2. ASSUME NEW o \in Offsets, FindRecord(o) PROVE RoundSoFar'
  <2>1. pc = "saved" /\ pc' = "saved"
    BY <1>2 DEF FindRecord
  <2> QED
    BY <1>2, <2>1, FindRecordInOrder
<1>3. ASSUME NEW o \in Offsets, PickOffset(o) PROVE RoundSoFar'
  BY <1>3 DEF PickOffset
<1>4. CASE NoRecord
  BY <1>4 DEF NoRecord, SavedInOrder
<1>5. CASE RoundDone
  BY <1>5 DEF RoundDone
<1>6. ASSUME UNCHANGED <<pc, weight, search>> PROVE RoundSoFar'
  BY <1>6 DEF search, SavedInOrder, UpToLast, Recorded
<1>7. ASSUME NEW gres \in Results, Glitching(gres) PROVE RoundSoFar'
  BY <1>6, <1>7 DEF Glitching, records
<1>8. CASE Stop \/ AddRecord
  BY <1>8 DEF Stop, AddRecord
<1>9. CASE set_i2c_configured \/ UNCHANGED vars
  BY <1>6, <1>9 DEF set_i2c_configured, vars, records
<1>10. CASE PowerLoss
  BY <1>10 DEF PowerLoss
<1> QED
  BY <1>1, <1>2, <1>3, <1>4, <1>5, <1>7, <1>8, <1>9, <1>10 DEF Next, Chip

-----------------------------------------------------------------------------
LEMMA Inductive ==
    /\ Init => IInv
    /\ IInv /\ [Next]_vars => IInv'
<1>1. Init => IInv
  BY TypeInit, PlainInit DEF IInv
<1>2. ASSUME IInv, [Next]_vars PROVE IInv'
  <2>1. RestTypeOK /\ GlitchTypeOK(EdgeLimits)
    BY <1>2, TypeParts DEF IInv
  <2>2. RestTypeOK' /\ GlitchTypeOK(EdgeLimits)'
    BY <1>2, <2>1, RestStep, GlitchStep DEF IInv
  <2>3. TypeOK'
    BY <2>2 DEF TypeOK, RestTypeOK, EdgeLimits
  <2> QED
    BY <1>2, <2>1, <2>3, ErasedStep, AttemptsStep, RecordsStep, RoundStep DEF IInv
<1> QED
  BY <1>1, <1>2

LEMMA Always == Spec => []IInv
  BY Inductive, PTL DEF Spec

\* Every reachable state is well typed: the width, the step and the edges of the
\* search and the counts of the records stay within their bounds, however the
\* pulses go (glitch_try_offset, add_boot_record).
THEOREM TypeCorrect == Spec => []TypeOK
  BY Always, PTL DEF IInv

\* No record of another console is ever behind a page 0 that is accepted
\* (erase_config, init_config, add_boot_record).
THEOREM NoForeignRecords == Spec => []RecordsOwn
  BY Always, PTL DEF IInv

\* A lock has a full counter behind it (erase_config, lock_config).
THEOREM LockHasCause == Spec => []LockedWhenFull
  BY Always, PTL DEF IInv

\* Each call of find_best_record finds the first of the heaviest records that
\* were not tried in the round.
THEOREM HeaviestFirst == Spec => BestFirst
<1>1. IInv /\ [Next]_vars =>
        [pc = "saved" /\ Between /\ outcome' = "busy" =>
            /\ offset' \notin tried
            /\ \A p \in Recorded \ tried' : Before(offset', p)]_vars
  <2> SUFFICES ASSUME IInv, Next, pc = "saved", Between, outcome' = "busy"
               PROVE  /\ offset' \notin tried
                      /\ \A p \in Recorded \ tried' : Before(offset', p)
    OBVIOUS
  <2>1. PICK o \in Offsets : FindRecord(o)
    BY DEF Next, Chip, Start, Rewrite, EraseSector, InitPage, NoRecord, RoundDone, Glitching, Pulse,
           Stop, AddRecord, set_i2c_configured, PowerLoss, End, Between, glitch, attempt, PickOffset
  <2>2. RestTypeOK /\ SavedInOrder
    BY TypeParts DEF IInv, RoundSoFar
  <2>3. Candidates = Recorded \ tried
    BY <2>2, CandidatesLeft
  <2>4. /\ o \in Candidates /\ \A p \in Candidates \ {o} : Before(o, p)
        /\ offset' = o /\ tried' = tried \cup {o}
    BY <2>1 DEF FindRecord
  <2> QED
    BY <2>3, <2>4
<1> QED
  BY <1>1, Always, PTL DEF Spec, BestFirst

\* A round over the records ends when each of them was tried, a random one when
\* each offset was (main, find_best_record, prepare_random_array).
THEOREM NoneLeftOut == Spec => RoundsComplete
<1>1. IInv /\ [Next]_vars =>
        [pc' # "start" /\ Between /\ (round' # round \/ pc' # pc) =>
            /\ pc = "saved" => tried = Recorded
            /\ pc = "random" => tried = Offsets]_vars
  <2> SUFFICES ASSUME IInv, Next, pc' # "start", Between, round' # round \/ pc' # pc
               PROVE  /\ pc = "saved" => tried = Recorded
                      /\ pc = "random" => tried = Offsets
    OBVIOUS
  <2>1. ASSUME pc = "saved" PROVE tried = Recorded
    <3>1. NoRecord
      BY <2>1 DEF Next, Chip, Start, Rewrite, EraseSector, InitPage, RoundDone, Glitching, Pulse,
                  Stop, Stops, AddRecord, set_i2c_configured, PowerLoss, Between, FindRecord,
                  PickOffset, search
    <3>2. Candidates = {}
      BY <3>1 DEF NoRecord
    <3>3. RestTypeOK /\ SavedInOrder
      BY <2>1, TypeParts DEF IInv, RoundSoFar
    <3> QED
      BY <3>2, <3>3, CandidatesLeft
  <2>2. ASSUME pc = "random" PROVE tried = Offsets
    <3>1. RoundDone
      BY <2>2 DEF Next, Chip, Start, Rewrite, EraseSector, InitPage, NoRecord, Glitching, Pulse,
                  Stop, Stops, AddRecord, set_i2c_configured, PowerLoss, Between, FindRecord,
                  PickOffset, search
    <3> QED
      BY <2>2, <3>1 DEF RoundDone, IInv, RoundSoFar
  <2> QED
    BY <2>1, <2>2
<1> QED
  BY <1>1, Always, PTL DEF Spec, RoundsComplete

-----------------------------------------------------------------------------
(* The promise *)

\* What a reader sees is all that a step of the store can change.
LEMMA NothingVisible ==
    ASSUME UNCHANGED <<console, owner, lock, weight>>
    PROVE  UNCHANGED Promise!vars
BY DEF Promise!vars, Visible

\* Without an owner the store is seen empty, whatever is still in the pages.
LEMMA SeenEmpty == owner = None => Promise!Empty
BY DEF Promise!Empty, Visible

\* The sector of page 0 gives the store up, those after it are not seen.
LEMMA EraseSeen ==
    ASSUME IInv, EraseSector
    PROVE  Promise!GiveUp
<1>1. owner' = None
  <2>1. CASE sector = 0
    BY <2>1 DEF EraseSector, ErasePage0
  <2>2. CASE sector # 0
    <3>1. sector > 0 /\ pc = "erase"
      BY <2>2, SectorsReach DEF EraseSector, IInv, TypeOK
    <3> QED
      BY <2>2, <3>1 DEF EraseSector, page0, IInv, ErasedSoFar
  <2> QED
    BY <2>1, <2>2
<1>2. Promise!Empty'
  BY <1>1 DEF Promise!Empty, Visible
<1>3. UNCHANGED console
  BY DEF EraseSector
<1> QED
  BY <1>2, <1>3 DEF Promise!GiveUp

\* init_config finds all pages erased.
LEMMA InitSeen ==
    ASSUME IInv, InitPage
    PROVE  Promise!TakeOver
<1>1. owner = None /\ ~lock /\ \A o \in Offsets : weight[o] = 0
  BY DEF IInv, ErasedSoFar, Blank, InitPage
<1>2. Promise!Empty
  BY <1>1, SeenEmpty
<1>3. owner' = console /\ UNCHANGED <<console, lock, weight>>
  BY DEF InitPage, records
<1>4. Visible' = Visible
  BY <1>1, <1>3 DEF Visible
<1>5. ((owner # None) /\ lock)' = ((owner # None) /\ lock)
  BY <1>1, <1>3
<1> QED
  BY <1>2, <1>3, <1>4, <1>5 DEF Promise!TakeOver

\* add_boot_record counts in what page 0 says is the console's own.
LEMMA CountSeen ==
    ASSUME IInv, AddRecord
    PROVE  [Promise!Next]_(Promise!vars)
<1>1. /\ owner = console /\ owner # None /\ offset \in Offsets
      /\ lock \in BOOLEAN /\ weight \in Weights
      /\ owner' = owner /\ console' = console
  BY ConsolesAssumption DEF IInv, TypeOK, AttemptsOwn, Between, AddRecord
<1>2. Visible = weight /\ Visible' = weight'
  <2>1. weight = [o \in Offsets |-> weight[o]]
    BY <1>1 DEF Weights
  <2>2. weight' \in Weights
    BY TypeParts, RestStep DEF IInv, RestTypeOK, Next, Chip
  <2>3. weight' = [o \in Offsets |-> weight'[o]]
    BY <2>2 DEF Weights
  <2> QED
    BY <1>1, <2>1, <2>3 DEF Visible
<1>3. CASE lock
  BY <1>1, <1>3, NothingVisible DEF AddRecord, records
<1>4. CASE ~lock /\ weight[offset] < RecordMax
  <2>1. weight' = [weight EXCEPT ![offset] = @ + 1] /\ lock' = lock
    BY <1>4 DEF AddRecord
  <2>2. Promise!Count(offset)
    BY <1>1, <1>2, <1>4, <2>1 DEF Promise!Count
  <2> QED
    BY <1>1, <2>2 DEF Promise!Next
<1>5. CASE ~lock /\ ~(weight[offset] < RecordMax)
  <2>1. weight' = weight /\ lock' = TRUE
    BY <1>5 DEF AddRecord, records
  <2>2. weight[offset] = RecordMax
    BY <1>1, <1>5, CountsAssumption DEF Weights
  <2>3. Promise!Lock
    BY <1>1, <1>2, <2>1, <2>2 DEF Promise!Lock
  <2> QED
    BY <2>3 DEF Promise!Next
<1> QED
  BY <1>3, <1>4, <1>5

LEMMA StepSeen == IInv /\ [Next]_vars => [Promise!Next]_(Promise!vars)
<1> SUFFICES ASSUME IInv, [Next]_vars PROVE [Promise!Next]_(Promise!vars)
  OBVIOUS
<1>1. CASE EraseSector
  BY <1>1, EraseSeen DEF Promise!Next
<1>2. CASE InitPage
  BY <1>2, InitSeen DEF Promise!Next
<1>3. CASE AddRecord
  BY <1>3, CountSeen
<1>4. CASE PowerLoss
  <2>1. console' \in Consoles /\ UNCHANGED <<owner, lock, weight>>
    BY <1>4 DEF PowerLoss, page0, records
  <2>2. Promise!Move
    BY <2>1 DEF Promise!Move, Promise!store, Visible
  <2> QED
    BY <2>2 DEF Promise!Next
<1>5. CASE Start \/ Rewrite \/ NoRecord \/ RoundDone \/ Stop \/ set_i2c_configured
  BY <1>5, NothingVisible
     DEF Start, Rewrite, NoRecord, RoundDone, Stop, set_i2c_configured, page0, records
<1>6. ASSUME NEW o \in Offsets, FindRecord(o) \/ PickOffset(o)
      PROVE  UNCHANGED Promise!vars
  BY <1>6, NothingVisible DEF FindRecord, PickOffset, page0, records
<1>7. ASSUME NEW gres \in Results, Glitching(gres) PROVE UNCHANGED Promise!vars
  BY <1>7, NothingVisible DEF Glitching, page0, records
<1>8. CASE UNCHANGED vars
  BY <1>8, NothingVisible DEF vars, page0, records
<1> QED
  BY <1>1, <1>2, <1>3, <1>4, <1>5, <1>6, <1>7, <1>8 DEF Next, Chip

\* The pages of the flash implement the store that is given up at once, taken
\* over empty and counted in for its own console, through every loss of power and
\* every move of the chip (erase_config, init_config, add_boot_record).
THEOREM Refinement == Spec => Implements
<1>1. Init => Promise!Init
  BY SeenEmpty DEF Init, Promise!Init
<1> QED
  BY <1>1, StepSeen, Always, PTL DEF Spec, Implements, Promise!Spec

-----------------------------------------------------------------------------
(* Every step brings the end nearer. *)

Pass == IF full_try = 0 THEN 8 ELSE 0

\* What is left, place by place.
LeftByPlace ==
    /\ pc = "start" => Left = 16
    /\ pc = "leds" => Left = 0
    /\ pc = "rewrite" => Left = Pass + 7
    /\ pc = "erase" => Left = Pass + 6
    /\ pc = "init" => Left = Pass + 5
    /\ pc = "saved" => Left = Pass + (4 - round)
    /\ pc = "random" => Left = Pass + (2 - round)

LEMMA LeftIs == LeftByPlace /\ Pass \in {0, 8}
BY DEF LeftByPlace, Left, Pass

LEMMA LeftIsNext == LeftByPlace' /\ Pass' \in {0, 8}
BY DEF LeftByPlace, Left, Pass

LEMMA SameLeft ==
    ASSUME UNCHANGED <<pc, full_try, round>>
    PROVE  Left' = Left
BY DEF Left

\* The steps from place to place.
LEMMA PlaceNearer ==
    ASSUME RestTypeOK, Start \/ Rewrite \/ EraseSector \/ InitPage \/ NoRecord \/ RoundDone
    PROVE  Nearer
<1> USE LeftIs, LeftIsNext DEF LeftByPlace
<1>0. round \in {0, 1} /\ full_try \in {0, 1}
  BY DEF RestTypeOK
<1>1. CASE Start
  <2>1. UNCHANGED <<round, full_try>> /\ pc = "start" /\ pc' \in {"leds", "rewrite", "saved"}
    BY <1>1 DEF Start, search
  <2>2. Left' < Left
    BY <1>0, <2>1
  <2> QED
    BY <2>2 DEF Nearer
<1>2. CASE Rewrite
  <2>1. UNCHANGED full_try /\ pc = "rewrite" /\ pc' \in {"leds", "erase"}
    BY <1>2 DEF Rewrite, search
  <2>2. Pass' = Pass
    BY <2>1 DEF Pass
  <2>3. Left' < Left
    BY <2>1, <2>2
  <2> QED
    BY <2>3 DEF Nearer
<1>3. CASE EraseSector
  <2>1. UNCHANGED <<round, full_try>>
    BY <1>3 DEF EraseSector, search
  <2>2. CASE pc' = pc /\ sector' = sector + 1
    <3>1. Left' = Left /\ sector \in Int
      BY <2>1, <2>2, SameLeft, SectorsReach DEF RestTypeOK
    <3> QED
      BY <1>3, <2>2, <3>1 DEF Nearer, EraseSector
  <2>3. CASE pc' = "init"
    <3>1. pc = "erase" /\ Pass' = Pass
      BY <1>3, <2>1 DEF EraseSector, Pass
    <3>2. Left' < Left
      BY <2>3, <3>1
    <3> QED
      BY <3>2 DEF Nearer
  <2> QED
    BY <1>3, <2>2, <2>3 DEF EraseSector
<1>4. CASE InitPage
  <2>1. pc = "init" /\ pc' = "saved" /\ round' = 0 /\ full_try' = full_try
    BY <1>4 DEF InitPage, BeginSaved
  <2>2. Pass' = Pass
    BY <2>1 DEF Pass
  <2>3. Left' < Left
    BY <2>1, <2>2
  <2> QED
    BY <2>3 DEF Nearer
<1>5. CASE NoRecord
  <2>1. /\ pc = "saved" /\ round' = 1 - round /\ full_try' = full_try
        /\ pc' = IF round = 0 THEN "saved" ELSE "random"
    BY <1>0, <1>5 DEF NoRecord
  <2>2. Pass' = Pass
    BY <2>1 DEF Pass
  <2>3. Left' < Left
    BY <1>0, <2>1, <2>2
  <2> QED
    BY <2>3 DEF Nearer
<1>6. CASE RoundDone
  <2>1. pc = "random" /\ round' = 1 - round
    BY <1>6 DEF RoundDone
  <2>2. CASE round = 0
    <3>1. pc' = "random" /\ full_try' = full_try
      BY <1>6, <2>1, <2>2 DEF RoundDone
    <3>2. Pass' = Pass
      BY <3>1 DEF Pass
    <3>3. Left' < Left
      BY <2>1, <2>2, <3>1, <3>2
    <3> QED
      BY <3>3 DEF Nearer
  <2>3. CASE round = 1
    <3>1. full_try = 0 => pc' = "rewrite" /\ full_try' = 1
      BY <1>6, <2>3 DEF RoundDone
    <3>2. full_try = 1 => pc' = "leds"
      BY <1>6, <2>3 DEF RoundDone
    <3>3. Left' < Left
      BY <1>0, <2>1, <2>3, <3>1, <3>2 DEF Pass
    <3> QED
      BY <3>3 DEF Nearer
  <2> QED
    BY <1>0, <2>2, <2>3
<1> QED
  BY <1>1, <1>2, <1>3, <1>4, <1>5, <1>6

\* An attempt is made at an offset that was not tried in the round.
LEMMA AttemptNearer ==
    ASSUME RestTypeOK, RoundSoFar, NEW o \in Offsets, FindRecord(o) \/ PickOffset(o)
    PROVE  Nearer
<1>1. Left' = Left
  BY SameLeft DEF FindRecord, PickOffset
<1>2. tried' = tried \cup {o}
  BY DEF FindRecord, PickOffset
<1>3. o \notin tried
  <2>1. CASE FindRecord(o)
    BY <2>1, CandidatesLeft DEF FindRecord, RoundSoFar
  <2>2. CASE PickOffset(o)
    BY <2>2 DEF PickOffset, RoundSoFar
  <2> QED
    BY <2>1, <2>2
<1> QED
  BY <1>1, <1>2, <1>3 DEF Nearer

\* A pulse that does not end the search narrows it, or moves it on.
LEMMA PulseNarrows ==
    ASSUME GlitchTypeOK(EdgeLimits), NEW gres \in Results \ {"missing"}, last_res # "missing",
           PulseGoesOn(gres)
    PROVE  Narrows
<1>1. /\ step' = NewStep(gres) /\ edges' = NewEdges(gres) /\ width' = NewWidth(gres)
      /\ last_res' = gres /\ gres \in {"timeout", "failure"}
  BY DEF PulseGoesOn, Results
<1>2. /\ step \in Nat \ {0} /\ edges \in Int /\ width \in Nat \ {0, 1}
      /\ last_res \in {"success", "timeout", "failure"}
  BY EdgesAssumption, StepAssumption, WidthAssumption
     DEF GlitchTypeOK, PulseGoesOn, AtLimit, Results, EdgeLimits
<1>3. CASE AtEdge(gres) /\ step # 1
  <2>1. step \div 2 < step
    BY <1>2
  <2> QED
    BY <1>1, <1>3, <2>1 DEF Narrows, NewStep
<1>4. CASE AtEdge(gres) /\ step = 1
  <2>1. step' = step /\ edges' = edges + 1
    BY <1>1, <1>4 DEF NewStep, NewEdges
  <2> QED
    BY <1>2, <2>1 DEF Narrows
<1>5. CASE ~AtEdge(gres)
  <2>1. step' = step /\ edges' = edges /\ NewStep(gres) = step
    BY <1>1, <1>5 DEF NewStep, NewEdges
  <2>2. last_res = "success" \/ last_res = gres
    BY <1>1, <1>2, <1>5 DEF AtEdge
  <2>3. gres = "failure" => width' > width
    BY <1>1, <1>2, <2>1 DEF NewWidth
  <2>4. gres = "timeout" => width' < width
    BY <1>1, <1>2, <2>1 DEF NewWidth
  <2> QED
    BY <1>1, <2>1, <2>2, <2>3, <2>4 DEF Narrows
<1> QED
  BY <1>3, <1>4, <1>5

LEMMA GlitchingNearer ==
    ASSUME GlitchTypeOK(EdgeLimits), NEW gres \in Results, Glitching(gres),
           "missing" \notin {last_res, last_res'}
    PROVE  Nearer
<1>1. Left' = Left /\ tried' = tried /\ outcome = "busy"
  BY SameLeft DEF Glitching, search, Pulse
<1>2. CASE outcome' # "busy"
  BY <1>1, <1>2 DEF Nearer
<1>3. CASE outcome' = "busy"
  <2>1. PulseGoesOn(gres)
    BY <1>3 DEF Glitching, Pulse, PulseStops, PulseEnds, End
  <2>2. gres # "missing"
    BY <2>1 DEF PulseGoesOn
  <2>3. Narrows
    BY <2>1, <2>2, PulseNarrows
  <2> QED
    BY <1>1, <1>3, <2>3 DEF Nearer
<1> QED
  BY <1>2, <1>3

\* After an attempt that succeeded, or that finish_with_code ended, nothing is left.
LEMMA EndNearer ==
    ASSUME RestTypeOK, AttemptsOwn, Stop \/ AddRecord
    PROVE  Nearer
<1>1. pc' = "leds" /\ pc \in {"saved", "random"}
  BY DEF Stop, AddRecord, Stops, AttemptsOwn, Between
<1>2. Left' = 0
  BY <1>1, LeftIsNext DEF LeftByPlace
<1>3. Left > 0 /\ Left \in Int
  BY <1>1, LeftIs DEF LeftByPlace, RestTypeOK
<1> QED
  BY <1>2, <1>3 DEF Nearer

\* The start of the console is a search that ends, for any number of offsets and
\* any widths and steps: each pulse the eMMC answers narrows it, and no sector,
\* offset or round comes a second time in a pass (glitch_try_offset, main).
THEOREM AlwaysNearer == Spec => Progress
<1>1. IInv /\ [Next]_vars =>
        [Chip /\ "missing" \notin {last_res, last_res'} => Nearer]_vars
  <2> SUFFICES ASSUME IInv, Chip, "missing" \notin {last_res, last_res'}
               PROVE  Nearer
    OBVIOUS
  <2>1. RestTypeOK /\ GlitchTypeOK(EdgeLimits) /\ RoundSoFar /\ AttemptsOwn
    BY TypeParts DEF IInv
  <2> QED
    BY <2>1, PlaceNearer, AttemptNearer, GlitchingNearer, EndNearer DEF Chip
<1> QED
  BY <1>1, Always, PTL DEF Spec, Progress
=============================================================================
