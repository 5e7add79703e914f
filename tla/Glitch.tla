-------------------------------- MODULE Glitch --------------------------------
(***************************************************************************)
(* One attempt to start the console at an offset in time                   *)
(* (glitch_try_offset of firmware/usk/glitch.c): pulses of a width that    *)
(* follows their results to the edge between too little and too much, and  *)
(* walks along it.  The width is the caller's and carries over from one    *)
(* attempt to the next; what else the search keeps is local to the call.   *)
(***************************************************************************)
EXTENDS Integers

CONSTANTS
    StartWidth,   \* 150
    MaxWidth,     \* 1000
    FirstStep,    \* 32
    NextStep,     \* 8
    MissingLimit  \* 5

ASSUME WidthAssumption ==
    MaxWidth \in Nat /\ StartWidth \in 1..(MaxWidth - 1)
ASSUME StepAssumption ==
    FirstStep \in Nat \ {0} /\ NextStep \in Nat \ {0} /\ NextStep <= FirstStep
ASSUME MissingAssumption == MissingLimit \in Nat \ {0}

\* What do_glitch returns: no eMMC traffic, the console hangs, the console reads
\* on as if nothing had happened, or the payload runs.
Results == {"missing", "timeout", "failure", "success"}

\* The ways out by finish_with_code: 4, 5 and 6.
Stops == {"no_emmc", "no_width", "no_reaction"}

VARIABLES
    width,         \* main's width
    tries,         \* 0 before the first attempt, then 1
    step, edges, missing_count, last_res,
    edge_limit,    \* the argument
    outcome        \* "idle", "busy" in the call, or how it ended

attempt == <<step, edges, missing_count, last_res, edge_limit, outcome>>
glitch == <<width, tries, attempt>>

GlitchTypeOK(limits) ==
    /\ width \in 1..(MaxWidth + FirstStep)
    /\ tries \in 0..1
    /\ step \in 1..FirstStep
    /\ edges \in 0..edge_limit
    /\ missing_count \in 0..(MissingLimit - 1)
    /\ last_res \in Results
    /\ edge_limit \in limits
    /\ outcome \in {"idle", "busy", "glitched", "exhausted"} \cup Stops

NoAttempt ==
    /\ step = 1 /\ edges = 0 /\ missing_count = 0
    /\ last_res = "success" /\ edge_limit = 0 /\ outcome = "idle"

GlitchInit == width = StartWidth /\ tries = 0 /\ NoAttempt

\* The call; inc_tries counts it after the step was chosen.
Begin(limit) ==
    /\ step' = (IF tries = 0 THEN FirstStep ELSE NextStep)
    /\ tries' = 1
    /\ edges' = 0 /\ missing_count' = 0 /\ last_res' = "success"
    /\ edge_limit' = limit
    /\ outcome' = "busy"
    /\ width' = width

\* The call is over, and its locals with it.
End(o) ==
    /\ step' = 1 /\ edges' = 0 /\ missing_count' = 0
    /\ last_res' = "success" /\ edge_limit' = 0
    /\ outcome' = o

\* The fifth pulse in a row that the eMMC does not answer.
NoAnswer(gres) == gres = "missing" /\ missing_count + 1 >= MissingLimit

AtLimit == width = 1 \/ width >= MaxWidth

\* Whatever the pulse gave, the width that gave it was the last.
PulseStops(gres) ==
    /\ NoAnswer(gres) \/ AtLimit
    /\ End(IF NoAnswer(gres) THEN "no_emmc"
           ELSE IF width = 1 THEN "no_width" ELSE "no_reaction")
    /\ UNCHANGED <<width, tries>>

\* The console went from one side of the edge to the other.
AtEdge(gres) == {last_res, gres} = {"timeout", "failure"}

\* Seeded faults: an edge found is not counted, does not halve the step.
NewEdgesUncounted(gres) == edges
NewStepKept(gres) == step

NewStep(gres) == IF AtEdge(gres) /\ step # 1 THEN step \div 2 ELSE step
NewEdges(gres) == IF AtEdge(gres) /\ step = 1 THEN edges + 1 ELSE edges

NewWidth(gres) ==
    CASE gres = "failure" -> width + NewStep(gres)
      [] gres = "timeout" -> IF width - NewStep(gres) <= 1 THEN 1
                             ELSE width - NewStep(gres)
      [] OTHER -> width

PulseEnds(gres) ==
    /\ ~(NoAnswer(gres) \/ AtLimit)
    /\ width' = NewWidth(gres)
    /\ \/ gres = "success" /\ End("glitched")
       \/ gres # "success" /\ NewEdges(gres) > edge_limit /\ End("exhausted")
    /\ tries' = tries

PulseGoesOn(gres) ==
    /\ ~(NoAnswer(gres) \/ AtLimit)
    /\ gres # "success" /\ NewEdges(gres) <= edge_limit
    /\ width' = NewWidth(gres)
    /\ step' = NewStep(gres)
    /\ edges' = NewEdges(gres)
    /\ missing_count' = (IF gres = "missing" THEN missing_count + 1 ELSE 0)
    /\ last_res' = gres
    /\ UNCHANGED <<tries, edge_limit, outcome>>

\* One turn of the loop.
Pulse(gres) ==
    /\ outcome = "busy"
    /\ PulseStops(gres) \/ PulseEnds(gres) \/ PulseGoesOn(gres)
=============================================================================
