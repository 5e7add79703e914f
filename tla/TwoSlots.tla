------------------------------ MODULE TwoSlots ------------------------------
(***************************************************************************)
(* What the boot loader, the update and the fuses promise together: two    *)
(* images, of which the current one is never written and changes only by   *)
(* changing places with the other, once for each order and only for an     *)
(* image that starts the console.  There are no fuses, no tries, no blocks *)
(* and no loss of power here.                                              *)
(***************************************************************************)
CONSTANTS
    Contents,   \* what a slot can hold
    Glitching,  \* the images that can start the console
    Torn        \* what is no image

VARIABLES
    current,    \* the image power-on starts
    other,      \* the image of the other slot
    granted,    \* an order was given and has not been used up
    worn        \* flash has gone bad by itself

vars == <<current, other, granted, worn>>

Init ==
    /\ current \in Glitching /\ other = Torn
    /\ granted = FALSE /\ worn = FALSE

Grant ==
    /\ granted' = TRUE
    /\ UNCHANGED <<current, other, worn>>

Allowed == granted \/ worn

\* A block of an update.
Write ==
    /\ Allowed
    /\ other' \in Contents
    /\ UNCHANGED <<current, granted, worn>>

Switch ==
    /\ Allowed
    /\ other \in Glitching
    /\ current' = other /\ other' = current
    /\ granted' = FALSE
    /\ UNCHANGED worn

Decay ==
    /\ \/ current' = Torn /\ UNCHANGED other
       \/ other' = Torn /\ UNCHANGED current
    /\ worn' = TRUE
    /\ UNCHANGED granted

Next == Grant \/ Write \/ Switch \/ Decay

Spec == Init /\ [][Next]_vars
=============================================================================
