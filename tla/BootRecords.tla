----------------------------- MODULE BootRecords -----------------------------
(***************************************************************************)
(* What the configuration in flash promises to the code that tries the     *)
(* offsets: one record store, with an owner, that is given up as a whole   *)
(* in one step, is taken over only when it is empty, and counts only for   *)
(* the console the chip is in.  There are no pages, no sectors and no      *)
(* order of erasing here, and the loss of power changes nothing.           *)
(***************************************************************************)
EXTENDS Naturals

CONSTANTS
    Consoles,
    None,
    Offsets,
    RecordMax   \* where a counter is full

VARIABLES
    console,    \* the console the chip is in
    owner,      \* the console the records are of, or None
    lock,       \* counting has ended
    count       \* the starts of each offset

vars == <<console, owner, lock, count>>
store == <<owner, lock, count>>

Empty == owner = None /\ lock = FALSE /\ count = [o \in Offsets |-> 0]

Init == console \in Consoles /\ Empty

\* The chip is moved to another console, or the console is updated.
Move ==
    /\ console' \in Consoles
    /\ UNCHANGED store

GiveUp ==
    /\ Empty'
    /\ UNCHANGED console

TakeOver ==
    /\ Empty
    /\ owner' = console
    /\ UNCHANGED <<console, lock, count>>

Count(o) ==
    /\ owner = console /\ ~lock
    /\ count[o] < RecordMax
    /\ count' = [count EXCEPT ![o] = @ + 1]
    /\ UNCHANGED <<console, owner, lock>>

Lock ==
    /\ owner = console
    /\ \E o \in Offsets : count[o] = RecordMax
    /\ lock' = TRUE
    /\ UNCHANGED <<console, owner, count>>

Next ==
    \/ Move \/ GiveUp \/ TakeOver \/ Lock
    \/ \E o \in Offsets : Count(o)

Spec == Init /\ [][Next]_vars
=============================================================================
