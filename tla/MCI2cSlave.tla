----------------------------- MODULE MCI2cSlave -----------------------------
(***************************************************************************)
(* Values for the constants of I2cSlave.  Three bytes of memory, two of    *)
(* them the state, are enough for a state to be torn, for the address to   *)
(* run past the state and to wrap; the limit on the second byte is lower   *)
(* than what the master writes and what the controller comes up with.      *)
(***************************************************************************)
EXTENDS I2cSlave

SmallDefaults == [k \in BOOLEAN |-> [a \in 0..2 |-> IF a = 0 /\ k THEN 0 ELSE 2]]
LowByte == {0, 2}
Limit == [s \in [0..1 -> 0..2] |-> [s EXCEPT ![1] = IF @ > 1 THEN 1 ELSE @]]
=============================================================================
