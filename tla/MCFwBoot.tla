------------------------------ MODULE MCFwBoot ------------------------------
(***************************************************************************)
(* Values for the constants of FwBoot: two images that work, one that      *)
(* starts and cannot start the console, one that hangs and one whose CRC   *)
(* is wrong; updates of no block, of too few, of just enough, of one more  *)
(* and of too many; and four fuses, so that they are all burnt and erased. *)
(***************************************************************************)
EXTENDS FwBoot

CONSTANTS good, better, weak, hanging, broken

SomeImages == {good, better, weak, hanging, broken}
=============================================================================
