------------------------------ MODULE MCPayload -----------------------------
(***************************************************************************)
(* Values for the constants of Payload: a first table of two blocks, the   *)
(* second of which has the signature, so that a pass can be cut off        *)
(* between them, and one block of everything else.                         *)
(***************************************************************************)
EXTENDS Payload

SmallSize == [a \in Areas |-> IF a \in {1, 4} THEN 2 ELSE 1]
=============================================================================
