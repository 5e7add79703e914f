----------------------------- MODULE MCUskConfig -----------------------------
EXTENDS UskConfig

CONSTANTS c1, c2
=============================================================================
