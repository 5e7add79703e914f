----------------------------- MODULE MCMonitors -----------------------------
EXTENDS Monitors

ZeroOne == {0, 1}
AllFaults == {"create", "start"}
=============================================================================
