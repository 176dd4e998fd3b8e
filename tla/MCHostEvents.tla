---------------------------- MODULE MCHostEvents ----------------------------
\* Two devices, so that a slot may pass from one to the other.
EXTENDS HostEvents
CONSTANTS d1, d2
MCDevs == {d1, d2}
=============================================================================
