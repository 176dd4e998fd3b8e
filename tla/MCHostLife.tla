----------------------------- MODULE MCHostLife -----------------------------
\* Two devices: one may be stuck, held or gone while the other is closed.
EXTENDS HostLife
CONSTANTS d1, d2
MCDevs == {d1, d2}
=============================================================================
