---------------------------- MODULE MCHostStream ----------------------------
\* Two devices and two slots: the stop of one device's stream may see the other
\* device go, and its own inside that.
EXTENDS HostStream
CONSTANTS d1, d2, i1
MCDevs == {d1, d2}
MCItfs == {i1}
=============================================================================
