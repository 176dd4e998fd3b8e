---------------------------- MODULE MCPcmSink ----------------------------
\* A small instance of PcmSink for TLC: the interpreter and one other task
\* write into a ring of three bytes, so a frame of two wraps round its end.
EXTENDS PcmSink

CONSTANTS t1, interp

MCOneTask == {t1}
MCFrames == {1, 2}
MCLens == {3}
==========================================================================
