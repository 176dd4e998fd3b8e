----------------------------- MODULE MCHostNet -----------------------------
\* Two adapters; one transfer in, two out.
EXTENDS HostNet
CONSTANTS d1, d2, r1, t1, t2
MCDevs == {d1, d2}
MCRx == {r1}
MCTx == {t1, t2}
=============================================================================
