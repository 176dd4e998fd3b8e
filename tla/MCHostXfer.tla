----------------------------- MODULE MCHostXfer -----------------------------
(* Small instances of HostXfer: one device with an IN and an OUT endpoint. *)
EXTENDS HostXfer, TLC

CONSTANTS d1, i1, eIn, eOut, x1, x2, x3, a0, a1

MCDevs == {d1}
MCItfs == {i1}
MCAlts == {a0, a1}
MCOneAlt == {a0}
MCEps == {eIn, eOut}
MCInEps == {eIn}
MCItfOf == [e \in Eps |-> i1]
MCXfers == {x1, x2, x3}
MCTwoXfers == {x1, x2}
MCOneXfer == {x1}

\* The transfer objects are heap blocks: which one an allocation returns
\* makes no difference.
XferSymmetry == Permutations(MCXfers)
TwoSymmetry == Permutations(MCTwoXfers)
=============================================================================
