--------------------------- MODULE EventContract ---------------------------
(***************************************************************************)
(* What the event transport promises (src/src/shared/usbif_ringbuf.h): a   *)
(* queue of records with one producer and one consumer.  Records come out  *)
(* whole, once and in order; one is lost only when it finds the queue      *)
(* full, and then it is the newest.                                        *)
(***************************************************************************)
EXTENDS Naturals, Sequences

CONSTANTS Records, Nothing, Depth

VARIABLES q, got      \* the records waiting; the one the consumer is reading

Init == q = <<>> /\ got = Nothing

Put == \E r \in Records : Len(q) < Depth /\ q' = Append(q, r) /\ UNCHANGED got

Read == q # <<>> /\ got' = Head(q) /\ UNCHANGED q

Take == q # <<>> /\ got = Head(q) /\ q' = Tail(q) /\ got' = Nothing

\* A session that starts finds the queue empty.
Restart == q' = <<>> /\ got' = Nothing

Spec == Init /\ [][Put \/ Read \/ Take \/ Restart]_<<q, got>>
=============================================================================
