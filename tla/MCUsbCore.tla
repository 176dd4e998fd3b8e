----------------------------- MODULE MCUsbCore ------------------------------
(* Two Device objects, and devices of one and of two functions.  Which      *)
(* object is which makes no difference.                                     *)
EXTENDS UsbCore, TLC

Alike == Permutations(Objs)
=============================================================================
