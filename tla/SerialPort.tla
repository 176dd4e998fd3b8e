----------------------------- MODULE SerialPort -----------------------------
(***************************************************************************)
(* Serial of usb-host-cdc/usb/host/cdc.py: a byte stream over packets.  A  *)
(* read takes what an earlier packet left, then packets as they come, and  *)
(* the data toggle makes each packet come once.  Bytes are numbered in the *)
(* order the device sends them.                                            *)
(***************************************************************************)
EXTENDS Integers, Sequences

CONSTANTS
  MaxPacket,    \* of the bulk IN endpoint
  MaxBytes,     \* how many bytes the device sends (bound)
  MaxWant       \* the longest read (bound)

\* What a user of the module assumes of the constants.
SizesAssumption == {MaxPacket, MaxBytes, MaxWant} \subseteq Nat \ {0}

VARIABLES
  wire,         \* packets the device has queued
  made,         \* bytes in packets so far
  pending,      \* Serial._pending
  rd,           \* the call: idle, or [what, want, into, first]
  given,        \* the bytes the program was given, in order
  torn          \* bytes copied in a call that then raised

vars == <<wire, made, pending, rd, given, torn>>

Idle == [what |-> "idle"]
Init ==
  /\ wire = <<>> /\ made = 0 /\ pending = <<>> /\ rd = Idle /\ given = <<>> /\ torn = {}

\* A packet of n bytes, none of them when a full one was the last of its transfer.
Send(n) ==
  /\ made + n <= MaxBytes /\ Len(wire) < 2
  /\ wire' = Append(wire, [i \in 1 .. n |-> made + i]) /\ made' = made + n
  /\ UNCHANGED <<pending, rd, given, torn>>

\* readinto(buf, n); any() is a _fill and a look at what is pending.
Call(what, n) ==
  /\ rd = Idle /\ rd' = [what |-> what, want |-> n, into |-> <<>>, first |-> TRUE]
  /\ UNCHANGED <<wire, made, pending, given, torn>>

Wants == rd.what = "read" /\ Len(rd.into) < rd.want
Fills == rd # Idle /\ pending = <<>> /\ (Wants \/ (rd.what = "any" /\ rd.first))

\* The loop's body: what is pending, as far as it is wanted.
Copy ==
  /\ rd # Idle /\ Wants /\ pending # <<>>
  /\ LET wanted == rd.want - Len(rd.into)
         take == IF wanted < Len(pending) THEN wanted ELSE Len(pending)
     IN /\ rd' = [rd EXCEPT !.into = @ \o SubSeq(pending, 1, take), !.first = FALSE]
        /\ pending' = SubSeq(pending, take + 1, Len(pending))
  /\ UNCHANGED <<wire, made, given, torn>>

Return(got) == rd' = Idle /\ given' = given \o got

\* Mutant: the packet replaces what was pending, whether or not it was read.
MutFill ==
  /\ rd # Idle /\ wire # <<>> /\ (Wants \/ rd.first) /\ wire' = Tail(wire)
  /\ pending' = Head(wire) /\ rd' = [rd EXCEPT !.first = FALSE]
  /\ UNCHANGED <<made, given, torn>>
\* _fill, with a packet there: an empty one ends the loop as a timeout does.
Fill ==
  /\ Fills /\ wire # <<>> /\ wire' = Tail(wire) /\ pending' = Head(wire)
  /\ IF Head(wire) = <<>> THEN Return(rd.into)
     ELSE rd' = [rd EXCEPT !.first = FALSE] /\ UNCHANGED given
  /\ UNCHANGED <<made, torn>>

\* _fill's USBTimeoutError; dev.read of nothing for a ms, or for the timeout.
NoMore == Fills /\ wire = <<>> /\ Return(rd.into) /\ UNCHANGED <<wire, made, pending, torn>>

\* The read has what it wants, or any() has looked.
Done ==
  /\ rd # Idle /\ ~Fills /\ ~(Wants /\ pending # <<>>) /\ Return(rd.into)
  /\ UNCHANGED <<wire, made, pending, torn>>

\* Any other USBError leaves the call, and what it had copied with it.
Raise ==
  /\ Fills /\ rd' = Idle /\ torn' = torn \cup {rd.into[i] : i \in DOMAIN rd.into}
  /\ UNCHANGED <<wire, made, pending, given>>

Next ==
  \/ \E n \in 0 .. MaxPacket : Send(n)
  \/ \E n \in 1 .. MaxWant : Call("read", n)
  \/ Call("any", 0) \/ Copy \/ Fill \/ NoMore \/ Done \/ Raise

\* Where a byte can be, in the order the device sent them: given to the program, with the
\* call, pending, and in the packets on the wire.
Taken == IF rd = Idle THEN <<>> ELSE rd.into
Places ==
  [p \in 1 .. Len(wire) + 3 |->
     IF p = 1 THEN given ELSE IF p = 2 THEN Taken ELSE IF p = 3 THEN pending ELSE wire[p - 3]]

Held(places) == UNION {{places[p][i] : i \in DOMAIN places[p]} : p \in DOMAIN places}
Rising(places) ==
  \A p, q \in DOMAIN places : \A i \in DOMAIN places[p], j \in DOMAIN places[q] :
    p < q \/ (p = q /\ i < j) => places[p][i] < places[q][j]

\* Every byte is given once, in order, and none is lost but to a call that raised: they
\* rise from place to place and in each, and with those lost are all there ever were.
BytesOnce == Rising(Places) /\ Held(Places) = (1 .. made) \ torn
=============================================================================
