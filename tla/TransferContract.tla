-------------------------- MODULE TransferContract --------------------------
(***************************************************************************)
(* What the IDF host library asks of whoever uses its transfer objects,    *)
(* and what the comments of usbif_host.c and usbif_host_xfer.c promise: a  *)
(* transfer is submitted and freed only while its caller owns it; one the  *)
(* caller gives up on stays the library's until its callback frees it.     *)
(***************************************************************************)
CONSTANT Xfers

VARIABLE owner

Owners == {"free", "caller", "library", "abandoned"}

TypeOK == owner \in [Xfers -> Owners]

Init == owner = [x \in Xfers |-> "free"]

Becomes(x, from, to) == owner[x] \in from /\ owner' = [owner EXCEPT ![x] = to]

Alloc(x) == Becomes(x, {"free"}, "caller")
Submit(x) == Becomes(x, {"free", "caller"}, "library")   \* allocated on the way
Retire(x) == Becomes(x, {"library"}, "caller")
Release(x) == Becomes(x, {"caller"}, "free")
GiveUp(x) == Becomes(x, {"library"}, "abandoned")
RetireAbandoned(x) == Becomes(x, {"abandoned"}, "free")

Next == \E x \in Xfers : \/ Alloc(x) \/ Submit(x) \/ Retire(x) \/ Release(x)
                         \/ GiveUp(x) \/ RetireAbandoned(x)

Spec == Init /\ [][Next]_owner
=============================================================================
