---------------------------- MODULE HostNetProofs ----------------------------
(***************************************************************************)
(* Proofs about HostNet, for any adapters and any numbers of transfers.    *)
(*                                                                         *)
(* lwIP's thread looks at `open' and submits later, without the lock, and  *)
(* a stop frees on the flags alone.  What carries the proof is who keeps   *)
(* lwIP's thread out (LinkOK: it is in the transmitter only with the link  *)
(* up, and the link comes down only while it is out), what each call has   *)
(* put in place or taken back so far (CallOK), and, for a library that     *)
(* delivers in time, whose move it is to give back what is still out, and  *)
(* the claim (PromptOK).                                                   *)
(***************************************************************************)
EXTENDS HostNet, TLAPS

----------------------------------------------------------------------------
(* The inductive invariant.                                                *)

NetType == [open : BOOLEAN, netif : BOOLEAN, dev : Devs \cup {None}]
XferStates == {"free", "caller", "queued", "done", "cancelled"}
StartAts == {"alloc", "netif", "undo", "open", "submit", "up"}
StopAts == {"actions", "quiesce", "wait", "clear", "release", "free", "destroy"}
VmType ==
  {Idle} \cup [at : StartAts \cup {"wild"}, dev : Devs]
         \cup [at : StopAts, dev : Devs, was : BOOLEAN]
TxType == {Idle} \cup [at : {"checked"}] \cup [at : {"slot"}, slot : Tx]
HostType == {Pump} \cup [at : {"link", "close"}, dev : Devs]

Typed ==
  /\ hub \in [Devs -> {"absent", "open", "leaving"}]
  /\ claim \in [Devs -> {"no", "yes", "kept"}]
  /\ net \in NetType /\ xfer \in [Slots -> XferStates] /\ live \in [Slots -> BOOLEAN]
  /\ orphan \in BOOLEAN /\ link \in BOOLEAN
  /\ tx \in TxType /\ host \in HostType /\ vm \in VmType
  /\ used \in Devs \cup {None} /\ raced \in BOOLEAN /\ prompt \in BOOLEAN

\* lwIP's thread is in the transmitter only with the link up, and while the
\* adapter is open or DEV_GONE waits for it; an interface that was forgotten is
\* never followed by another.
LinkOK ==
  /\ link => net.netif \/ orphan
  /\ orphan => ~net.netif
  /\ net.open => net.netif
  /\ net.netif => net.dev \in Devs
  /\ tx.at # "idle" => link /\ net.dev \in Devs /\ (net.open \/ host.at = "link")
  /\ host.at = "link" => ~net.open /\ net.dev = host.dev
  /\ host.at # "pump" => hub[host.dev] = "leaving"

Going(d) == host.at # "pump" /\ host.dev = d

\* What the interpreter's call has done so far.
CallOK ==
  /\ vm.at \in {"alloc", "netif", "undo", "open", "wild"} => ~net.open /\ host.at # "link"
  /\ vm.at \in {"netif", "undo", "open", "submit", "up"} => net.dev = vm.dev
  /\ vm.at \in {"netif", "undo"} => ~net.netif
  /\ vm.at \in {"open", "submit", "up"} => net.netif /\ ~link
  /\ vm.at \in {"submit", "up"} => net.open \/ Going(vm.dev) \/ hub[vm.dev] = "absent"
  /\ vm.at \in {"netif", "open", "submit"} => \A s \in Slots : xfer[s] = "caller"
  /\ vm.at \in {"undo", "wild"} => \A s \in Slots : xfer[s] = "free"
  /\ vm.at \in StopAts => net.netif /\ net.dev = vm.dev
  /\ vm.at \in StopAts \ {"actions"} => ~link
  /\ vm.at \in StopAts \ {"actions", "quiesce"} => ~net.open
  /\ vm.at = "actions" /\ ~vm.was => ~net.open

\* The flags are exact; lwIP's thread has its transfer; nothing is missing while
\* frames may move; and what is on the bus is of an open adapter that is there.
FlagsOK ==
  /\ \A s \in Slots : live[s] <=> InLibrary(s) \/ (tx.at = "slot" /\ tx.slot = s)
  /\ tx.at = "slot" => xfer[tx.slot] = "caller"
  /\ net.open \/ tx.at # "idle" => \A s \in Slots : xfer[s] # "free"
  /\ \A s \in Slots : xfer[s] = "queued" =>
       net.open /\ net.dev \in Devs /\ hub[net.dev] = "open"

\* Whose handles are passed on is there, while DEV_GONE overlapped no call.
Stays(d) == host.at = "pump" /\ hub[d] # "absent"
HandleOK ==
  ~raced =>
    /\ net.open => hub[net.dev] # "absent" /\ (host.at # "pump" => host.dev # net.dev)
    /\ vm.at \in StartAts => Stays(vm.dev)
    /\ vm.at \in {"quiesce", "wait", "clear", "release"} => Stays(vm.dev)
    /\ vm.at = "actions" /\ vm.was => Stays(vm.dev)
    /\ used # None => hub[used] # "absent"

AllBack == \A s \in Slots : ~InLibrary(s)

\* With a library that delivers in time: what a closed adapter has out is for
\* DEV_GONE or for the wait of a stop; a claim is that of an open adapter, of a
\* call in progress, or DEV_GONE's to give back.
OutFor ==
  ~net.open /\ ~AllBack =>
    net.dev \in Devs /\ (hub[net.dev] = "absent" \/ Going(net.dev) \/ vm.at = "wait")
ClaimFor(d) ==
  claim[d] # "no" =>
    /\ hub[d] # "absent"
    /\ \/ net.open /\ net.dev = d
       \/ vm.at \in StartAts \cup {"quiesce", "wait", "clear", "release"} /\ vm.dev = d
       \/ Going(d)
PromptOK ==
  prompt =>
    /\ vm.at # "wild" /\ OutFor /\ \A d \in Devs : ClaimFor(d)
    /\ vm.at \in {"alloc", "clear", "release"} => AllBack
    /\ ~raced /\ (vm.at \in {"free", "destroy"} \/ (vm.at = "actions" /\ ~vm.was)) =>
         AllBack /\ claim[vm.dev] = "no"
    /\ ~raced /\ (vm.at = "destroy" \/ (vm.at = "idle" /\ ~net.netif)) =>
         \A s \in Slots : xfer[s] = "free"
    /\ ~raced /\ vm.at = "idle" /\ ~net.netif /\ net.dev # None => claim[net.dev] = "no"

IInv == Typed /\ LinkOK /\ CallOK /\ FlagsOK /\ HandleOK /\ PromptOK

----------------------------------------------------------------------------
(* The records.                                                            *)

\* What the types say of the fields.
LEMMA Fields ==
  ASSUME Typed
  PROVE  /\ vm.at \in {"idle", "wild"} \cup StartAts \cup StopAts
         /\ vm = Idle <=> vm.at = "idle"
         /\ vm.at \notin {"idle"} => vm.dev \in Devs
         /\ vm.at \in StopAts => vm.was \in BOOLEAN
         /\ tx.at \in {"idle", "checked", "slot"} /\ (tx = Idle <=> tx.at = "idle")
         /\ tx.at = "slot" => tx.slot \in Tx
         /\ host.at \in {"pump", "link", "close"} /\ (host = Pump <=> host.at = "pump")
         /\ host.at # "pump" => host.dev \in Devs
         /\ net.dev \in Devs \cup {None} /\ net.open \in BOOLEAN /\ net.netif \in BOOLEAN
BY DEF Typed, VmType, TxType, HostType, NetType, StartAts, StopAts, Idle, Pump

\* A call that goes on keeps its device, and whether the adapter was open.
LEMMA CallMoves ==
  ASSUME vm \in VmType, vm.at # "idle", NEW at, Goes(at),
         (vm.at \in StopAts /\ at \in StopAts) \/
         (vm.at \in StartAts \cup {"wild"} /\ at \in StartAts \cup {"wild"})
  PROVE  /\ vm' \in VmType /\ vm'.at = at /\ vm'.dev = vm.dev
         /\ vm.at \in StopAts => vm'.was = vm.was
<1>1. CASE vm \in [at : StartAts \cup {"wild"}, dev : Devs]
  BY <1>1 DEF Goes, VmType, StartAts, StopAts
<1>2. CASE vm \in [at : StopAts, dev : Devs, was : BOOLEAN]
  BY <1>2 DEF Goes, VmType, StartAts, StopAts
<1> QED BY <1>1, <1>2 DEF VmType, Idle

----------------------------------------------------------------------------
(* The steps.                                                              *)

\* A transfer that completes stays in the library's hands.
LEMMA CompleteKeeps == ASSUME IInv, NEW s \in Slots, Complete(s) PROVE IInv'
<1>f. Typed
  BY DEF IInv
<1>1. Typed'
  BY <1>f DEF Typed, Complete, library, ifaces, XferStates
<1>2. LinkOK'
  BY <1>f DEF IInv, LinkOK, Complete, library, ifaces
<1>3. CallOK'
  BY <1>f DEF IInv, CallOK, Going, Complete, library, ifaces
<1>4. FlagsOK'
  BY <1>f DEF IInv, Typed, FlagsOK, InLibrary, Complete, library
<1>5. HandleOK'
  BY <1>f DEF IInv, Typed, HandleOK, Stays, Complete, library
<1>6. PromptOK'
  BY <1>f DEF IInv, Typed, PromptOK, OutFor, ClaimFor, AllBack, InLibrary, Going, Complete,
     library
<1> QED BY <1>1, <1>2, <1>3, <1>4, <1>5, <1>6 DEF IInv

\* A receive transfer retires, or goes out again only on an open adapter that is
\* there; lwIP's thread never has one of these.
LEMMA RxCallbackKeeps == ASSUME IInv, NEW s \in Slots, RxCallback(s) PROVE IInv'
<1>f. Typed
  BY DEF IInv
<1>1. Typed'
  BY <1>f, Fields DEF Typed, RxCallback, Retired, library, ifaces, XferStates
<1>2. LinkOK'
  BY <1>f DEF IInv, LinkOK, RxCallback, library, ifaces
<1>3. CallOK'
  BY <1>f DEF IInv, CallOK, Going, RxCallback, library, ifaces
<1>4. FlagsOK'
  BY <1>f, Fields DEF IInv, Typed, LinkOK, FlagsOK, InLibrary, Slots, RxCallback, Retired,
     library
<1>5. HandleOK'
  BY <1>f DEF IInv, Typed, HandleOK, Stays, RxCallback, library
<1>6. PromptOK'
  BY <1>f DEF IInv, Typed, PromptOK, OutFor, ClaimFor, AllBack, InLibrary, Going,
     RxCallback, library
<1> QED BY <1>1, <1>2, <1>3, <1>4, <1>5, <1>6 DEF IInv

\* A transmit transfer retires; lwIP's thread has another, one the caller owns.
LEMMA TxCallbackKeeps == ASSUME IInv, NEW s \in Slots, TxCallback(s) PROVE IInv'
<1>f. Typed
  BY DEF IInv
<1>1. Typed'
  BY <1>f DEF Typed, TxCallback, Retired, library, ifaces, XferStates
<1>2. LinkOK'
  BY <1>f DEF IInv, LinkOK, TxCallback, library, ifaces
<1>3. CallOK'
  BY <1>f DEF IInv, CallOK, Going, TxCallback, library, ifaces
<1>4. FlagsOK'
  BY <1>f DEF IInv, Typed, FlagsOK, InLibrary, TxCallback, Retired, library
<1>5. HandleOK'
  BY <1>f DEF IInv, Typed, HandleOK, Stays, TxCallback, library
<1>6. PromptOK'
  BY <1>f DEF IInv, Typed, PromptOK, OutFor, ClaimFor, AllBack, InLibrary, Going,
     TxCallback, library
<1> QED BY <1>1, <1>2, <1>3, <1>4, <1>5, <1>6 DEF IInv

\* What was on the bus stays the library's, and an adapter that goes has nothing
\* queued.
LEMMA UnplugKeeps == ASSUME IInv, NEW d \in Devs, Unplug(d) PROVE IInv'
<1>f. Typed
  BY DEF IInv
<1>1. Typed'
  BY <1>f DEF Typed, Unplug, library, ifaces, XferStates
<1>2. LinkOK'
  BY <1>f DEF IInv, LinkOK, Unplug, library, ifaces
<1>3. CallOK'
  BY <1>f DEF IInv, CallOK, Going, Unplug, library, ifaces
<1>4. FlagsOK'
  BY <1>f, Fields DEF IInv, Typed, FlagsOK, InLibrary, Slots, Unplug, library
<1>5. HandleOK'
  BY <1>f DEF IInv, Typed, HandleOK, Stays, Unplug, library
<1>6. PromptOK'
  BY <1>f DEF IInv, Typed, PromptOK, OutFor, ClaimFor, AllBack, InLibrary, Going, Unplug,
     library
<1> QED BY <1>1, <1>2, <1>3, <1>4, <1>5, <1>6 DEF IInv

\* A device comes where nothing of its predecessor is out, and no start is under way.
LEMMA NewDevKeeps == ASSUME IInv, NEW d \in Devs, NewDev(d) PROVE IInv'
<1>f. Typed
  BY DEF IInv
<1>1. Typed'
  BY <1>f DEF Typed, NewDev, library, ifaces
<1>2. LinkOK'
  BY <1>f DEF IInv, LinkOK, NewDev, library, ifaces
<1>3. CallOK'
  BY <1>f DEF IInv, CallOK, NewDev, library, ifaces
<1>4. FlagsOK'
  BY <1>f DEF IInv, Typed, FlagsOK, InLibrary, NewDev, library
<1>5. HandleOK'
  BY <1>f DEF IInv, Typed, HandleOK, Stays, NewDev, library
<1>6. PromptOK'
  BY <1>f DEF IInv, Typed, PromptOK, OutFor, ClaimFor, AllBack, InLibrary, Going, NewDev,
     library
<1> QED BY <1>1, <1>2, <1>3, <1>4, <1>5, <1>6 DEF IInv

\* DEV_GONE closes the adapter, and waits for lwIP's thread if it was open; from
\* here on what is out, and the claim, are DEV_GONE's to give back.
LEMMA GoneBeginKeeps == ASSUME IInv, NEW d \in Devs, GoneBegin(d) PROVE IInv'
<1>f. Typed
  BY DEF IInv
<1>m. /\ host' \in HostType /\ host'.at \in {"link", "close"} /\ host'.dev = d
      /\ net' \in NetType /\ net'.netif = net.netif /\ net'.dev = net.dev
      /\ net'.open <=> net.open /\ net.dev # d
      /\ host'.at = "link" <=> net.open /\ net.dev = d
  <2>1. CASE net.netif /\ net.open /\ net.dev = d
    <3>1. net' = [net EXCEPT !.open = FALSE] /\ host' = [at |-> "link", dev |-> d]
      BY <2>1 DEF GoneBegin, QuiesceGone
    <3>2. /\ net' \in NetType /\ net'.netif = net.netif /\ net'.dev = net.dev
          /\ ~net'.open
      BY <1>f, <3>1 DEF Typed, NetType
    <3> QED BY <2>1, <3>1, <3>2 DEF HostType
  <2>2. CASE ~(net.netif /\ net.open /\ net.dev = d)
    <3>1. net' = net /\ host' = [at |-> "close", dev |-> d]
      BY <2>2 DEF GoneBegin, QuiesceGone
    <3>2. net.open => net.dev # d
      BY <2>2 DEF IInv, LinkOK
    <3> QED BY <1>f, <3>1, <3>2 DEF Typed, HostType
  <2> QED BY <2>1, <2>2
<1>1. Typed'
  BY <1>f, <1>m DEF Typed, GoneBegin, library, ifaces
<1>2. LinkOK'
  BY <1>f, <1>m DEF IInv, LinkOK, GoneBegin, library, ifaces
<1>3. CallOK'
  BY <1>f, <1>m DEF IInv, CallOK, Going, GoneBegin, library, ifaces
<1>4. FlagsOK'
  BY <1>f, <1>m DEF IInv, Typed, FlagsOK, InLibrary, GoneBegin, library
<1>5. HandleOK'
  BY <1>f, <1>m, Fields, SlotsAssumption DEF IInv, Typed, LinkOK, CallOK, HandleOK, Stays,
     Going, GoneBegin, library, ifaces, Idle, Pump, StartAts, StopAts
<1>6. PromptOK'
  BY <1>f, <1>m DEF IInv, Typed, PromptOK, OutFor, ClaimFor, AllBack, InLibrary, Going,
     GoneBegin, library
<1> QED BY <1>1, <1>2, <1>3, <1>4, <1>5, <1>6 DEF IInv

\* The link comes down while lwIP's thread is out.
LEMMA GoneLinkKeeps == ASSUME IInv, GoneLink PROVE IInv'
<1>f. Typed
  BY DEF IInv
<1>1. Typed'
  BY <1>f, Fields DEF Typed, GoneLink, LinkDown, library, ifaces, HostType
<1>2. LinkOK'
  BY <1>f, Fields DEF IInv, LinkOK, GoneLink, LinkDown, library
<1>3. CallOK'
  BY <1>f DEF IInv, CallOK, Going, GoneLink, LinkDown, library
<1>4. FlagsOK'
  BY <1>f DEF IInv, Typed, FlagsOK, InLibrary, GoneLink, library
<1>5. HandleOK'
  BY <1>f DEF IInv, Typed, HandleOK, Stays, GoneLink, library
<1>6. PromptOK'
  BY <1>f DEF IInv, Typed, PromptOK, OutFor, ClaimFor, AllBack, InLibrary, Going, GoneLink,
     library
<1> QED BY <1>1, <1>2, <1>3, <1>4, <1>5, <1>6 DEF IInv

\* The device is closed: its claim is gone, and no call that is not overlapped is at it.
LEMMA GoneCloseKeeps == ASSUME IInv, GoneClose PROVE IInv'
<1>f. Typed
  BY DEF IInv
<1>1. Typed'
  BY <1>f, Fields DEF Typed, GoneClose, library, ifaces, HostType
<1>2. LinkOK'
  BY <1>f DEF IInv, LinkOK, GoneClose, library, ifaces, Pump
<1>3. CallOK'
  BY <1>f, Fields DEF IInv, Typed, CallOK, Going, GoneClose, library, ifaces, Pump
<1>4. FlagsOK'
  BY <1>f DEF IInv, Typed, LinkOK, FlagsOK, InLibrary, GoneClose, library
<1>5. HandleOK'
  BY <1>f DEF IInv, Typed, HandleOK, Stays, GoneClose, library, Pump
<1>6. PromptOK'
  BY <1>f DEF IInv, Typed, PromptOK, OutFor, ClaimFor, AllBack, InLibrary, Going, GoneClose,
     library
<1> QED BY <1>1, <1>2, <1>3, <1>4, <1>5, <1>6 DEF IInv

\* lwIP's thread enters with the link up and the adapter open.
LEMMA TxBeginKeeps == ASSUME IInv, TxBegin PROVE IInv'
<1>f. Typed
  BY DEF IInv
<1>1. Typed'
  BY <1>f DEF Typed, TxBegin, library, ifaces, TxType
<1>2. LinkOK'
  BY <1>f DEF IInv, LinkOK, TxBegin, library, ifaces
<1>3. CallOK'
  BY <1>f DEF IInv, CallOK, TxBegin, library
<1>4. FlagsOK'
  BY <1>f, Fields DEF IInv, Typed, FlagsOK, InLibrary, TxBegin, library
<1>5. HandleOK'
  BY <1>f DEF IInv, Typed, HandleOK, Stays, TxBegin, library
<1>6. PromptOK'
  BY <1>f DEF IInv, Typed, PromptOK, OutFor, ClaimFor, AllBack, InLibrary, Going, TxBegin,
     library
<1> QED BY <1>1, <1>2, <1>3, <1>4, <1>5, <1>6 DEF IInv

\* It takes a transfer by its flag: the flag is exact, so the transfer is its caller's.
LEMMA TxSlotKeeps == ASSUME IInv, TxSlot PROVE IInv'
<1>f. Typed
  BY DEF IInv
<1>m. /\ tx' \in TxType /\ live' \in [Slots -> BOOLEAN]
      /\ \/ \E s \in Tx : /\ ~live[s] /\ tx'.at = "slot" /\ tx'.slot = s
                          /\ live' = [live EXCEPT ![s] = TRUE]
         \/ tx'.at = "idle" /\ live' = live
  <2>1. ASSUME NEW s \in Tx, ~live[s], tx' = [at |-> "slot", slot |-> s],
               live' = [live EXCEPT ![s] = TRUE]
        PROVE  tx' \in TxType /\ live' \in [Slots -> BOOLEAN] /\ tx'.at = "slot" /\ tx'.slot = s
    BY <1>f, <2>1 DEF Typed, TxType
  <2>2. ASSUME tx' = Idle, UNCHANGED live
        PROVE  tx' \in TxType /\ live' \in [Slots -> BOOLEAN] /\ tx'.at = "idle"
    BY <1>f, <2>2 DEF Typed, TxType, Idle
  <2> QED BY <2>1, <2>2 DEF TxSlot
<1>1. Typed'
  BY <1>f, <1>m DEF Typed, TxSlot, library, ifaces
<1>2. LinkOK'
  BY <1>f, <1>m DEF IInv, LinkOK, TxSlot, library, ifaces
<1>3. CallOK'
  BY <1>f, <1>m DEF IInv, CallOK, Going, TxSlot, library, ifaces
<1>4. FlagsOK'
  <2>1. CASE tx'.at = "idle" /\ live' = live
    BY <1>f, <2>1 DEF IInv, FlagsOK, InLibrary, TxSlot, library
  <2>2. ASSUME NEW s \in Tx, ~live[s], tx'.at = "slot", tx'.slot = s,
               live' = [live EXCEPT ![s] = TRUE]
        PROVE  FlagsOK'
    <3>1. tx.at = "checked" /\ UNCHANGED <<hub, net, xfer>>
      BY DEF TxSlot, library
    <3>2. xfer[s] = "caller"
      BY <1>f, <2>2, <3>1 DEF IInv, FlagsOK, InLibrary, Typed, XferStates, Slots
    <3>3. \A q \in Slots : live'[q] <=> live[q] \/ q = s
      BY <1>f, <2>2 DEF Typed
    <3> QED BY <2>2, <3>1, <3>2, <3>3 DEF IInv, FlagsOK, InLibrary
  <2> QED BY <1>m, <2>1, <2>2
<1>5. HandleOK'
  BY <1>f, <1>m DEF IInv, Typed, HandleOK, Stays, TxSlot, library
<1>6. PromptOK'
  BY <1>f, <1>m DEF IInv, Typed, PromptOK, OutFor, ClaimFor, AllBack, InLibrary, Going,
     TxSlot, library
<1> QED BY <1>1, <1>2, <1>3, <1>4, <1>5, <1>6 DEF IInv

\* It submits, on an adapter that is there unless DEV_GONE overlaps a call.
LEMMA TxSubmitKeeps == ASSUME IInv, TxSubmit PROVE IInv'
<1>f. Typed
  BY DEF IInv
<1>1. Typed'
  BY <1>f, Fields DEF Typed, TxSubmit, library, ifaces, TxType, Idle, XferStates
<1>2. LinkOK'
  BY <1>f DEF IInv, LinkOK, TxSubmit, library, ifaces
<1>3. CallOK'
  BY <1>f DEF IInv, LinkOK, CallOK, TxSubmit, library
<1>4. FlagsOK'
  BY <1>f DEF IInv, Typed, LinkOK, FlagsOK, InLibrary, TxSubmit, library, Idle
<1>5. HandleOK'
  BY <1>f DEF IInv, Typed, LinkOK, HandleOK, Stays, TxSubmit, library
<1>6. PromptOK'
  BY <1>f DEF IInv, Typed, LinkOK, CallOK, PromptOK, OutFor, ClaimFor, AllBack, InLibrary,
     Going, TxSubmit, library, StopAts
<1> QED BY <1>1, <1>2, <1>3, <1>4, <1>5, <1>6 DEF IInv

\* The lock is free and the adapter closed: with a prompt library nothing is out.
LEMMA StartClaimsKeeps == ASSUME IInv, NEW d \in Devs, StartClaims(d) PROVE IInv'
<1>f. Typed
  BY DEF IInv
<1>1. Typed'
  BY <1>f DEF Typed, StartClaims, library, ifaces, VmType, StartAts
<1>2. LinkOK'
  BY <1>f DEF IInv, LinkOK, StartClaims, library, ifaces
<1>3. CallOK'
  BY <1>f DEF IInv, CallOK, StartClaims, LockHeld, library, StopAts
<1>4. FlagsOK'
  BY <1>f DEF IInv, Typed, FlagsOK, InLibrary, StartClaims, library
<1>5. HandleOK'
  BY <1>f DEF IInv, Typed, HandleOK, Stays, StartClaims, LockHeld, library
<1>6. PromptOK'
  BY <1>f, Fields, SlotsAssumption DEF IInv, Typed, PromptOK, OutFor, ClaimFor, AllBack,
     InLibrary, Going, StartClaims, LockHeld, library, StartAts
<1> QED BY <1>1, <1>2, <1>3, <1>4, <1>5, <1>6 DEF IInv

\* lwIP's thread is out, so nobody uses what is forgotten here, but the library.
LEMMA StartAllocatesKeeps == ASSUME IInv, StartAllocates PROVE IInv'
<1>f. Typed
  BY DEF IInv
<1>m. /\ vm' \in VmType /\ vm'.dev = vm.dev
      /\ \/ vm'.at = "wild" /\ ~AllBack /\ \A s \in Slots : xfer'[s] = "free"
         \/ vm'.at = "netif" /\ AllBack /\ \A s \in Slots : xfer'[s] = "caller"
         \/ vm'.at = "undo" /\ AllBack /\ \A s \in Slots : xfer'[s] = "free"
  <2>1. \A at \in {"wild", "netif", "undo"} :
          Goes(at) => vm' \in VmType /\ vm'.at = at /\ vm'.dev = vm.dev
    BY <1>f, CallMoves DEF StartAllocates, Typed, StartAts
  <2> QED BY <2>1 DEF StartAllocates, AllBack
<1>1. Typed'
  BY <1>f, <1>m, Fields DEF Typed, StartAllocates, library, NetType, XferStates
<1>2. LinkOK'
  BY <1>f, <1>m, Fields DEF IInv, LinkOK, CallOK, StartAllocates, library, ifaces, Idle,
     Pump, StartAts, StopAts
<1>3. CallOK'
  BY <1>f, <1>m DEF IInv, CallOK, StartAllocates, library, StopAts
<1>4. FlagsOK'
  BY <1>f, <1>m DEF IInv, Typed, LinkOK, CallOK, FlagsOK, InLibrary, StartAllocates, library
<1>5. HandleOK'
  BY <1>f, <1>m, Fields DEF IInv, Typed, HandleOK, Stays, StartAllocates, library, StopAts
<1>6. PromptOK'
  BY <1>f, <1>m DEF IInv, Typed, CallOK, PromptOK, OutFor, ClaimFor, AllBack, InLibrary,
     Going, StartAllocates, library, StartAts
<1> QED BY <1>1, <1>2, <1>3, <1>4, <1>5, <1>6 DEF IInv

\* The interface exists, or all is undone; nothing is out in either case.
LEMMA StartNetifKeeps == ASSUME IInv, StartNetif PROVE IInv'
<1>f. Typed
  BY DEF IInv
<1>m. /\ vm' \in VmType /\ vm'.dev = vm.dev
      /\ \/ vm'.at = "open" /\ ~orphan /\ net'.netif /\ UNCHANGED xfer
         \/ vm'.at = "undo" /\ UNCHANGED net /\ xfer' = [s \in Slots |-> "free"]
      /\ net' \in NetType /\ net'.open = net.open /\ net'.dev = net.dev
  <2>1. \A at \in {"open", "undo"} :
          Goes(at) => vm' \in VmType /\ vm'.at = at /\ vm'.dev = vm.dev
    BY <1>f, CallMoves DEF StartNetif, Typed, StartAts
  <2>2. \A s \in Slots : ~live[s]
    BY <1>f DEF IInv, LinkOK, CallOK, FlagsOK, InLibrary, StartNetif
  <2>3. LET n == [net EXCEPT !.netif = TRUE] IN
        n \in NetType /\ n.open = net.open /\ n.dev = net.dev /\ n.netif
    BY <1>f DEF Typed, NetType
  <2> QED BY <1>f, <2>1, <2>2, <2>3 DEF StartNetif, FreeXfers, Typed
<1>1. Typed'
  BY <1>f, <1>m DEF Typed, StartNetif, library, ifaces, XferStates
<1>2. LinkOK'
  BY <1>f, <1>m, Fields DEF IInv, LinkOK, CallOK, StartNetif, library, ifaces
<1>3. CallOK'
  BY <1>f, <1>m DEF IInv, LinkOK, CallOK, StartNetif, library, ifaces, StopAts
<1>4. FlagsOK'
  BY <1>f, <1>m DEF IInv, Typed, LinkOK, CallOK, FlagsOK, InLibrary, StartNetif, library
<1>5. HandleOK'
  BY <1>f, <1>m, Fields DEF IInv, Typed, HandleOK, Stays, StartNetif, library, StopAts
<1>6. PromptOK'
  BY <1>f, <1>m DEF IInv, Typed, PromptOK, OutFor, ClaimFor, AllBack, InLibrary, Going,
     StartNetif, library, StartAts
<1> QED BY <1>1, <1>2, <1>3, <1>4, <1>5, <1>6 DEF IInv

\* The claim is given back.
LEMMA StartUndoesKeeps == ASSUME IInv, StartUndoes PROVE IInv'
<1>f. Typed
  BY DEF IInv
<1>1. Typed'
  BY <1>f, Fields DEF Typed, StartUndoes, library, ifaces, VmType
<1>2. LinkOK'
  BY <1>f DEF IInv, LinkOK, StartUndoes, library, ifaces
<1>3. CallOK'
  BY <1>f DEF IInv, CallOK, StartUndoes, library, Idle, StopAts
<1>4. FlagsOK'
  BY <1>f DEF IInv, Typed, FlagsOK, InLibrary, StartUndoes, library
<1>5. HandleOK'
  BY <1>f DEF IInv, Typed, HandleOK, StartUndoes, library, Idle, StartAts
<1>6. PromptOK'
  BY <1>f, Fields DEF IInv, Typed, CallOK, PromptOK, OutFor, ClaimFor, AllBack, InLibrary,
     Going, StartUndoes, library, Idle
<1> QED BY <1>1, <1>2, <1>3, <1>4, <1>5, <1>6 DEF IInv

\* The adapter opens with everything in place.
LEMMA StartOpensKeeps == ASSUME IInv, StartOpens PROVE IInv'
<1>f. Typed
  BY DEF IInv
<1>m. vm' \in VmType /\ vm'.at = "submit" /\ vm'.dev = vm.dev
  BY <1>f, CallMoves DEF StartOpens, Typed, StartAts
<1>1. Typed'
  BY <1>f, <1>m, Fields DEF Typed, StartOpens, library, ifaces, NetType
<1>2. LinkOK'
  BY <1>f, <1>m DEF IInv, LinkOK, CallOK, StartOpens, library, ifaces
<1>3. CallOK'
  BY <1>f, <1>m DEF IInv, CallOK, StartOpens, library, ifaces, StopAts
<1>4. FlagsOK'
  BY <1>f, <1>m DEF IInv, Typed, CallOK, FlagsOK, InLibrary, StartOpens, library
<1>5. HandleOK'
  BY <1>f, <1>m, Fields DEF IInv, Typed, CallOK, HandleOK, Stays, StartOpens, library,
     StopAts
<1>6. PromptOK'
  BY <1>f, <1>m DEF IInv, Typed, PromptOK, OutFor, ClaimFor, Going, StartOpens, library,
     StartAts
<1> QED BY <1>1, <1>2, <1>3, <1>4, <1>5, <1>6 DEF IInv

\* What the library takes has its flag, and only that.
LEMMA StartSubmitsKeeps == ASSUME IInv, StartSubmits PROVE IInv'
<1>f. Typed
  BY DEF IInv
<1>m. vm' \in VmType /\ vm'.at = "up" /\ vm'.dev = vm.dev
  BY <1>f, CallMoves DEF StartSubmits, Typed, StartAts
<1>1. Typed'
  BY <1>f, <1>m, Fields DEF Typed, StartSubmits, library, ifaces, XferStates
<1>2. LinkOK'
  BY <1>f, <1>m DEF IInv, LinkOK, StartSubmits, library, ifaces
<1>3. CallOK'
  BY <1>f, <1>m DEF IInv, CallOK, Going, StartSubmits, library, ifaces, StopAts
<1>4. FlagsOK'
  <2>1. /\ tx.at = "idle" /\ \A s \in Slots : xfer[s] = "caller"
        /\ UNCHANGED <<hub, net, tx>> /\ net.dev = vm.dev /\ net.dev \in Devs
    BY <1>f DEF IInv, LinkOK, CallOK, StartSubmits, library
  <2>2. PICK ok \in SUBSET Rx :
          /\ ok # {} => hub[vm.dev] = "open"
          /\ xfer' = [s \in Slots |-> IF s \in ok THEN "queued" ELSE xfer[s]]
          /\ live' = [s \in Slots |-> s \in ok]
    BY DEF StartSubmits
  <2>3. \A s \in Slots : (live'[s] <=> s \in ok) /\ (InLibrary(s)' <=> s \in ok) /\ xfer'[s] # "free"
    BY <2>1, <2>2 DEF InLibrary
  <2>4. ok # {} => net.open
    BY <2>1, <2>2, <1>f DEF IInv, LinkOK, CallOK, Going, StartSubmits
  <2>5. \A s \in Slots : xfer'[s] = "queued" => net.open /\ hub[net.dev] = "open"
    BY <2>1, <2>2, <2>4
  <2> QED BY <2>1, <2>3, <2>5 DEF FlagsOK
<1>5. HandleOK'
  BY <1>f, <1>m, Fields DEF IInv, Typed, HandleOK, Stays, StartSubmits, library, StopAts
<1>6. PromptOK'
  BY <1>f, <1>m, Fields DEF IInv, Typed, CallOK, PromptOK, OutFor, ClaimFor, Going,
     StartSubmits, library
<1> QED BY <1>1, <1>2, <1>3, <1>4, <1>5, <1>6 DEF IInv

\* The link comes up.
LEMMA StartUpKeeps == ASSUME IInv, StartUp PROVE IInv'
<1>f. Typed
  BY DEF IInv
<1>1. Typed'
  BY <1>f DEF Typed, StartUp, library, VmType
<1>2. LinkOK'
  BY <1>f DEF IInv, LinkOK, CallOK, StartUp, library
<1>3. CallOK'
  BY <1>f DEF IInv, CallOK, StartUp, library, Idle, StopAts
<1>4. FlagsOK'
  BY <1>f DEF IInv, Typed, FlagsOK, InLibrary, StartUp, library
<1>5. HandleOK'
  BY <1>f DEF IInv, Typed, HandleOK, StartUp, library, Idle, StartAts
<1>6. PromptOK'
  BY <1>f, Fields DEF IInv, Typed, CallOK, PromptOK, OutFor, ClaimFor, Going, StartUp,
     library, Idle
<1> QED BY <1>1, <1>2, <1>3, <1>4, <1>5, <1>6 DEF IInv

\* With a prompt library a stop that DEV_GONE does not overlap finds a closed adapter
\* with nothing out and no claim.
LEMMA StopBeginKeeps == ASSUME IInv, StopBegin PROVE IInv'
<1>f. Typed
  BY DEF IInv
<1>m. vm' \in VmType /\ vm'.at = "actions" /\ vm'.dev = net.dev /\ (vm'.was <=> net.open)
  BY <1>f, Fields DEF StopBegin, IInv, LinkOK, VmType, StopAts
<1>1. Typed'
  BY <1>f, <1>m DEF Typed, StopBegin, library, ifaces
<1>2. LinkOK'
  BY <1>f, <1>m DEF IInv, LinkOK, StopBegin, library, ifaces
<1>3. CallOK'
  BY <1>f, <1>m DEF IInv, CallOK, StopBegin, library
<1>4. FlagsOK'
  BY <1>f, <1>m DEF IInv, Typed, FlagsOK, InLibrary, StopBegin, library
<1>5. HandleOK'
  BY <1>f, <1>m, Fields DEF IInv, Typed, HandleOK, Stays, StopBegin, LockHeld, library,
     StartAts
<1>6. PromptOK'
  <2>1. /\ vm.at = "idle" /\ net.netif /\ net.dev \in Devs
        /\ UNCHANGED <<hub, claim, net, xfer, host, prompt>>
        /\ ~raced' => ~raced /\ ~LockHeld
    BY <1>f, Fields DEF StopBegin, library, IInv, LinkOK
  <2>2. ASSUME prompt, ~LockHeld, ~net.open PROVE AllBack /\ claim[net.dev] = "no"
    <3>1. ~Going(net.dev)
      BY <2>2 DEF Going, LockHeld
    <3>2. net.dev # None
      BY <2>1, SlotsAssumption
    <3>3. AllBack
      BY <2>1, <2>2, <3>1, <3>2 DEF IInv, PromptOK, OutFor, AllBack, LockHeld
    <3>4. claim[net.dev] = "no"
      BY <2>1, <2>2, <3>1 DEF IInv, PromptOK, ClaimFor, StartAts
    <3> QED BY <3>3, <3>4
  <2>3. (AllBack' <=> AllBack) /\ \A d \in Devs : Going(d)' <=> Going(d)
    BY <2>1 DEF AllBack, InLibrary, Going
  <2>4. prompt => OutFor' /\ \A d \in Devs : ClaimFor(d)'
    BY <1>m, <2>1, <2>3 DEF IInv, PromptOK, OutFor, ClaimFor, StartAts
  <2> QED BY <1>m, <2>1, <2>2, <2>3, <2>4 DEF PromptOK
<1> QED BY <1>1, <1>2, <1>3, <1>4, <1>5, <1>6 DEF IInv

\* The link comes down while lwIP's thread is out, and stays down.
LEMMA StopActionsKeeps == ASSUME IInv, StopActions PROVE IInv'
<1>f. Typed
  BY DEF IInv
<1>m. /\ vm' \in VmType /\ vm'.dev = vm.dev /\ vm'.was = vm.was
      /\ (vm'.at = "quiesce" /\ vm.was) \/ (vm'.at = "free" /\ ~vm.was)
  <2>1. \A at \in {"quiesce", "free"} :
          Goes(at) => vm' \in VmType /\ vm'.at = at /\ vm'.dev = vm.dev /\ vm'.was = vm.was
    BY <1>f, CallMoves DEF StopActions, Typed, StopAts
  <2> QED BY <2>1 DEF StopActions
<1>1. Typed'
  BY <1>f, <1>m, Fields DEF Typed, StopActions, LinkDown, library, ifaces
<1>2. LinkOK'
  BY <1>f, <1>m, Fields DEF IInv, LinkOK, StopActions, LinkDown, library
<1>3. CallOK'
  BY <1>f, <1>m DEF IInv, CallOK, StopActions, LinkDown, library, StopAts
<1>4. FlagsOK'
  BY <1>f, <1>m DEF IInv, Typed, FlagsOK, InLibrary, StopActions, library
<1>5. HandleOK'
  BY <1>f, <1>m DEF IInv, Typed, HandleOK, Stays, StopActions, library, StartAts
<1>6. PromptOK'
  BY <1>f, <1>m DEF IInv, Typed, PromptOK, OutFor, ClaimFor, AllBack, InLibrary, Going,
     StopActions, library, StartAts
<1> QED BY <1>1, <1>2, <1>3, <1>4, <1>5, <1>6 DEF IInv

\* What was queued is cancelled, still the library's.
LEMMA StopQuiescesKeeps == ASSUME IInv, StopQuiesces PROVE IInv'
<1>f. Typed
  BY DEF IInv
<1>m. vm' \in VmType /\ vm'.at = "wait" /\ vm'.dev = vm.dev /\ vm'.was = vm.was
  BY <1>f, CallMoves DEF StopQuiesces, Typed, StopAts
<1>1. Typed'
  BY <1>f, <1>m, Fields DEF Typed, StopQuiesces, LockHeld, library, ifaces, NetType,
     XferStates
<1>2. LinkOK'
  BY <1>f, <1>m DEF IInv, LinkOK, CallOK, StopQuiesces, library, ifaces, StopAts
<1>3. CallOK'
  BY <1>f, <1>m DEF IInv, CallOK, StopQuiesces, library, ifaces, StopAts
<1>4. FlagsOK'
  BY <1>f, <1>m, Fields DEF IInv, Typed, FlagsOK, InLibrary, Slots, StopQuiesces, library
<1>5. HandleOK'
  BY <1>f, <1>m DEF IInv, Typed, HandleOK, Stays, StopQuiesces, library
<1>6. PromptOK'
  BY <1>f, <1>m, Fields DEF IInv, Typed, CallOK, PromptOK, OutFor, ClaimFor, Going,
     StopQuiesces, library, StopAts
<1> QED BY <1>1, <1>2, <1>3, <1>4, <1>5, <1>6 DEF IInv

\* With a prompt library everything is back when the wait is over.
LEMMA StopWaitsKeeps == ASSUME IInv, StopWaits PROVE IInv'
<1>f. Typed
  BY DEF IInv
<1>m. vm' \in VmType /\ vm'.at = "clear" /\ vm'.dev = vm.dev /\ vm'.was = vm.was
  BY <1>f, CallMoves DEF StopWaits, Typed, StopAts
<1>1. Typed'
  BY <1>f, <1>m DEF Typed, StopWaits, library, ifaces
<1>2. LinkOK'
  BY <1>f, <1>m DEF IInv, LinkOK, StopWaits, library, ifaces
<1>3. CallOK'
  BY <1>f, <1>m DEF IInv, CallOK, StopWaits, library, ifaces, StopAts
<1>4. FlagsOK'
  BY <1>f, <1>m DEF IInv, Typed, FlagsOK, InLibrary, StopWaits, library
<1>5. HandleOK'
  BY <1>f, <1>m DEF IInv, Typed, HandleOK, Stays, StopWaits, library
<1>6. PromptOK'
  BY <1>f, <1>m DEF IInv, Typed, CallOK, FlagsOK, PromptOK, OutFor, ClaimFor, AllBack,
     InLibrary, Going, StopWaits, WaitOver, library, StopAts
<1> QED BY <1>1, <1>2, <1>3, <1>4, <1>5, <1>6 DEF IInv

\* The endpoints are cleared.
LEMMA StopClearsKeeps == ASSUME IInv, StopClears PROVE IInv'
<1>f. Typed
  BY DEF IInv
<1>m. vm' \in VmType /\ vm'.at = "release" /\ vm'.dev = vm.dev /\ vm'.was = vm.was
  BY <1>f, CallMoves DEF StopClears, Typed, StopAts
<1>1. Typed'
  BY <1>f, <1>m, Fields DEF Typed, StopClears, library, ifaces
<1>2. LinkOK'
  BY <1>f, <1>m DEF IInv, LinkOK, StopClears, library, ifaces
<1>3. CallOK'
  BY <1>f, <1>m DEF IInv, CallOK, StopClears, library, ifaces, StopAts
<1>4. FlagsOK'
  BY <1>f, <1>m DEF IInv, Typed, FlagsOK, InLibrary, StopClears, library
<1>5. HandleOK'
  BY <1>f, <1>m DEF IInv, Typed, HandleOK, Stays, StopClears, library
<1>6. PromptOK'
  BY <1>f, <1>m DEF IInv, Typed, PromptOK, OutFor, ClaimFor, AllBack, InLibrary, Going,
     StopClears, library
<1> QED BY <1>1, <1>2, <1>3, <1>4, <1>5, <1>6 DEF IInv

\* With a prompt library the claim is given back.
LEMMA StopReleasesKeeps == ASSUME IInv, StopReleases PROVE IInv'
<1>f. Typed
  BY DEF IInv
<1>m. vm' \in VmType /\ vm'.at = "free" /\ vm'.dev = vm.dev /\ vm'.was = vm.was
  BY <1>f, CallMoves DEF StopReleases, Typed, StopAts
<1>1. Typed'
  BY <1>f, <1>m, Fields DEF Typed, StopReleases, library, ifaces
<1>2. LinkOK'
  BY <1>f, <1>m DEF IInv, LinkOK, StopReleases, library, ifaces
<1>3. CallOK'
  BY <1>f, <1>m DEF IInv, CallOK, StopReleases, library, ifaces, StopAts
<1>4. FlagsOK'
  BY <1>f, <1>m DEF IInv, Typed, FlagsOK, InLibrary, StopReleases, library
<1>5. HandleOK'
  BY <1>f, <1>m DEF IInv, Typed, HandleOK, StopReleases, library, StartAts
<1>6. PromptOK'
  BY <1>f, <1>m, Fields DEF IInv, Typed, PromptOK, OutFor, ClaimFor, AllBack, InLibrary,
     Going, StopReleases, library
<1> QED BY <1>1, <1>2, <1>3, <1>4, <1>5, <1>6 DEF IInv

\* What has no flag is freed: nothing that is out.
LEMMA StopFreesKeeps == ASSUME IInv, StopFrees PROVE IInv'
<1>f. Typed
  BY DEF IInv
<1>m. vm' \in VmType /\ vm'.at = "destroy" /\ vm'.dev = vm.dev /\ vm'.was = vm.was
  BY <1>f, CallMoves DEF StopFrees, Typed, StopAts
<1>1. Typed'
  BY <1>f, <1>m DEF Typed, StopFrees, FreeXfers, library, ifaces, XferStates
<1>2. LinkOK'
  BY <1>f, <1>m DEF IInv, LinkOK, StopFrees, library, ifaces
<1>3. CallOK'
  BY <1>f, <1>m DEF IInv, CallOK, StopFrees, library, ifaces, StopAts
<1>4. FlagsOK'
  BY <1>f, <1>m DEF IInv, Typed, LinkOK, CallOK, FlagsOK, InLibrary, StopFrees, FreeXfers,
     library, StopAts
<1>5. HandleOK'
  BY <1>f, <1>m DEF IInv, Typed, HandleOK, StopFrees, library, StartAts
<1>6. PromptOK'
  BY <1>f, <1>m, Fields DEF IInv, Typed, LinkOK, CallOK, FlagsOK, PromptOK, OutFor,
     ClaimFor, AllBack, InLibrary, Going, StopFrees, FreeXfers, library, StartAts
<1> QED BY <1>1, <1>2, <1>3, <1>4, <1>5, <1>6 DEF IInv

\* The interface goes, and a stop that nothing overlapped leaves nothing behind.
LEMMA StopDestroysKeeps == ASSUME IInv, StopDestroys PROVE IInv'
<1>f. Typed
  BY DEF IInv
<1>1. Typed'
  BY <1>f, Fields DEF Typed, StopDestroys, LockHeld, library, ifaces, VmType, NetType
<1>2. LinkOK'
  BY <1>f DEF IInv, LinkOK, CallOK, StopDestroys, library, ifaces, StopAts
<1>3. CallOK'
  BY <1>f DEF IInv, CallOK, StopDestroys, library, Idle, StopAts
<1>4. FlagsOK'
  BY <1>f DEF IInv, Typed, FlagsOK, InLibrary, StopDestroys, library
<1>5. HandleOK'
  BY <1>f, Fields DEF IInv, Typed, CallOK, HandleOK, StopDestroys, library, Idle, StartAts
<1>6. PromptOK'
  BY <1>f, Fields DEF IInv, Typed, CallOK, PromptOK, OutFor, ClaimFor, AllBack, InLibrary,
     Going, StopDestroys, LockHeld, library, Idle, StartAts
<1> QED BY <1>1, <1>2, <1>3, <1>4, <1>5, <1>6 DEF IInv

----------------------------------------------------------------------------
(* The theorems.                                                           *)

\* At first no adapter is used and no call is in progress.
LEMMA InitIInv == Init => IInv
<1> SUFFICES ASSUME Init PROVE IInv
  OBVIOUS
<1>1. Typed
  BY DEF Init, Typed, NetType, XferStates, VmType, TxType, HostType, Pump
<1>2. LinkOK /\ CallOK /\ HandleOK
  BY DEF Init, LinkOK, CallOK, HandleOK, Idle, Pump, StartAts, StopAts
<1>3. FlagsOK
  BY DEF Init, FlagsOK, InLibrary, Idle
<1>4. PromptOK
  BY <1>1 DEF Init, PromptOK, OutFor, ClaimFor, AllBack, InLibrary, Idle, Typed
<1> QED BY <1>1, <1>2, <1>3, <1>4 DEF IInv

\* Every step of a start and of a stop.
LEMMA CallKeeps == ASSUME IInv, CallGoesOn PROVE IInv'
BY StartAllocatesKeeps, StartNetifKeeps, StartUndoesKeeps, StartOpensKeeps,
   StartSubmitsKeeps,
   StartUpKeeps, StopActionsKeeps, StopQuiescesKeeps, StopWaitsKeeps, StopClearsKeeps,
   StopReleasesKeeps, StopFreesKeeps, StopDestroysKeeps DEF CallGoesOn

\* Every step keeps the invariant, one lemma for each action.
LEMMA NextIInv == IInv /\ [Next]_vars => IInv'
<1> SUFFICES ASSUME IInv, [Next]_vars PROVE IInv'
  OBVIOUS
<1>1. ASSUME NEW s \in Slots, Complete(s) \/ Callback(s)
      PROVE  IInv'
  BY <1>1, CompleteKeeps, RxCallbackKeeps, TxCallbackKeeps DEF Callback
<1>2. ASSUME NEW d \in Devs, Unplug(d) \/ NewDev(d) \/ GoneBegin(d) \/ StartClaims(d)
      PROVE  IInv'
  BY <1>2, UnplugKeeps, NewDevKeeps, GoneBeginKeeps, StartClaimsKeeps
<1>3. CASE Handler
  BY <1>3, GoneLinkKeeps, GoneCloseKeeps DEF Handler
<1>4. CASE TxBegin \/ Transmits
  BY <1>4, TxBeginKeeps, TxSlotKeeps, TxSubmitKeeps DEF Transmits
<1>5. CASE StopBegin \/ CallGoesOn
  BY <1>5, StopBeginKeeps, CallKeeps
<1>6. CASE UNCHANGED vars
  <2>1. Typed' /\ LinkOK' /\ CallOK'
    BY <1>6 DEF vars, library, IInv, Typed, LinkOK, CallOK, Going
  <2>2. FlagsOK' /\ HandleOK'
    BY <1>6 DEF vars, library, IInv, FlagsOK, InLibrary, HandleOK, Stays
  <2>3. PromptOK'
    BY <1>6 DEF vars, library, IInv, PromptOK, OutFor, ClaimFor, AllBack, InLibrary, Going
  <2> QED BY <2>1, <2>2, <2>3 DEF IInv
<1> QED BY <1>1, <1>2, <1>3, <1>4, <1>5, <1>6 DEF Next

\* Who keeps lwIP's thread out, what the calls have done, and whose move it is.
THEOREM Invariance == Spec => []IInv
BY InitIInv, NextIInv, PTL DEF Spec

\* The invariant implies what the run checks.
LEMMA IInvConsistent == IInv => Consistent
<1> SUFFICES ASSUME IInv PROVE Consistent
  OBVIOUS
<1>1. Typed
  BY DEF IInv
<1>2. TypeOK
  BY <1>1, Fields DEF TypeOK, IInv, LinkOK, Typed, NetType, XferStates
<1>3. FlagsExact
  BY DEF FlagsExact, IInv, FlagsOK
<1>4. HandleOpen
  <2>1. ~raced /\ tx # Idle => hub[net.dev] # "absent"
    BY <1>1, Fields DEF IInv, LinkOK, HandleOK
  <2> QED BY <2>1 DEF HandleOpen, IInv, HandleOK
<1>5. StopGivesBack
  BY <1>1, Fields DEF StopGivesBack, IInv, PromptOK
<1> QED BY <1>2, <1>3, <1>4, <1>5 DEF Consistent, IInv, FlagsOK

\* For any adapters and numbers of transfers: the flags the three threads trust
\* without a lock are exact, lwIP's thread fills no transfer that is freed or in
\* the library's hands, the handle of a closed device is not used unless DEV_GONE
\* overlaps a start or a stop, and a stop gives everything back in time.
THEOREM NetConsistent == Spec => []Consistent
BY Invariance, IInvConsistent, PTL

----------------------------------------------------------------------------
(* What is freed.                                                          *)

InUse(s) == InLibrary(s) \/ (tx.at = "slot" /\ tx.slot = s)
FreesUnused == vm'.at # "wild" => \A s \in Slots : InUse(s) => xfer'[s] # "free"

\* What is in use is not free, so what a step leaves alone is not freed.
LEMMA KeptInUse ==
  ASSUME IInv, NEW s \in Slots, InUse(s), xfer'[s] = xfer[s]
  PROVE  xfer'[s] # "free"
BY DEF IInv, FlagsOK, InUse, InLibrary

\* The steps that free: those of a start, before anything is out, and
\* free_xfers, by the flags.
LEMMA NextFrees == ASSUME IInv, [Next]_vars PROVE FreesUnused
<1>f. Typed
  BY DEF IInv
<1>1. ASSUME NEW s \in Slots, InUse(s), xfer'[s] # xfer[s], vm'.at # "wild", [Next]_vars
      PROVE  xfer'[s] # "free"
  <2>1. ASSUME NEW q \in Slots, Complete(q) \/ Callback(q) PROVE xfer'[s] # "free"
    BY <1>f, <1>1, <2>1 DEF Complete, Callback, RxCallback, TxCallback, Retired, Typed
  <2>2. ASSUME NEW d \in Devs, Unplug(d) PROVE xfer'[s] # "free"
    BY <1>1, <2>2 DEF Unplug
  <2>3. ASSUME NEW d \in Devs, NewDev(d) \/ GoneBegin(d) \/ StartClaims(d) PROVE FALSE
    BY <1>1, <2>3 DEF NewDev, GoneBegin, StartClaims
  <2>4. CASE Handler \/ TxBegin \/ TxSlot \/ StopBegin \/ UNCHANGED vars
    BY <1>1, <2>4 DEF Handler, GoneLink, GoneClose, TxBegin, TxSlot, StopBegin, vars
  <2>5. CASE TxSubmit
    BY <1>f, <1>1, <2>5 DEF TxSubmit, Typed
  <2>6. CASE StartAllocates \/ StartNetif
    <3>1. tx.at = "idle" /\ ~InLibrary(s)
      <4>1. tx.at = "idle"
        BY <1>f, <2>6 DEF IInv, LinkOK, CallOK, StartAllocates, StartNetif
      <4>2. CASE StartNetif
        BY <4>1, <4>2 DEF IInv, CallOK, StartNetif, InLibrary
      <4>3. CASE StartAllocates
        <5>1. vm.at \in StartAts \cup {"wild"} /\ vm \in VmType
          BY <1>f, <4>3 DEF StartAllocates, StartAts, Typed
        <5>2. Goes("wild") => vm'.at = "wild"
          BY <5>1, CallMoves DEF StartAts
        <5> QED BY <1>1, <4>1, <4>3, <5>2 DEF StartAllocates
      <4> QED BY <2>6, <4>1, <4>2, <4>3
    <3> QED BY <1>1, <3>1 DEF InUse
  <2>7. CASE StartUndoes \/ StartOpens \/ StartUp \/ StopActions
    BY <1>1, <2>7 DEF StartUndoes, StartOpens, StartUp, StopActions
  <2>8. CASE StartSubmits \/ StopQuiesces
    BY <1>1, <2>8 DEF StartSubmits, StopQuiesces
  <2>9. CASE StopWaits \/ StopClears \/ StopReleases \/ StopDestroys
    BY <1>1, <2>9 DEF StopWaits, StopClears, StopReleases, StopDestroys
  <2>10. CASE StopFrees
    BY <1>1, <2>10 DEF StopFrees, FreeXfers, IInv, FlagsOK, InUse
  <2> QED BY <1>1, <2>1, <2>2, <2>3, <2>4, <2>5, <2>6, <2>7, <2>8, <2>9, <2>10
          DEF Next, Transmits, CallGoesOn
<1> QED BY <1>1, KeptInUse DEF FreesUnused

\* For any adapters and numbers of transfers: no step frees a transfer that is in
\* the library's hands or in the transmitter's (free_xfers, usbif_net_transmit).
THEOREM FreesNothingInUse == Spec => NothingFreedInUse
<1>1. IInv /\ [Next]_vars => [FreesUnused]_vars
  BY NextFrees
<1>2. NothingFreedInUse <=> [][FreesUnused]_vars
  BY PTL DEF NothingFreedInUse, FreesUnused, InUse
<1> QED BY Invariance, <1>1, <1>2, PTL DEF Spec
=============================================================================
