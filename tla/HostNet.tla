------------------------------ MODULE HostNet ------------------------------
(***************************************************************************)
(* The hosted network adapter, src/src/usbif_host_net.c: three threads and *)
(* one structure.  The interpreter starts and stops the interface, mostly  *)
(* without the host lock; lwIP's thread transmits without it; the host     *)
(* task delivers the callbacks and DEV_GONE with it.  What keeps them      *)
(* apart is `open', a flag per transfer, and that the actions of an        *)
(* esp_netif run in lwIP's thread while their caller waits.                *)
(*                                                                         *)
(* Frames are left out: every transfer that completes carries some.        *)
(***************************************************************************)
EXTENDS Integers, FiniteSets

CONSTANTS
  Devs,         \* adapters; one that is replugged may get its handle and id back
  Rx, Tx,       \* the transfers each way: NET_RX_XFERS, NET_TX_XFERS
  None          \* no device

ASSUME SlotsAssumption == Rx \cap Tx = {} /\ None \notin Devs

VARIABLES
  hub,          \* each device: absent, open, or leaving (DEV_GONE queued)
  claim,        \* of its data interface: no, yes, or kept by the library alone
  net,          \* usbif_net: open, netif (or NULL), dev
  xfer,         \* net.rx and net.tx: free (NULL), caller, queued, done or cancelled
  live,         \* rx_live and tx_busy
  orphan,       \* an esp_netif that usbif_net has forgotten
  link,         \* the netif is up: lwIP may transmit on it
  tx,           \* lwIP's thread
  host,         \* the host task: in its pump, or in DEV_GONE's handler
  vm,           \* the interpreter's call
  used,         \* the device whose handle the last step passed to the library
  raced,        \* DEV_GONE came during a start or a stop, and no clean stop since
  prompt        \* callbacks that are due come in time; chosen once

vars == <<hub, claim, net, xfer, live, orphan, link, tx, host, vm, used, raced, prompt>>
library == <<hub, claim>>
ifaces == <<orphan, link>>

Slots == Rx \cup Tx
InLibrary(s) == xfer[s] \in {"queued", "done", "cancelled"}

Idle == [at |-> "idle"]
Pump == [at |-> "pump"]

Init ==
  /\ hub = [d \in Devs |-> "absent"] /\ claim = [d \in Devs |-> "no"]
  /\ net = [open |-> FALSE, netif |-> FALSE, dev |-> None]
  /\ xfer = [s \in Slots |-> "free"] /\ live = [s \in Slots |-> FALSE]
  /\ orphan = FALSE /\ link = FALSE
  /\ tx = Idle /\ host = Pump /\ vm = Idle
  /\ used = None /\ raced = FALSE /\ prompt \in BOOLEAN

\* The host lock is the host task's: in DEV_GONE, and, in time, until the pump
\* that ran it has called back what the device's transfers left.
LockHeld ==
  \/ host.at # "pump"
  \/ prompt /\ net.dev # None /\ hub[net.dev] = "absent" /\ \E s \in Slots : InLibrary(s)

----------------------------------------------------------------------------
(* The bus, the hub, and the callbacks.                                    *)

Complete(s) ==
  /\ xfer[s] = "queued" /\ hub[net.dev] = "open"
  /\ xfer' = [xfer EXCEPT ![s] = "done"]
  /\ UNCHANGED <<library, net, live, ifaces, tx, host, vm, raced, prompt>> /\ used' = None

\* What is queued comes back with NO_DEVICE.
Unplug(d) ==
  /\ hub[d] = "open" /\ hub' = [hub EXCEPT ![d] = "leaving"]
  /\ xfer' = [s \in Slots |->
       IF xfer[s] = "queued" /\ net.dev = d THEN "cancelled" ELSE xfer[s]]
  /\ UNCHANGED <<claim, net, live, ifaces, tx, host, vm, raced, prompt>> /\ used' = None

\* An enumeration takes longer than a start.
NewDev(d) ==
  /\ host.at = "pump" /\ hub[d] = "absent"
  /\ vm.at \notin {"alloc", "netif", "undo", "open", "submit", "up"}
  /\ net.dev = d => ~\E s \in Slots : InLibrary(s)
  /\ hub' = [hub EXCEPT ![d] = "open"]
  /\ UNCHANGED <<claim, net, xfer, live, ifaces, tx, host, vm, raced, prompt>> /\ used' = None

Retired(s) ==
  /\ live' = [live EXCEPT ![s] = FALSE] /\ xfer' = [xfer EXCEPT ![s] = "caller"]

\* Mutant: a cancelled transfer is submitted again with the others.
MutRxCallback(s) ==
  /\ host.at = "pump" /\ s \in Rx /\ xfer[s] \in {"done", "cancelled"}
  /\ \/ ~net.open /\ Retired(s) /\ used' = None
     \/ /\ net.open /\ used' = net.dev
        /\ \/ hub[net.dev] = "open" /\ xfer' = [xfer EXCEPT ![s] = "queued"] /\ UNCHANGED live
           \/ xfer' = [xfer EXCEPT ![s] = "caller"] /\ UNCHANGED live
  /\ UNCHANGED <<library, net, ifaces, tx, host, vm, raced, prompt>>

\* usbif_net_rx_cb: the frames go up and the transfer out again, unless it was
\* cancelled, the interface is closing, or the submit fails.
RxCallback(s) ==
  /\ host.at = "pump" /\ s \in Rx /\ xfer[s] \in {"done", "cancelled"}
  /\ \/ (~net.open \/ xfer[s] = "cancelled") /\ Retired(s) /\ used' = None
     \/ /\ net.open /\ xfer[s] = "done" /\ used' = net.dev
        /\ \/ hub[net.dev] = "open" /\ xfer' = [xfer EXCEPT ![s] = "queued"] /\ UNCHANGED live
           \/ Retired(s)
  /\ UNCHANGED <<library, net, ifaces, tx, host, vm, raced, prompt>>

TxCallback(s) ==
  /\ host.at = "pump" /\ s \in Tx /\ xfer[s] \in {"done", "cancelled"} /\ Retired(s)
  /\ UNCHANGED <<library, net, ifaces, tx, host, vm, raced, prompt>> /\ used' = None

----------------------------------------------------------------------------
(* DEV_GONE: usbif_net_on_dev_gone, then the transfer layer's part and the *)
(* close of the device, all with the lock held.                            *)

\* esp_netif_action_disconnected and _stop, which run in lwIP's thread.
LinkDown == tx = Idle /\ link' = FALSE

\* Mutant: the link goes down, and the adapter is not marked closed.
MutQuiesceGone(d) ==
  IF net.netif /\ net.open /\ net.dev = d
  THEN host' = [at |-> "link", dev |-> d] /\ UNCHANGED net
  ELSE host' = [at |-> "close", dev |-> d] /\ UNCHANGED net

QuiesceGone(d) ==
  IF net.netif /\ net.open /\ net.dev = d
  THEN host' = [at |-> "link", dev |-> d] /\ net' = [net EXCEPT !.open = FALSE]
  ELSE host' = [at |-> "close", dev |-> d] /\ UNCHANGED net

GoneBegin(d) ==
  /\ host.at = "pump" /\ hub[d] = "leaving" /\ QuiesceGone(d)
  /\ raced' = (raced \/ vm # Idle)
  /\ UNCHANGED <<library, xfer, live, ifaces, tx, vm, prompt>> /\ used' = None

\* esp_netif_action_disconnected, in lwIP's thread.
GoneLink ==
  /\ host.at = "link" /\ LinkDown /\ host' = [host EXCEPT !.at = "close"]
  /\ UNCHANGED <<library, net, xfer, live, orphan, tx, vm, raced, prompt>> /\ used' = None

GoneClose ==
  /\ host.at = "close" /\ host' = Pump
  /\ hub' = [hub EXCEPT ![host.dev] = "absent"]
  /\ claim' = [claim EXCEPT ![host.dev] = "no"]
  /\ UNCHANGED <<net, xfer, live, ifaces, tx, vm, raced, prompt>> /\ used' = None

----------------------------------------------------------------------------
(* lwIP's thread: usbif_net_transmit.                                      *)

TxBegin ==
  /\ tx = Idle /\ link /\ net.open /\ tx' = [at |-> "checked"]
  /\ UNCHANGED <<library, net, xfer, live, ifaces, host, vm, raced, prompt>> /\ used' = None

\* A free slot, or the frame is dropped.
TxSlot ==
  /\ tx.at = "checked"
  /\ \/ \E s \in Tx : ~live[s] /\ tx' = [at |-> "slot", slot |-> s]
                      /\ live' = [live EXCEPT ![s] = TRUE]
     \/ (\A s \in Tx : live[s]) /\ tx' = Idle /\ UNCHANGED live
  /\ UNCHANGED <<library, net, xfer, ifaces, host, vm, raced, prompt>> /\ used' = None

\* Mutant: the submit takes the host lock, as the other calls do.
MutTxSubmit ==
  /\ tx.at = "slot" /\ tx' = Idle /\ used' = net.dev /\ ~LockHeld
  /\ \/ hub[net.dev] = "open" /\ xfer' = [xfer EXCEPT ![tx.slot] = "queued"] /\ UNCHANGED live
     \/ live' = [live EXCEPT ![tx.slot] = FALSE] /\ UNCHANGED xfer
  /\ UNCHANGED <<library, net, ifaces, host, vm, raced, prompt>>

TxSubmit ==
  /\ tx.at = "slot" /\ tx' = Idle /\ used' = net.dev
  /\ \/ hub[net.dev] = "open" /\ xfer' = [xfer EXCEPT ![tx.slot] = "queued"] /\ UNCHANGED live
     \/ live' = [live EXCEPT ![tx.slot] = FALSE] /\ UNCHANGED xfer
  /\ UNCHANGED <<library, net, ifaces, host, vm, raced, prompt>>

----------------------------------------------------------------------------
(* usbif_net_start.                                                        *)

Goes(at) == vm' = [vm EXCEPT !.at = at]
FreeXfers == xfer' = [s \in Slots |-> IF live[s] THEN xfer[s] ELSE "free"]

\* The lookup and the claim, which the library refuses while it has one.
StartClaims(d) ==
  /\ vm = Idle /\ ~LockHeld /\ ~net.open
  /\ hub[d] \in {"open", "leaving"} /\ claim[d] = "no"
  /\ claim' = [claim EXCEPT ![d] = "yes"] /\ vm' = [at |-> "alloc", dev |-> d]
  /\ UNCHANGED <<hub, net, xfer, live, ifaces, tx, host, raced, prompt>> /\ used' = None

\* memset and the allocations.  An interface that was not stopped after its
\* device went is forgotten with its transfers.  If one of these is in the
\* library still, its callback will act on the slots of the new session: `wild'.
StartAllocates ==
  /\ vm.at = "alloc"
  /\ orphan' = (orphan \/ net.netif)
  /\ net' = [open |-> FALSE, netif |-> FALSE, dev |-> vm.dev]
  /\ live' = [s \in Slots |-> FALSE]
  /\ IF \E s \in Slots : InLibrary(s)
     THEN Goes("wild") /\ xfer' = [s \in Slots |-> "free"]
     ELSE \/ Goes("netif") /\ xfer' = [s \in Slots |-> "caller"]
          \/ Goes("undo") /\ xfer' = [s \in Slots |-> "free"]      \* no memory
  /\ UNCHANGED <<library, link, tx, host, raced, prompt>> /\ used' = None

\* esp_netif_new, which refuses a key that is taken.
StartNetif ==
  /\ vm.at = "netif"
  /\ \/ ~orphan /\ Goes("open") /\ net' = [net EXCEPT !.netif = TRUE] /\ UNCHANGED xfer
     \/ Goes("undo") /\ FreeXfers /\ UNCHANGED net
  /\ UNCHANGED <<library, live, ifaces, tx, host, raced, prompt>> /\ used' = None

StartUndoes ==
  /\ vm.at = "undo" /\ ~LockHeld
  /\ claim' = [claim EXCEPT ![vm.dev] = "no"] /\ vm' = Idle
  /\ UNCHANGED <<hub, net, xfer, live, ifaces, tx, host, raced, prompt>> /\ used' = None

StartOpens ==
  /\ vm.at = "open" /\ Goes("submit") /\ net' = [net EXCEPT !.open = TRUE]
  /\ UNCHANGED <<library, xfer, live, ifaces, tx, host, raced, prompt>> /\ used' = None

StartSubmits ==
  /\ vm.at = "submit" /\ ~LockHeld /\ Goes("up") /\ used' = vm.dev
  /\ \E ok \in SUBSET Rx :
       /\ ok # {} => hub[vm.dev] = "open"
       /\ xfer' = [s \in Slots |-> IF s \in ok THEN "queued" ELSE xfer[s]]
       /\ live' = [s \in Slots |-> s \in ok]
  /\ UNCHANGED <<library, net, ifaces, tx, host, raced, prompt>>

\* esp_netif_action_start and _connected.
StartUp ==
  /\ vm.at = "up" /\ link' = TRUE /\ vm' = Idle
  /\ UNCHANGED <<library, net, xfer, live, orphan, tx, host, raced, prompt>> /\ used' = None

----------------------------------------------------------------------------
(* usbif_net_stop, also that of host_stop().                               *)

StopBegin ==
  /\ vm = Idle /\ net.netif
  /\ vm' = [at |-> "actions", dev |-> net.dev, was |-> net.open]
  /\ raced' = (raced \/ LockHeld)
  /\ UNCHANGED <<library, net, xfer, live, ifaces, tx, host, prompt>> /\ used' = None

StopActions ==
  /\ vm.at = "actions" /\ LinkDown /\ Goes(IF vm.was THEN "quiesce" ELSE "free")
  /\ UNCHANGED <<library, net, xfer, live, orphan, tx, host, raced, prompt>> /\ used' = None

\* usbif_net_quiesce: both endpoints are halted and flushed.
StopQuiesces ==
  /\ vm.at = "quiesce" /\ ~LockHeld /\ Goes("wait") /\ used' = vm.dev
  /\ net' = [net EXCEPT !.open = FALSE]
  /\ xfer' = [s \in Slots |-> IF xfer[s] = "queued" THEN "cancelled" ELSE xfer[s]]
  /\ UNCHANGED <<library, live, ifaces, tx, host, raced, prompt>>

\* Mutant: it waits for the receive transfers only.
MutWaitOver == \A s \in Rx : ~live[s]

\* Up to 50 looks, 10 ms apart, which is time for what is due.
WaitOver ==
  \/ \A s \in Slots : ~live[s]
  \/ prompt => \A s \in Slots : xfer[s] \notin {"done", "cancelled"}

StopWaits ==
  /\ vm.at = "wait" /\ WaitOver /\ Goes("clear")
  /\ UNCHANGED <<library, net, xfer, live, ifaces, tx, host, raced, prompt>> /\ used' = None

StopClears ==
  /\ vm.at = "clear" /\ ~LockHeld /\ Goes("release") /\ used' = vm.dev
  /\ UNCHANGED <<library, net, xfer, live, ifaces, tx, host, raced, prompt>>

\* The library keeps an interface with a transfer in flight.
StopReleases ==
  /\ vm.at = "release" /\ ~LockHeld /\ Goes("free")
  /\ claim' = [claim EXCEPT ![vm.dev] =
       IF hub[vm.dev] = "absent" THEN @ ELSE IF \E s \in Slots : InLibrary(s) THEN "kept" ELSE "no"]
  /\ UNCHANGED <<hub, net, xfer, live, ifaces, tx, host, raced, prompt>> /\ used' = None

\* Mutant: freed whether they are back or not.
MutStopFrees ==
  /\ vm.at = "free" /\ xfer' = [s \in Slots |-> "free"] /\ Goes("destroy")
  /\ UNCHANGED <<library, net, live, ifaces, tx, host, raced, prompt>> /\ used' = None

StopFrees ==
  /\ vm.at = "free" /\ FreeXfers /\ Goes("destroy")
  /\ UNCHANGED <<library, net, live, ifaces, tx, host, raced, prompt>> /\ used' = None

StopDestroys ==
  /\ vm.at = "destroy" /\ net' = [net EXCEPT !.netif = FALSE] /\ vm' = Idle
  /\ raced' = (raced /\ (LockHeld \/ \E s \in Slots : xfer[s] # "free"))
  /\ UNCHANGED <<library, xfer, live, ifaces, tx, host, prompt>> /\ used' = None

----------------------------------------------------------------------------
CallGoesOn ==
  \/ StartAllocates \/ StartNetif \/ StartUndoes \/ StartOpens \/ StartSubmits \/ StartUp
  \/ StopActions \/ StopQuiesces \/ StopWaits \/ StopClears \/ StopReleases \/ StopFrees
  \/ StopDestroys

Callback(s) == RxCallback(s) \/ TxCallback(s)
Handler == GoneLink \/ GoneClose
Transmits == TxSlot \/ TxSubmit

Next ==
  \/ \E s \in Slots : Complete(s) \/ Callback(s)
  \/ \E d \in Devs : Unplug(d) \/ NewDev(d) \/ GoneBegin(d) \/ StartClaims(d)
  \/ Handler \/ TxBegin \/ Transmits \/ StopBegin \/ CallGoesOn

Spec == Init /\ [][Next]_vars

\* The interpreter gets the lock between two ticks of the host task, and its
\* action a turn in lwIP's thread; the others are scheduled.
Fairness ==
  /\ SF_vars(CallGoesOn) /\ SF_vars(Handler) /\ WF_vars(Transmits)
  /\ \A s \in Slots : SF_vars(Callback(s))

FairSpec == Spec /\ Fairness

----------------------------------------------------------------------------
\* Every variable has its type, and only an interface that exists is up.
TypeOK ==
  /\ link => net.netif \/ orphan
  /\ hub \in [Devs -> {"absent", "open", "leaving"}]
  /\ claim \in [Devs -> {"no", "yes", "kept"}]
  /\ net \in [open : BOOLEAN, netif : BOOLEAN, dev : Devs \cup {None}]
  /\ xfer \in [Slots -> {"free", "caller", "queued", "done", "cancelled"}]
  /\ live \in [Slots -> BOOLEAN] /\ orphan \in BOOLEAN /\ link \in BOOLEAN
  /\ tx.at \in {"idle", "checked", "slot"} /\ host.at \in {"pump", "link", "close"}
  /\ used \in Devs \cup {None} /\ raced \in BOOLEAN /\ prompt \in BOOLEAN

\* The flags, which the transmitter, the wait of a stop and free_xfers trust
\* without a lock, are exact: set while the library or the transmitter holds the
\* transfer, and only then.
FlagsExact ==
  vm.at # "wild" => \A s \in Slots :
    live[s] <=> InLibrary(s) \/ (tx.at = "slot" /\ tx.slot = s)

\* No transfer is freed in the library's hands or in the transmitter's.
NothingFreedInUse ==
  [][vm'.at # "wild" => \A s \in Slots :
       InLibrary(s) \/ (tx.at = "slot" /\ tx.slot = s) => xfer'[s] # "free"]_vars

\* An unplugging that no start or stop overlaps never makes the adapter use the
\* handle of a closed device: not a later stop, nor lwIP's thread, which has no
\* lock between its look at `open' and its submit.
HandleOpen ==
  ~raced => /\ used # None => hub[used] # "absent"
            /\ tx # Idle => hub[net.dev] # "absent"

\* When callbacks come in time no transfer is forgotten in the library's hands,
\* and a stop that no unplugging overlapped gives everything back.
StopGivesBack ==
  prompt => /\ vm.at # "wild"
            /\ vm = Idle /\ ~net.netif /\ ~raced =>
                 \A s \in Slots : xfer[s] = "free" /\ (net.dev # None => claim[net.dev] = "no")

\* The state is well formed, the flags are exact, lwIP's thread fills no transfer
\* that is freed or in the library's hands, no closed device is used, and a stop
\* gives everything back.
Consistent ==
  /\ TypeOK /\ FlagsExact /\ HandleOpen /\ StopGivesBack
  /\ tx.at = "slot" => xfer[tx.slot] = "caller"

\* Every start and every stop returns, also while DEV_GONE waits for lwIP's
\* thread with the lock held.
CallReturns == vm # Idle /\ vm.at # "wild" ~> vm = Idle \/ vm.at = "wild"

\* usbif_net_info: "1 while frames can move, 0 when not".
InfoTrue == vm = Idle /\ host = Pump /\ net.netif /\ net.open => hub[net.dev] # "absent"

\* "-1 with no interface".
InfoKnows == vm = Idle /\ ~net.netif => ~orphan
=============================================================================
