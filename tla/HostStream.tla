----------------------------- MODULE HostStream -----------------------------
(***************************************************************************)
(* Isochronous streams: src/src/usbif_host_stream.c, what calls it in      *)
(* usbif_host.c and usbif_host_xfer.c, and the roots src/src/mod_usbif.c   *)
(* keeps of the rings the streams fill and drain.                          *)
(*                                                                         *)
(* Everything that touches a stream's transfers runs under the host lock,  *)
(* which a stop does NOT give back while it waits.  It pumps the library   *)
(* itself, so the callbacks of every stream, and a DEV_GONE that stops     *)
(* streams in its turn, the one being stopped among them, run inside it.   *)
(* `stack' is the stack of these calls, the innermost one last; while it   *)
(* is empty the lock is free.                                              *)
(***************************************************************************)
EXTENDS Integers, Sequences, FiniteSets

CONSTANTS
  Devs,         \* devices; one that is replugged may get its handle and id back
  Itfs,         \* their interfaces, each with one isochronous endpoint
  MaxSlots,     \* USBIF_HOST_STREAMS
  NumXfer,      \* the transfers a stream asks for (usbif_iso_queue.h)
  MinXfer,      \* USBIF_ISO_MIN_XFER
  None          \* no interface

ASSUME DevsAssumption == None \notin Itfs \cup (Devs \X Itfs)
ASSUME SizesAssumption == MaxSlots \in Nat /\ MinXfer \in Nat \ {0} /\ NumXfer \in Nat

VARIABLES
  hub,          \* each device: absent, open, leaving (DEV_GONE queued), closing
  streams,      \* usbif_streams
  xfer,         \* each slot's transfers: free, caller's, queued (bus) or done
  rooted,       \* the slots whose usbif_stream_owner is their stream's ring
  vm,           \* the interpreter: idle, or between the lock and its roots
  stack,        \* the calls in progress under the lock
  prompt,       \* callbacks that are due come within a stop's waits; chosen once
  wedged        \* the host was torn down with a transfer still out, for good

vars == <<hub, streams, xfer, rooted, vm, stack, prompt, wedged>>

Slots == 1..MaxSlots
Pipes == Devs \X Itfs
Xfers == Slots \X (1..NumXfer)
Of(s) == {x \in Xfers : x[1] = s}
InLibrary(x) == xfer[x] \in {"queued", "done"}

Unused ==
  [used |-> FALSE, open |-> FALSE, gone |-> FALSE, pipe |-> None,
   inflight |-> 0, errors |-> FALSE]
UsedSlots == {s \in Slots : streams[s].used}
Dev(s) == streams[s].pipe[1]
Find(q) == {s \in UsedSlots : streams[s].pipe = q}      \* at most one

Init ==
  /\ hub = [d \in Devs |-> "absent"]
  /\ streams = [s \in Slots |-> Unused] /\ xfer = [x \in Xfers |-> "free"]
  /\ rooted = {} /\ vm = [at |-> "idle"]
  /\ stack = <<>> /\ prompt \in BOOLEAN /\ wedged = FALSE

----------------------------------------------------------------------------
(* The calls on the stack.                                                 *)

\* A loop over the slots (usbif_stream_stop_itf for DEV_GONE or for a release,
\* usbif_stream_close_all), with the first slot it has yet to look at; a close
\* of one stream; or a stop, with the wait it is in.
Loop(op, q) == [op |-> op, pipe |-> q, next |-> 1]
StopOf(s, at) == [op |-> "stop", slot |-> s, at |-> at]

Busy == stack # <<>>
Top == stack[Len(stack)]
Below == SubSeq(stack, 1, Len(stack) - 1)
TopIs(op) == Busy /\ Top.op = op
Push(frame) == stack' = Append(stack, frame)

\* Who pumps delivers: the host task's loop, or the wait of a stop.
Pumps == ~Busy \/ TopIs("stop")

----------------------------------------------------------------------------
(* The bus, and what the pump delivers.                                    *)

Complete(x) ==
  /\ xfer[x] = "queued" /\ hub[Dev(x[1])] = "open"
  /\ xfer' = [xfer EXCEPT ![x] = "done"]
  /\ UNCHANGED <<hub, streams, rooted, vm, stack, prompt, wedged>>

\* The transfers of a device that is gone come back with NO_DEVICE.
Unplug(d) ==
  /\ hub[d] = "open" /\ hub' = [hub EXCEPT ![d] = "leaving"]
  /\ xfer' = [x \in Xfers |->
       IF xfer[x] = "queued" /\ Dev(x[1]) = d THEN "done" ELSE xfer[x]]
  /\ UNCHANGED <<streams, rooted, vm, stack, prompt, wedged>>

\* Enumerating takes longer than the waits of a stop.
NewDev(d) ==
  /\ ~Busy /\ vm.at # "down" /\ ~wedged /\ hub[d] = "absent"
  /\ hub' = [hub EXCEPT ![d] = "open"]
  /\ UNCHANGED <<streams, xfer, rooted, vm, stack, prompt, wedged>>

\* Mutant: a stream that stops counts its transfers out, and goes on to submit
\* them again.
MutCallback(x) ==
  /\ Pumps /\ ~wedged /\ xfer[x] = "done"
  /\ LET s == x[1]
         st == [streams[s] EXCEPT !.inflight = IF streams[s].open THEN @ ELSE @ - 1]
     IN
     \/ /\ hub[Dev(s)] = "open"
        /\ xfer' = [xfer EXCEPT ![x] = "queued"] /\ streams' = [streams EXCEPT ![s] = st]
     \/ /\ streams' = [streams EXCEPT ![s] = [st EXCEPT !.inflight = @ - 1, !.errors = TRUE]]
        /\ xfer' = [xfer EXCEPT ![x] = "caller"]
  /\ UNCHANGED <<hub, rooted, vm, stack, prompt, wedged>>

\* usbif_stream_cb: data moved, and the transfer submitted again, which the
\* library may refuse; on a stream that stops, it retires.
Callback(x) ==
  /\ Pumps /\ ~wedged /\ xfer[x] = "done"
  /\ LET s == x[1] IN
     \/ /\ ~streams[s].open
        /\ streams' = [streams EXCEPT ![s].inflight = @ - 1]
        /\ xfer' = [xfer EXCEPT ![x] = "caller"]
     \/ /\ streams[s].open /\ hub[Dev(s)] = "open"
        /\ xfer' = [xfer EXCEPT ![x] = "queued"] /\ UNCHANGED streams
     \/ /\ streams[s].open
        /\ streams' = [streams EXCEPT ![s].inflight = @ - 1, ![s].errors = TRUE]
        /\ xfer' = [xfer EXCEPT ![x] = "caller"]
  /\ UNCHANGED <<hub, rooted, vm, stack, prompt, wedged>>

\* usbif_host_on_dev_gone, up to usbif_stream_stop_itf.
GoneBegin(d) ==
  /\ Pumps /\ hub[d] = "leaving" /\ hub' = [hub EXCEPT ![d] = "closing"]
  /\ Push(Loop("gone", <<d, None>>))
  /\ UNCHANGED <<streams, xfer, rooted, vm, prompt, wedged>>

----------------------------------------------------------------------------
(* Stopping.                                                               *)

\* The end of usbif_stream_stop_locked, with `st' for the slot: its transfers
\* are freed, unless one is still out.
MutFinish(s, st, rest) ==            \* freed whether they are back or not
  /\ stack' = rest
  /\ xfer' = [x \in Xfers |-> IF x[1] = s THEN "free" ELSE xfer[x]]
  /\ streams' = [streams EXCEPT ![s] = IF st.inflight = 0 THEN Unused ELSE st]

Finish(s, st, rest) ==
  /\ stack' = rest
  /\ IF st.inflight = 0
     THEN /\ xfer' = [x \in Xfers |-> IF x[1] = s THEN "free" ELSE xfer[x]]
          /\ streams' = [streams EXCEPT ![s] = Unused]
     ELSE UNCHANGED xfer /\ streams' = [streams EXCEPT ![s] = st]

\* Mutant: a device that is gone is stopped like any other.
MutStopBegin(s, gone, rest) ==
  LET st == [streams[s] EXCEPT !.open = FALSE] IN
  IF st.inflight = 0
  THEN Finish(s, st, rest)
  ELSE /\ stack' = Append(rest, StopOf(s, "retire"))
       /\ streams' = [streams EXCEPT ![s] = st] /\ UNCHANGED xfer

\* Its beginning: the stream no longer submits, producers are waited out
\* (PcmSink), and the first wait starts if a transfer is out.
StopBegin(s, gone, rest) ==
  LET st == [streams[s] EXCEPT !.open = FALSE, !.gone = @ \/ gone] IN
  IF st.inflight = 0
  THEN Finish(s, st, rest)
  ELSE /\ stack' = Append(rest, StopOf(s, "retire"))
       /\ streams' = [streams EXCEPT ![s] = st] /\ UNCHANGED xfer

\* Mutant: a wait without a limit.
MutWaitOver(s) == streams[s].inflight = 0

\* A wait ends when the transfers are back or its time is up.
WaitOver(s) ==
  \/ streams[s].inflight = 0
  \/ prompt => \A x \in Of(s) : xfer[x] # "done"

\* Mutant: what is still out is waited for again, and never taken back.
MutRetireEnds ==
  /\ TopIs("stop") /\ Top.at = "retire"
  /\ LET s == Top.slot IN
     /\ WaitOver(s)
     /\ IF streams[s].inflight = 0
        THEN Finish(s, streams[s], Below)
        ELSE stack' = Append(Below, StopOf(s, "again")) /\ UNCHANGED <<streams, xfer>>
  /\ UNCHANGED <<hub, rooted, vm, prompt, wedged>>

\* After the first: what is still out is taken back from the endpoint, or, if
\* the device went away meanwhile, waited for again.
RetireEnds ==
  /\ TopIs("stop") /\ Top.at = "retire"
  /\ LET s == Top.slot IN
     /\ WaitOver(s)
     /\ CASE streams[s].inflight = 0 -> Finish(s, streams[s], Below)
          [] streams[s].inflight # 0 /\ streams[s].gone ->
               stack' = Append(Below, StopOf(s, "again")) /\ UNCHANGED <<streams, xfer>>
          [] OTHER ->
               /\ stack' = Append(Below, StopOf(s, "halt")) /\ UNCHANGED streams
               /\ xfer' = [x \in Xfers |->
                    IF x[1] = s /\ xfer[x] = "queued" THEN "done" ELSE xfer[x]]
  /\ UNCHANGED <<hub, rooted, vm, prompt, wedged>>

\* After the second: usb_host_endpoint_clear if it was a halt, and the end.
HaltEnds ==
  /\ TopIs("stop") /\ Top.at \in {"halt", "again"}
  /\ WaitOver(Top.slot) /\ Finish(Top.slot, streams[Top.slot], Below)
  /\ UNCHANGED <<hub, rooted, vm, prompt, wedged>>

\* The slots a loop is for, and has yet to look at.  The teardown's runs for as
\* long as a device is open.
Meant(loop) ==
  {s \in UsedSlots :
     /\ s >= loop.next
     /\ loop.op = "gone" => Dev(s) = loop.pipe[1]
     /\ loop.op \in {"release", "close"} => streams[s].pipe = loop.pipe
     /\ loop.op = "down" => \E d \in Devs : hub[d] # "absent"}
Loops == {"gone", "release", "close", "stopall", "down"}

LoopStop ==
  /\ Busy /\ Top.op \in Loops
  /\ \E s \in Meant(Top) :
       /\ \A t \in Meant(Top) : s <= t
       /\ StopBegin(s, Top.op = "gone", Append(Below, [Top EXCEPT !.next = s + 1]))
  /\ UNCHANGED <<hub, rooted, vm, prompt, wedged>>

\* All stopped: the device is closed, the claim released, or the call returns.
\* host_stop gives up the claims and has the task tear down; a transfer that is
\* still out then keeps the library installed, and the host is wedged (HostLife).
LoopEnds ==
  /\ Busy /\ Top.op \in Loops /\ Meant(Top) = {}
  /\ stack' = Below
  /\ LET op == Top.op IN
     /\ hub' = CASE op = "gone" -> [hub EXCEPT ![Top.pipe[1]] = "absent"]
                [] op = "down" -> [d \in Devs |-> "absent"]
                [] OTHER -> hub
     /\ vm' = CASE op \in {"close", "down"} -> [at |-> "roots"]
               [] op = "stopall" -> [at |-> "down"]
               [] op = "release" -> [at |-> "idle"]
               [] OTHER -> vm
     /\ wedged' = (wedged \/ (op = "down" /\ UsedSlots # {}))
  /\ UNCHANGED <<streams, xfer, rooted, prompt>>

----------------------------------------------------------------------------
(* The interpreter.                                                        *)

Idle == vm.at = "idle"
Calls(op, q) == Push(Loop(op, q)) /\ vm' = [at |-> "call"]

\* usbif_xfer_release of an interface, also in a claim at another alternate.
\* (Claims are HostXfer's; here a program has what it needs claimed.)
Release(q) ==
  /\ ~Busy /\ Idle /\ hub[q[1]] \in {"open", "leaving"} /\ Calls("release", q)
  /\ UNCHANGED <<hub, streams, xfer, rooted, prompt, wedged>>

\* host_stream(dev, ep, ring): the first free slot; as many transfers as memory
\* allows, MinXfer at least; of these, one or more that the library takes.
\* Otherwise all is undone before the lock is free.
Open(q) ==
  /\ ~Busy /\ Idle /\ hub[q[1]] = "open" /\ Find(q) = {}
  /\ \E s \in Slots \ UsedSlots, k \in MinXfer..NumXfer : \E ok \in SUBSET (1..k) \ {{}} :
       /\ \A t \in Slots \ UsedSlots : s <= t
       /\ streams' = [streams EXCEPT ![s] =
            [Unused EXCEPT !.used = TRUE, !.open = TRUE, !.pipe = q,
                           !.inflight = Cardinality(ok), !.errors = ok # 1..k]]
       /\ xfer' = [x \in Xfers |->
            IF x[1] # s \/ x[2] > k THEN xfer[x] ELSE IF x[2] \in ok THEN "queued" ELSE "caller"]
       /\ vm' = [at |-> "opened", slot |-> s] /\ rooted' = rooted \ {s}
  /\ UNCHANGED <<hub, stack, prompt, wedged>>

\* Mutant: the new stream's ring gets no root.
MutOpened ==
  /\ vm.at = "opened" /\ rooted' = rooted \cap UsedSlots
  /\ vm' = [at |-> "idle"] /\ UNCHANGED <<hub, streams, xfer, stack, prompt, wedged>>

\* usbif_stream_release_owners, which reads the slots without the lock, and the
\* root of the new stream's ring.
Opened ==
  /\ vm.at = "opened" /\ rooted' = (rooted \cap UsedSlots) \cup {vm.slot}
  /\ vm' = [at |-> "idle"] /\ UNCHANGED <<hub, streams, xfer, stack, prompt, wedged>>

\* host_stream(dev, ep, None).
Close(q) ==
  /\ ~Busy /\ Idle
  /\ IF Find(q) = {} THEN vm' = [at |-> "roots"] /\ UNCHANGED stack ELSE Calls("close", q)
  /\ UNCHANGED <<hub, streams, xfer, rooted, prompt, wedged>>

Roots ==
  /\ vm.at = "roots" /\ rooted' = rooted \cap UsedSlots
  /\ vm' = [at |-> "idle"] /\ UNCHANGED <<hub, streams, xfer, stack, prompt, wedged>>

\* host_stop(), also that of a soft reset: usbif_stream_close_all by the
\* interpreter, and once more by the task, whose loop has ended by then.  (That
\* second try stands for those of the releases in between, too.)
HostStop ==
  /\ ~Busy /\ Idle /\ ~wedged /\ Calls("stopall", None)
  /\ UNCHANGED <<hub, streams, xfer, rooted, prompt, wedged>>

TearDown ==
  /\ ~Busy /\ vm.at = "down" /\ Push(Loop("down", None))
  /\ UNCHANGED <<hub, streams, xfer, rooted, vm, prompt, wedged>>

----------------------------------------------------------------------------
StackGoesOn == RetireEnds \/ HaltEnds \/ LoopStop \/ LoopEnds

Next ==
  \/ \E x \in Xfers : Complete(x) \/ Callback(x)
  \/ \E d \in Devs : Unplug(d) \/ NewDev(d) \/ GoneBegin(d)
  \/ StackGoesOn
  \/ \E q \in Pipes : Release(q) \/ Close(q) \/ Open(q)
  \/ Opened \/ Roots \/ HostStop \/ TearDown

Spec == Init /\ [][Next]_vars

\* Whoever holds the lock goes on, its waits are timed, and the pump of such a
\* wait delivers what is due.
Fairness == WF_vars(StackGoesOn) /\ \A x \in Xfers : WF_vars(Busy /\ Callback(x))

FairSpec == Spec /\ Fairness

----------------------------------------------------------------------------
\* Every variable has its type.
TypeOK ==
  /\ hub \in [Devs -> {"absent", "open", "leaving", "closing"}]
  /\ streams \in [Slots -> [used : BOOLEAN, open : BOOLEAN, gone : BOOLEAN,
       pipe : Pipes \cup {None}, inflight : 0..NumXfer, errors : BOOLEAN]]
  /\ xfer \in [Xfers -> {"free", "caller", "queued", "done"}]
  /\ rooted \subseteq Slots
  /\ vm.at \in {"idle", "opened", "call", "roots", "down"}
  /\ \A i \in 1..Len(stack) : stack[i].op \in Loops \cup {"stop"}
  /\ prompt \in BOOLEAN /\ wedged \in BOOLEAN

\* `inflight' counts exactly the transfers the library holds, whoever pumped
\* their callbacks and however many stops of the stream are on the stack: a stop
\* frees on it alone.
InflightExact ==
  \A s \in Slots : streams[s].inflight = Cardinality({x \in Of(s) : InLibrary(x)})

\* A device is closed with every stream on it stopped.
GoneClosesStreams == \A s \in UsedSlots : streams[s].open => hub[Dev(s)] # "absent"

\* A stream that lost a transfer for good counts an error, so a stream that no
\* longer moves can be told by its stats.
LossIsCounted ==
  \A s \in UsedSlots :
    streams[s].open /\ ~streams[s].errors => \A x \in Of(s) : xfer[x] # "caller"

\* No transfer is freed while the library holds it ("never freed while the
\* library still holds them", usbif_host_stream.c).
NothingFreedInLibrary == [][\A x \in Xfers : InLibrary(x) => xfer'[x] # "free"]_vars

\* While Python code runs, and the heap may be collected, the ring of every
\* stream whose callbacks still use one is rooted.
RingRooted == Idle => \A s \in UsedSlots : streams[s].open => s \in rooted

\* With a library that delivers within the waits, whatever device goes during
\* them, a slot is either streaming or free: none is left behind.
SlotsComeBack == prompt /\ ~Busy => \A s \in UsedSlots : streams[s].open

\* The state is well formed; a stop may free on `inflight'; a device that is closed
\* has no stream that still submits; a stream that lost a transfer says so; what the
\* callbacks use is rooted; and no slot is left behind.
Consistent ==
  /\ TypeOK /\ InflightExact /\ GoneClosesStreams /\ LossIsCounted
  /\ RingRooted /\ SlotsComeBack

\* Only the endpoints of a device that is still there are halted and flushed,
\* though the wait before it may have seen the device go.  (A wedged host is to
\* be reset; closing a stream there halts an endpoint of a closed device.)
HaltsAttached ==
  [][~wedged => \A i \in DOMAIN stack : TopIs("stop") /\ i = Len(stack) /\ Top.at = "retire"
        /\ i \in DOMAIN stack' /\ stack'[i].op = "stop" /\ stack'[i].at = "halt"
          => hub[Dev(Top.slot)] \in {"open", "leaving"}]_vars

\* What a stop does to the library is safe whichever device went meanwhile: it frees
\* nothing in flight and halts nothing of a device that is closed.
StopIsSafe == NothingFreedInLibrary /\ HaltsAttached

\* The lock is given back: every stop and every loop of stops ends, though the
\* transfers may never come back.
LockComesBack == Busy ~> ~Busy
=============================================================================
