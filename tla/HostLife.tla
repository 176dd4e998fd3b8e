------------------------------ MODULE HostLife ------------------------------
(***************************************************************************)
(* The host's life: src/src/usbif_host.c from host_start() to the end of   *)
(* host_stop()'s teardown.                                                 *)
(*                                                                         *)
(* Two actors: the host task, pinned to its core, and the interpreter's    *)
(* thread, which makes one call at a time (vm).  A task step that pumps    *)
(* the library, and an interpreter step that needs the host lock, is one   *)
(* action.  The host library and the bus are external: what a pump does is *)
(* a choice among what the code and its comments say the library may do.   *)
(*                                                                         *)
(* Every wait of the code is bounded by a count of polls; here it may end  *)
(* at any of them.  In a behaviour with prompt = TRUE those with the root  *)
(* port off end early only when the library has nothing left to do, and no *)
(* call to it fails: it, the hub and the task keep within the waits.  In   *)
(* one with prompt = FALSE a call the teardown makes without the lock may  *)
(* never come back (Hangs).  The calls made with the lock held, in the     *)
(* loop and in two of the teardown's waits, are assumed to return: one     *)
(* that did not would keep the interpreter from the lock too.              *)
(***************************************************************************)
EXTENDS Naturals, FiniteSets

CONSTANTS
  Devs,         \* the devices that may be plugged in
  NoDev,        \* no device
  MaxSlots,     \* USBIF_HOST_MAX_DEVS
  MaxAbandoned, \* bound: the count of abandoned transfers never passes it
  SlowInstall,  \* an install may outlast the two seconds start waits for it
  WedgedCalls   \* bound: whether a program claims, gives up or cycles the port of
                \* a host that is wedged and only a reset helps

ASSUME DevsAssumption == IsFiniteSet(Devs) /\ NoDev \notin Devs
ASSUME SlotsAssumption == MaxSlots \in Nat \ {0}
ASSUME AbandonedAssumption == MaxAbandoned \in Nat
ASSUME SlowInstallAssumption == SlowInstall \in BOOLEAN
ASSUME WedgedCallsAssumption == WedgedCalls \in BOOLEAN

VARIABLES
  plugged,      \* the devices on the bus
  port,         \* the root port has power
  lib,          \* the library's view of each device
  installed,    \* the library, or what an uninstall left of it
  client,       \* our client is registered
  opened,       \* the devices our client has open
  news,         \* NEW_DEV messages the client has yet to handle
  ep0,          \* devices with an abandoned control transfer on EP0
  leaked,       \* a device was freed with a transfer on its EP0 pipe
  freeing,      \* the devices usb_host_device_free_all() is to free
  prompt,       \* see above; chosen once
  handle,       \* usbif_host_task_handle is not NULL
  task,         \* where the host task is
  cur,          \* the slot's device the close loop is at
  seen,         \* all_free_seen
  hung,         \* the task is in a call of the library that never returns
  running, tearing, wedged, result,    \* usbif_host_task_running, ...
  used,         \* the devices of the slots in use
  abandoned,    \* usbif_host_ctrl_abandoned
  late,         \* history: a transfer was abandoned that had been called back
  vm,           \* where the interpreter is
  said,         \* what the last host_start() said
  claimed,      \* the devices with an interface claimed, a stream included
  kept,         \* the library refused to release a claim
  deviceStack   \* TinyUSB drives the controller

library == <<lib, installed, client, opened, news, ep0, leaked, freeing>>
bus == <<plugged, port, prompt>>
flags == <<running, tearing, result>>
slots == <<used, abandoned, late>>
interp == <<vm, said, deviceStack>>
claims == <<claimed, kept>>
vars == <<library, bus, flags, slots, interp, claims, handle, task, cur, seen, hung, wedged>>

Held == {d \in Devs : lib[d] # "none"}       \* num_devices

Init ==
  /\ plugged = {} /\ port = FALSE /\ prompt \in BOOLEAN
  /\ lib = [d \in Devs |-> "none"] /\ installed = FALSE /\ client = FALSE
  /\ opened = {} /\ news = {} /\ ep0 = {} /\ leaked = FALSE /\ freeing = {}
  /\ handle = FALSE /\ task = "none" /\ cur = NoDev /\ seen = FALSE
  /\ hung = FALSE /\ running = FALSE /\ tearing = FALSE /\ wedged = FALSE /\ result = "pending"
  /\ used = {} /\ abandoned = 0 /\ late = FALSE
  /\ vm = "idle" /\ said = "none" /\ deviceStack = TRUE
  /\ claimed = {} /\ kept = FALSE

At(here) == task = here /\ ~hung
Go(there) == task' = there

----------------------------------------------------------------------------
\* External: the bus and the host library.

Replug(d) ==
  /\ plugged' = IF d \in plugged THEN plugged \ {d} ELSE plugged \cup {d}
  /\ UNCHANGED <<port, prompt, library, flags, slots, interp, claims, handle, task, cur, seen,
                 hung, wedged>>

\* Where the task pumps the library, and where the client too.
PumpsLib == ~hung /\ task \in {"loop", "release", "drain", "allfree", "portoff"}
PumpsClient == ~hung /\ task \in {"loop", "release", "drain"}

\* One step the library takes with a device, as old -> new.  A device may stop
\* answering in the middle of its enumeration.  One that our client has open
\* stays until the client closes it.
LibSteps(d) ==
  LET here == d \in plugged /\ port
      old == lib[d] IN
    {new \in {"none", "enum", "stuck", "ready", "gone"} :
       \/ old = "none" /\ here /\ new = "enum"
       \/ old = "enum" /\ here /\ new \in {"ready", "stuck"}
       \/ old \in {"enum", "stuck", "ready"} /\ ~here
            /\ new = IF d \in opened THEN "gone" ELSE "none"
       \/ old = "ready" /\ d \in freeing \ opened /\ new = "none"}

LibPending == \E d \in Devs : LibSteps(d) # {}

\* usb_host_lib_handle_events() makes progress with one device.
PumpLib(d) ==
  /\ PumpsLib
  /\ \E new \in LibSteps(d) :
       /\ lib' = [lib EXCEPT ![d] = new]
       /\ news' = IF new = "ready" /\ client THEN news \cup {d} ELSE news
       /\ freeing' = IF new = "none" THEN freeing \ {d} ELSE freeing
       /\ seen' = (seen \/ (At("allfree") /\ new = "none" /\ Held \subseteq {d}))
  /\ UNCHANGED <<installed, client, opened, ep0, leaked, bus, flags, slots, interp, claims,
                 handle, task, cur, hung, wedged>>

----------------------------------------------------------------------------
\* usb_host_client_handle_events(): the callbacks, in the host task.

\* usb_host_device_close(), refused while an interface is still claimed.  A
\* device whose last client closes it is freed at once if it is gone, EP0
\* transfer or not.
Closes(d) ==
  IF d \in claimed
  THEN UNCHANGED <<opened, lib, leaked, ep0>>
  ELSE /\ opened' = opened \ {d}
       /\ lib' = [lib EXCEPT ![d] = IF @ = "gone" THEN "none" ELSE @]
       /\ leaked' = (leaked \/ d \in ep0)
       /\ ep0' = ep0 \ {d}

\* Mutant: a device may be opened behind the close loop: no tearing_down flag.
MutOnNewDev(d) ==
  /\ PumpsClient /\ d \in news
  /\ news' = news \ {d}
  /\ lib[d] = "ready" /\ d \notin opened
  /\ opened' = opened \cup {d} /\ used' = used \cup {d}
  /\ UNCHANGED <<lib, installed, client, ep0, leaked, freeing, bus, flags, abandoned, late,
                 interp, claims, handle, task, cur, seen, hung, wedged>>

\* usbif_host_on_new_dev: declined while tearing down, without a free slot, or
\* when it cannot be opened; opened and closed again when a descriptor cannot be
\* read or it offers nothing of the class filter.
OnNewDev(d) ==
  /\ PumpsClient /\ d \in news
  /\ news' = news \ {d}
  /\ \/ /\ ~tearing /\ Cardinality(used) < MaxSlots
        /\ lib[d] = "ready" /\ d \notin opened
        /\ opened' = opened \cup {d} /\ used' = used \cup {d}
     \/ UNCHANGED <<opened, used>>
  /\ UNCHANGED <<lib, installed, client, ep0, leaked, freeing, bus, flags, abandoned, late,
                 interp, claims, handle, task, cur, seen, hung, wedged>>

\* usbif_host_ctrl_reclaim, from the callback of an abandoned transfer: the
\* device answers at last, or it is gone and the library flushed its EP0.
CtrlRetires(d) ==
  /\ PumpsClient /\ d \in ep0
  /\ ep0' = ep0 \ {d} /\ abandoned' = abandoned - 1
  /\ UNCHANGED <<lib, installed, client, opened, news, leaked, freeing, bus, flags, used, late,
                 interp, claims, handle, task, cur, seen, hung, wedged>>

\* Mutant: the slot is freed and the device left open.
MutOnDevGone(d) ==
  /\ PumpsClient /\ client /\ lib[d] = "gone" /\ d \in used /\ d \notin ep0
  /\ used' = used \ {d}
  /\ UNCHANGED <<library, bus, flags, abandoned, late, interp, claims, handle, task, cur, seen,
                 hung, wedged>>

\* usbif_host_on_dev_gone, after the library delivered what it flushed.  The
\* transfer layer lets go of its claims; one the library refuses to release
\* leaves the device open.
OnDevGone(d) ==
  /\ PumpsClient /\ client /\ lib[d] = "gone" /\ d \in used /\ d \notin ep0
  /\ used' = used \ {d}
  /\ \/ /\ claimed' = claimed \ {d} /\ opened' = opened \ {d}
        /\ lib' = [lib EXCEPT ![d] = "none"]
        /\ UNCHANGED kept
     \/ /\ d \in claimed /\ ~prompt /\ kept' = TRUE
        /\ UNCHANGED <<claimed, opened, lib>>
  /\ UNCHANGED <<installed, client, news, ep0, leaked, freeing, bus, flags, abandoned, late,
                 interp, handle, task, cur, seen, hung, wedged>>

ClientPending ==
  \/ news # {}
  \/ \E d \in Devs : lib[d] = "gone" /\ (d \in ep0 \/ d \in used)

\* A wait with the port off, bounded by a count of polls, runs out.
RunsOut == ~prompt \/ ~(LibPending \/ (PumpsClient /\ ClientPending))

----------------------------------------------------------------------------
\* usbif_host_task: the install.  It fails while the controller is taken, and
\* it may fail for reasons of its own; a failed registration uninstalls again.

InstallOk ==
  /\ At("install") /\ ~installed /\ Go("loop")
  /\ installed' = TRUE /\ client' = TRUE /\ port' = TRUE /\ result' = "ok"
  /\ UNCHANGED <<lib, opened, news, ep0, leaked, freeing, plugged, prompt, running, tearing,
                 slots, interp, claims, handle, cur, seen, hung, wedged>>

InstallFails ==
  /\ At("install") /\ Go("exit") /\ result' = "failed"
  /\ UNCHANGED <<library, bus, running, tearing, slots, interp, claims, handle, cur, seen, hung,
                 wedged>>

\* Mutant: one of the task's ways out forgets the handle.
MutExit ==
  /\ At("exit") /\ Go("none") /\ handle' = (result # "ok" /\ handle)
  /\ UNCHANGED <<library, bus, flags, slots, interp, claims, cur, seen, hung, wedged>>

\* The handle is cleared after the verdict, or at the end of the teardown.
Exit ==
  /\ At("exit") /\ Go("none") /\ handle' = FALSE
  /\ UNCHANGED <<library, bus, flags, slots, interp, claims, cur, seen, hung, wedged>>

\* The loop is left once host_stop(), or a start that gave up, says so.
LoopEnds ==
  /\ At("loop") /\ ~running /\ Go("close")
  /\ tearing' = TRUE
  /\ UNCHANGED <<library, bus, running, result, slots, interp, claims, handle, cur, seen, hung,
                 wedged>>

\* Mutant: the teardown before usbif#73: the device is closed, EP0 transfer or not.
MutCloseNext(d) ==
  /\ At("close") /\ d \in used /\ cur' = d /\ Go("closeone")
  /\ UNCHANGED <<library, bus, flags, slots, interp, claims, handle, seen, hung, wedged>>

\* The close loop, slot by slot: with an abandoned control transfer anywhere
\* the root port goes off first, and the devices go by the callbacks.
CloseNext(d) ==
  /\ At("close") /\ d \in used /\ cur' = d
  /\ IF abandoned > 0 THEN port' = FALSE /\ Go("release")
                      ELSE UNCHANGED port /\ Go("closeone")
  /\ UNCHANGED <<library, plugged, prompt, flags, slots, interp, claims, handle, seen, hung,
                 wedged>>

ReleaseEnds ==
  /\ At("release") /\ Go("closeone")
  /\ (RunsOut \/ (abandoned = 0 /\ used = {}))
  /\ UNCHANGED <<library, bus, flags, slots, interp, claims, handle, cur, seen, hung, wedged>>

CloseOne ==
  /\ At("closeone") /\ Go("close") /\ cur' = NoDev
  /\ IF cur \in used
       THEN Closes(cur) /\ used' = used \ {cur}
       ELSE UNCHANGED <<opened, lib, leaked, ep0, used>>
  /\ UNCHANGED <<installed, client, news, freeing, bus, flags, abandoned, late, interp, claims,
                 handle, seen, hung, wedged>>

CloseEnds ==
  /\ At("close") /\ used = {} /\ Go("drain")
  /\ UNCHANGED <<library, bus, flags, slots, interp, claims, handle, cur, seen, hung, wedged>>

\* The drain, the deregistration (refused while the client has a device open; the
\* client's messages go with it) and device_free_all.
DrainEnds ==
  /\ At("drain") /\ Go("freeall")
  /\ client' = (opened # {}) /\ news' = IF opened = {} THEN {} ELSE news
  /\ UNCHANGED <<lib, installed, opened, ep0, leaked, freeing, bus, flags, slots, interp, claims,
                 handle, cur, seen, hung, wedged>>

FreeAll ==
  /\ At("freeall") /\ Go("allfree")
  /\ freeing' = Held /\ seen' = (Held = {})
  /\ UNCHANGED <<lib, installed, client, opened, news, ep0, leaked, bus, flags, slots, interp,
                 claims, handle, cur, hung, wedged>>

\* After ALL_FREE, or a second without it: a device still held, or one that
\* came back, goes with the root port.
AllFreeEnds ==
  /\ At("allfree")
  /\ IF ~seen \/ Held # {}
       THEN /\ Go("portoff")
            /\ port' \in IF prompt THEN {FALSE} ELSE {FALSE, port}
       ELSE Go("settle") /\ UNCHANGED port
  /\ UNCHANGED <<library, plugged, prompt, flags, slots, interp, claims, handle, cur, seen, hung,
                 wedged>>

Wedge == wedged' = TRUE /\ Go("exit")

\* The calls of the library that the teardown makes without the lock: closing,
\* deregistering, freeing, the pumps for ALL_FREE and with the port off, the
\* uninstall.  One was seen not to return (usb_host_lib_handle_events, in the
\* ALL_FREE wait).
Hangs ==
  /\ task \in {"closeone", "freeall", "allfree", "portoff", "uninstall"}
  /\ ~prompt /\ ~hung /\ hung' = TRUE
  /\ UNCHANGED <<library, bus, flags, slots, interp, claims, handle, task, cur, seen, wedged>>

PortOffEnds ==
  /\ At("portoff") /\ (RunsOut \/ Held = {})
  /\ IF port \/ Held # {} THEN Wedge ELSE (Go("settle") /\ UNCHANGED wedged)
  /\ UNCHANGED <<library, bus, flags, slots, interp, claims, handle, cur, seen, hung>>

\* Mutant: nobody looks at the count before the uninstall.
MutSettle ==
  /\ At("settle") /\ Go("uninstall")
  /\ UNCHANGED <<library, bus, flags, slots, interp, claims, handle, cur, seen, hung, wedged>>

Settle ==
  /\ At("settle")
  /\ IF abandoned > 0 THEN Wedge ELSE Go("uninstall") /\ UNCHANGED wedged
  /\ UNCHANGED <<library, bus, flags, slots, interp, claims, handle, cur, seen, hung>>

\* usb_host_uninstall() says so when a client or an event is left, and says
\* nothing of a pipe or a device that keeps the controller installed.
Uninstall ==
  /\ At("uninstall")
  /\ IF client
       THEN Wedge /\ UNCHANGED <<installed, port>>
       ELSE \/ /\ installed' = (leaked \/ Held # {}) /\ port' = FALSE
               /\ Go("exit") /\ UNCHANGED wedged
            \/ ~prompt /\ Wedge /\ UNCHANGED <<installed, port>>
  /\ UNCHANGED <<lib, client, opened, news, ep0, leaked, freeing, plugged, prompt, flags, slots,
                 interp, claims, handle, cur, seen, hung>>

----------------------------------------------------------------------------
\* The interpreter's calls.

\* usbif_host_start_c up to the wait.
HostStart ==
  /\ vm = "idle" /\ ~wedged /\ ~handle
  /\ result' = "pending" /\ tearing' = FALSE
  /\ \/ /\ running' = TRUE /\ handle' = TRUE /\ Go("install")
        /\ vm' = "starting" /\ deviceStack' = FALSE /\ seen' = FALSE
        /\ UNCHANGED said
     \/ /\ running' = FALSE /\ said' = "failed"       \* no memory for the task
        /\ UNCHANGED <<handle, task, vm, deviceStack, seen>>
  /\ UNCHANGED <<library, bus, slots, claims, cur, hung, wedged>>

\* Mutant: a wedged host whose task is left says that it runs.
MutHostStartAtOnce ==
  /\ vm = "idle" /\ (wedged \/ handle)
  /\ said' = IF handle THEN "ok" ELSE "wedged"
  /\ UNCHANGED <<library, bus, flags, slots, claims, vm, deviceStack, handle, task, cur, seen,
                 hung, wedged>>

\* A wedged host refuses; one whose task handle is set says it runs.
HostStartAtOnce ==
  /\ vm = "idle" /\ (wedged \/ handle)
  /\ said' = IF wedged THEN "wedged" ELSE "ok"
  /\ UNCHANGED <<library, bus, flags, slots, claims, vm, deviceStack, handle, task, cur, seen,
                 hung, wedged>>

StartOk ==
  /\ vm = "starting" /\ result = "ok" /\ vm' = "idle" /\ said' = "ok"
  /\ UNCHANGED <<library, bus, flags, slots, claims, deviceStack, handle, task, cur, seen, hung,
                 wedged>>

\* The verdict is an error, or two seconds went by without one.
StartGivesUp ==
  /\ vm = "starting" /\ (result = "failed" \/ (SlowInstall /\ result = "pending"))
  /\ vm' = "idle" /\ said' = "failed" /\ running' = FALSE /\ deviceStack' = TRUE
  /\ UNCHANGED <<library, bus, tearing, result, slots, claims, handle, task, cur, seen, hung,
                 wedged>>

\* usbif_host_stop_c: the adapter, the streams and the claims are closed while
\* the loop still runs; a release the library refuses leaves the claim.
HostStop ==
  /\ vm = "idle" /\ said' = "none"
  /\ vm' = IF handle THEN "closing" ELSE "idle"
  /\ UNCHANGED <<library, bus, flags, slots, claims, deviceStack, handle, task, cur, seen, hung,
                 wedged>>

StopCloses ==
  /\ vm = "closing" /\ vm' = "stopping" /\ running' = FALSE
  /\ claimed' \in IF prompt THEN {{}} ELSE SUBSET claimed
  /\ kept' = (kept \/ claimed' # {})
  /\ UNCHANGED <<library, bus, tearing, result, slots, said, deviceStack, handle, task, cur, seen,
                 hung, wedged>>

\* The task has exited, or six seconds went by; either way TinyUSB is back.
StopReturns ==
  /\ vm = "stopping" /\ (~handle \/ ~prompt)
  /\ wedged' = (wedged \/ handle)
  /\ vm' = "idle" /\ deviceStack' = TRUE
  /\ UNCHANGED <<library, bus, flags, slots, claims, said, handle, task, cur, seen, hung>>

\* The other calls of the interpreter.
Calls == vm = "idle" /\ (wedged => WedgedCalls)

\* Between start and stop, under the host lock: an interface claimed or
\* released, a control transfer given up on.
Claim(d) ==
  /\ Calls /\ d \in used /\ d \in opened
  /\ claimed' = IF d \in claimed THEN claimed \ {d} ELSE claimed \cup {d}
  /\ UNCHANGED <<library, bus, flags, slots, interp, kept, handle, task, cur, seen, hung, wedged>>

\* usbif_host_ctrl_abandon.  The transfer is on EP0 still; or its callback ran
\* between the end of the wait and here, found no mark, and nothing takes the
\* count back.
GiveUp(d) ==
  /\ Calls /\ d \in used /\ d \in opened /\ d \notin ep0
  /\ abandoned < MaxAbandoned /\ abandoned' = abandoned + 1
  /\ \/ ep0' = ep0 \cup {d} /\ UNCHANGED late
     \/ late' = TRUE /\ UNCHANGED ep0
  /\ UNCHANGED <<lib, installed, client, opened, news, leaked, freeing, bus, flags, used, interp,
                 claims, handle, task, cur, seen, hung, wedged>>

\* usbif_host_port_cycle, without the lock; the library refuses the power-on
\* when it is not installed.
PortCycle ==
  /\ Calls /\ handle /\ vm' = "cycling"
  /\ port' = FALSE
  /\ UNCHANGED <<library, plugged, prompt, flags, slots, said, deviceStack, claims, handle, task,
                 cur, seen, hung, wedged>>

PortCycleEnds ==
  /\ vm = "cycling" /\ vm' = "idle"
  /\ port' = installed
  /\ UNCHANGED <<library, plugged, prompt, flags, slots, said, deviceStack, claims, handle, task,
                 cur, seen, hung, wedged>>

----------------------------------------------------------------------------
TaskStep ==
  \/ InstallOk \/ InstallFails \/ Exit \/ LoopEnds \/ CloseOne \/ CloseEnds
  \/ FreeAll \/ Settle \/ Uninstall
  \/ \E d \in Devs : CloseNext(d)

WaitEnds == ReleaseEnds \/ DrainEnds \/ AllFreeEnds \/ PortOffEnds

Callback ==
  \E d \in Devs : OnNewDev(d) \/ OnDevGone(d) \/ (CtrlRetires(d) /\ lib[d] = "gone")

Interp ==
  \/ HostStart \/ HostStartAtOnce \/ StartOk \/ StartGivesUp
  \/ HostStop \/ StopCloses \/ StopReturns \/ PortCycle \/ PortCycleEnds
  \/ \E d \in Devs : Claim(d) \/ GiveUp(d)

Next ==
  \/ TaskStep \/ WaitEnds \/ Callback \/ Interp \/ Hangs
  \/ \E d \in Devs : Replug(d) \/ PumpLib(d) \/ CtrlRetires(d)

Spec == Init /\ [][Next]_vars

\* The task is scheduled unless a call of the library holds it for good (Hangs), a
\* pump gets to what the library and the client have pending, a wait that can end
\* does (the code counts its polls), and a call of the interpreter goes on once it
\* has begun: host_stop() by its clock.
Fairness ==
  /\ WF_vars(TaskStep \/ WaitEnds)
  /\ WF_vars(Callback \/ \E d \in Devs : PumpLib(d))
  /\ WF_vars(StartOk \/ StartGivesUp \/ StopCloses \/ StopReturns \/ PortCycleEnds)

FairSpec == Spec /\ Fairness

----------------------------------------------------------------------------
\* Every variable has its type.
TypeOK ==
  /\ plugged \subseteq Devs /\ port \in BOOLEAN /\ prompt \in BOOLEAN
  /\ lib \in [Devs -> {"none", "enum", "stuck", "ready", "gone"}]
  /\ installed \in BOOLEAN /\ client \in BOOLEAN /\ leaked \in BOOLEAN
  /\ opened \subseteq Devs /\ news \subseteq Devs /\ ep0 \subseteq Devs /\ freeing \subseteq Devs
  /\ handle \in BOOLEAN /\ seen \in BOOLEAN /\ hung \in BOOLEAN /\ late \in BOOLEAN
  /\ running \in BOOLEAN /\ tearing \in BOOLEAN
  /\ wedged \in BOOLEAN /\ result \in {"pending", "ok", "failed"}
  /\ task \in {"none", "install", "loop", "close", "release", "closeone", "drain", "freeall",
               "allfree", "portoff", "settle", "uninstall", "exit"}
  /\ cur \in Devs \cup {NoDev}
  /\ used \subseteq Devs /\ abandoned \in Nat
  /\ vm \in {"idle", "starting", "closing", "stopping", "cycling"}
  /\ said \in {"none", "ok", "failed", "wedged"} /\ deviceStack \in BOOLEAN
  /\ claimed \subseteq Devs /\ kept \in BOOLEAN

\* A library left installed behind the task, or beside TinyUSB, which drives the
\* same controller, is never passed over in silence: the host is wedged, and the
\* next host_start() says so (usbif#65, usbif#73).
NothingSilent == installed /\ (deviceStack \/ task \in {"none", "exit"}) => wedged

\* A transfer nobody waits for is counted for as long as a pipe holds it, even
\* when its device has been freed under it: teardown looks at the count alone.
AbandonedCounted == abandoned >= Cardinality(ep0) + (IF leaked THEN 1 ELSE 0)

\* While the loop runs, the slots are the devices the client has open, a
\* device that could not be closed because of a kept claim apart.
SlotsAreOpen == used \subseteq opened /\ (opened # used => kept \/ task # "loop")

\* The client has closed every device it opened by the time it deregisters,
\* unless the library kept a claim: no device is opened behind the close loop.
ClosedBeforeDeregister == task = "freeall" /\ ~kept /\ ~wedged => opened = {} /\ ~client

\* The state is well formed; what the teardown goes by, the slots and the count of
\* abandoned transfers, covers what the library holds; and it closes all of it.
Consistent == TypeOK /\ SlotsAreOpen /\ AbandonedCounted /\ ClosedBeforeDeregister

\* With a library that keeps within the waits, whatever is plugged in, stuck in
\* its enumeration or holding an abandoned transfer, a stop ends unwedged with
\* the controller free: what powering the root port off is for.  A transfer
\* abandoned after its callback ran is excepted: nothing retires it, the count
\* stays, and the stop is wedged for it (StopFreesAlways does not hold).
StopFrees == prompt /\ ~late => ~wedged

\* The same without the exception: every abandoned transfer is called back and
\* freed before the devices are closed (usbif_host.c:281-287), so a prompt stop
\* frees the controller.
StopFreesAlways == prompt => ~wedged

\* host_start() answers that the host runs only when it does: never for a task
\* that is on its way out, unless its install failed a moment ago.  (With an
\* install slower than start's wait it may: SlowInstall.)
StartTruth == vm = "idle" /\ said = "ok" /\ result = "ok" => running /\ handle /\ ~wedged

\* What host_start() and host_stop() leave behind is what they say, wedged or not.
SaysTrue == NothingSilent /\ StopFrees /\ StartTruth

\* A call of the interpreter comes back, and a teardown once begun ends with the
\* task gone or in a call of the library that never returns: each leads to a moment
\* with neither under way.
TeardownEnds ==
  vm # "idle" \/ (handle /\ ~running) ~> vm = "idle" /\ (handle => running \/ hung)
=============================================================================
