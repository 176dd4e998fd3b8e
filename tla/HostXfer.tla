------------------------------ MODULE HostXfer ------------------------------
(***************************************************************************)
(* The generic transfer layer of the USB host (usbif_host_xfer.c) together *)
(* with the lock, the device-gone handler and the abandoned-transfer       *)
(* bookkeeping it shares with usbif_host.c.                                *)
(*                                                                         *)
(* Two tasks drive one IDF client under the recursive host lock: the host  *)
(* task pumps the client's events, and the MicroPython task calls claim,   *)
(* release, ctrl and ep.  A call that waits gives the lock back; while it  *)
(* waits it may pump the events itself, so a completion callback or a      *)
(* DEV_GONE message can run in either task, also inside the other's wait.  *)
(* A step of this module is what one task does between taking the lock and *)
(* giving it back (or starting a wait), or one access to a semaphore.      *)
(*                                                                         *)
(* An operator named Mut... is the definition after it with a mistake in   *)
(* it; no specification uses it.  The property it is to break, and the run *)
(* that must find it out, are in PROJECT.json.                             *)
(***************************************************************************)
EXTENDS Integers, FiniteSets

CONSTANTS
  Devs,         \* device handles; a replugged device may get an old one
  Itfs, Alts,   \* interface numbers of every device, and alternate settings
  Eps, InEps,   \* endpoint addresses other than 0, and the IN ones
  ItfOf, Ep0,   \* an endpoint's interface; the control endpoint
  Xfers, None,  \* transfer objects (heap blocks)
  MaxClaims, MaxPipes,  \* USBIF_XFER_MAX_CLAIMS, USBIF_XFER_MAX_PIPES
  Unplugs,      \* may a device be unplugged?
  Keeps,        \* the values of `keep' that reads are called with
  Forevers,     \* may a call wait for good (timeout 0), may it not?
  AllocFails,   \* may usb_host_transfer_alloc fail at any time?
  Prompt        \* is a callback that is due always delivered within 100 ms?

ASSUME ConstantsOK ==
  /\ InEps \subseteq Eps /\ Ep0 \notin Eps /\ ItfOf \in [Eps -> Itfs]
  /\ None \notin Devs \cup Itfs \cup Alts \cup Eps \cup Xfers \cup {Ep0}
  /\ MaxClaims \in Nat /\ MaxPipes \in Nat
  /\ IsFiniteSet(Xfers)
  /\ Keeps \subseteq BOOLEAN /\ Forevers \subseteq BOOLEAN
  /\ {Unplugs, AllocFails, Prompt} \subseteq BOOLEAN

Pipes == Devs \X Eps
CtrlKeys == Devs \X {Ep0}
Keys == Pipes \cup CtrlKeys          \* what a transfer is addressed to
In(q) == q[2] \in InEps

\* Waits in progress: the API call's own, and that of a DEV_GONE handler
\* running in the API task (out of the call's own pump) or in the host task.
Handlers == {"apiGone", "hostGone"}
Waiters == {"call"} \cup Handlers
Task(h) == IF h = "hostGone" THEN "host" ELSE "api"

VARIABLES
  hub,        \* each device: absent, open, leaving (DEV_GONE queued), closing
  idf,        \* the interfaces the library holds claimed
  claims,     \* usbif_xfer_claims: the alternate each is claimed at, or None
  pipes, xfers,                  \* usbif_xfer_pipes, the transfer objects
  ctrlBusy, ctrlSem, abandoned,
  lock,                          \* who is inside the host lock
  pc, call, cur, todo, ret,      \* the API task: where, arguments, x, drop list
  wait, on,                      \* each waiter's state, and whose semaphore
  goneDev, goneTodo,             \* each handler's device and pipes left
  fault                          \* memory errors met so far

tableVars == <<claims, pipes>>
ctrlVars == <<ctrlBusy, ctrlSem, abandoned>>
callVars == <<pc, call, cur, todo, ret>>
waitVars == <<wait, on>>
goneVars == <<goneDev, goneTodo>>
vars == <<hub, idf, tableVars, xfers, ctrlVars, lock, callVars, waitVars, goneVars, fault>>

XferStates == {"free", "caller", "queued", "done"}
Statuses == {"ok", "stall", "error", "timedout", "canceled", "nodev"}
Results == {"none", "ok", "data", "nothing", "ETIMEDOUT", "EPIPE", "ENODEV", "EIO",
            "EBUSY", "EACCES", "ENOMEM"}
Faults == {"deleted_sem", "freed_xfer", "closed_dev", "null_xfer", "double_free",
           "freed_in_library"}

\* `unread': data the bus put in the buffer and no call has handed over yet.
\* `sized': mps is not 0, so the pipe has been handed out once.
FreeXfer == [st |-> "free", at |-> None, tag |-> FALSE, status |-> "ok", unread |-> FALSE]
NoPipe == [used |-> FALSE, xfer |-> None, sem |-> 0, busy |-> FALSE, kept |-> FALSE,
           sized |-> FALSE]
NoCall == [op |-> "none", dev |-> None, ep |-> None, itf |-> None, alt |-> None,
           keep |-> FALSE, forever |-> FALSE]

XferType == [st : XferStates, at : Keys \cup {None}, tag : BOOLEAN, status : Statuses,
             unread : BOOLEAN]
PipeType == [used : BOOLEAN, xfer : Xfers \cup {None}, sem : {0, 1}, busy : BOOLEAN,
             kept : BOOLEAN, sized : BOOLEAN]
CallType == [op : {"none", "ctrl", "ep", "claim", "release", "close"},
             dev : Devs \cup {None}, ep : Eps \cup {None}, itf : Itfs \cup {None},
             alt : Alts \cup {None}, keep : BOOLEAN, forever : BOOLEAN]

\* Every variable has its type.
TypeOK ==
  /\ hub \in [Devs -> {"absent", "open", "leaving", "closing"}]
  /\ idf \in [Devs -> SUBSET Itfs]
  /\ claims \in [Devs -> [Itfs -> Alts \cup {None}]]
  /\ pipes \in [Pipes -> PipeType] /\ xfers \in [Xfers -> XferType]
  /\ ctrlBusy \in BOOLEAN /\ ctrlSem \in {0, 1} /\ abandoned \in Int
  /\ lock \in {"none", "host", "api"}
  /\ pc \in {"idle", "ctrl", "ep", "retire", "drop", "claim", "release", "close"}
  /\ call \in CallType /\ cur \in Xfers \cup {None} /\ todo \subseteq Pipes
  /\ ret \in Results
  /\ wait \in [Waiters -> {"none", "waiting", "got", "late", "delay"}]
  /\ on \in [Waiters -> Keys \cup {None}]
  /\ goneDev \in [Handlers -> Devs \cup {None}]
  /\ goneTodo \in [Handlers -> SUBSET Pipes]
  /\ fault \subseteq Faults

Init ==
  /\ hub = [d \in Devs |-> "absent"] /\ idf = [d \in Devs |-> {}]
  /\ claims = [d \in Devs |-> [i \in Itfs |-> None]]
  /\ pipes = [q \in Pipes |-> NoPipe] /\ xfers = [x \in Xfers |-> FreeXfer]
  /\ ctrlBusy = FALSE /\ ctrlSem = 0 /\ abandoned = 0 /\ lock = "none"
  /\ pc = "idle" /\ call = NoCall /\ cur = None /\ todo = {} /\ ret = "none"
  /\ wait = [w \in Waiters |-> "none"] /\ on = [w \in Waiters |-> None]
  /\ goneDev = [h \in Handlers |-> None] /\ goneTodo = [h \in Handlers |-> {}]
  /\ fault = {}

-----------------------------------------------------------------------------
(* The library's transfers, the tables, faults.                            *)

InLibrary(x) == xfers[x].st \in {"queued", "done"}
Opened(d) == hub[d] \in {"open", "leaving"}
TableClaims == {c \in Devs \X Itfs : claims[c[1]][c[2]] # None}
UsedPipes == {q \in Pipes : pipes[q].used}
PipesOn(d, i) == {q \in UsedPipes : q[1] = d /\ ItfOf[q[2]] = i}
Busy(q) == pipes[q].used /\ pipes[q].busy

FreeFault(x) ==
  CASE x = None              -> {}
    [] x # None /\ InLibrary(x)            -> {"freed_in_library"}
    [] x # None /\ xfers[x].st = "free"    -> {"double_free"}
    [] x # None /\ xfers[x].st = "caller"  -> {}
Freed(x) == IF x = None THEN xfers ELSE [xfers EXCEPT ![x] = FreeXfer]
DevFault(d) == IF hub[d] = "absent" THEN {"closed_dev"} ELSE {}

\* usb_host_endpoint_halt and _flush: what is still queued on the endpoint
\* comes back canceled, a part of a packet perhaps in its buffer.
Flushed(q, part) ==
  [x \in Xfers |->
     IF xfers[x].st = "queued" /\ xfers[x].at = q
     THEN [xfers[x] EXCEPT !.st = "done", !.status = "canceled", !.unread = part /\ In(q)]
     ELSE xfers[x]]

MutErrno(status) == status           \* the library's status, passed on

\* usbif_xfer_status_errno
Errno(status) ==
  CASE status = "timedout" -> "ETIMEDOUT" [] status = "stall" -> "EPIPE"
    [] status = "nodev" -> "ENODEV"       [] OTHER -> "EIO"

\* The API task at rest with the lock to be had; a call that returns at once,
\* having changed nothing (or only what the caller names); the way back.
Idle == pc = "idle" /\ lock = "none"
Refuse(r) ==
  /\ ret' = r
  /\ UNCHANGED <<hub, idf, lock, pc, call, cur, todo, waitVars, goneVars>>
Return(r) == pc' = "idle" /\ call' = NoCall /\ cur' = None /\ todo' = {} /\ ret' = r

-----------------------------------------------------------------------------
(* usbif_xfer_wait: entering gives the lock back (not in the host task,    *)
(* which lock_suspend exempts), and the wait ends with the semaphore taken *)
(* or the time used up.  Only then is the lock taken again.                *)

LockInWait(w) == IF w = "hostGone" THEN "host" ELSE "none"

StartWait(w, k) ==
  /\ wait' = [wait EXCEPT ![w] = "waiting"] /\ on' = [on EXCEPT ![w] = k]
  /\ lock' = LockInWait(w)
StopWait(w) == wait' = [wait EXCEPT ![w] = "none"] /\ on' = [on EXCEPT ![w] = None]

\* The call's frame is suspended while a DEV_GONE handler runs above it.
Active(w) == w = "call" => goneDev["apiGone"] = None
Waiting(w) == wait[w] = "waiting" /\ Active(w)
CanResume(w) == Active(w) /\ wait[w] \in {"got", "late"} /\ lock = LockInWait(w)

OnPipe(w) == on[w] \in Pipes
SemGone(w) == OnPipe(w) /\ ~pipes[on[w]].used
SemValue(w) == IF OnPipe(w) THEN pipes[on[w]].sem ELSE ctrlSem

WaitTake(w) ==
  /\ Waiting(w) /\ ~SemGone(w) /\ SemValue(w) = 1
  /\ IF OnPipe(w) THEN pipes' = [pipes EXCEPT ![on[w]].sem = 0] /\ UNCHANGED ctrlSem
                  ELSE ctrlSem' = 0 /\ UNCHANGED pipes
  /\ wait' = [wait EXCEPT ![w] = "got"]
  /\ UNCHANGED <<hub, idf, claims, xfers, ctrlBusy, abandoned, lock, callVars, on, goneVars, fault>>

\* The time runs out.  The waits of retire and drop_pipes are 100 ms; the
\* call's own may be for good.
WaitExpire(w) ==
  /\ Waiting(w) /\ ~SemGone(w) /\ SemValue(w) = 0
  /\ IF w # "call" \/ pc \in {"retire", "drop"} THEN Prompt => ~pipes[on[w]].busy
                                                ELSE ~call.forever
  /\ wait' = [wait EXCEPT ![w] = "late"]
  /\ UNCHANGED <<hub, idf, tableVars, xfers, ctrlVars, lock, callVars, on, goneVars, fault>>

\* The semaphore was deleted under the waiter: whatever comes of it.
WaitOnDeleted(w) ==
  /\ Waiting(w) /\ SemGone(w)
  /\ \E r \in {"got", "late"} : wait' = [wait EXCEPT ![w] = r]
  /\ fault' = fault \cup {"deleted_sem"}
  /\ UNCHANGED <<hub, idf, tableVars, xfers, ctrlVars, lock, callVars, on, goneVars>>

-----------------------------------------------------------------------------
(* The bus, the library and its callbacks.                                 *)

\* The transfer on the bus ends; its callback is now due.
Complete(x) ==
  /\ xfers[x].st = "queued"
  /\ \E s \in {"ok", "stall", "error"} \cup
              (IF xfers[x].at \in CtrlKeys THEN {} ELSE {"timedout"}) :
       xfers' = [xfers EXCEPT ![x].st = "done", ![x].status = s,
                              ![x].unread = (s = "ok") /\ In(xfers[x].at)]
  /\ UNCHANGED <<hub, idf, tableVars, ctrlVars, lock, callVars, waitVars, goneVars, fault>>

\* The device disappears: its transfers come back with NO_DEVICE, their
\* callbacks and the DEV_GONE message wait for the next pump.
Unplug(d) ==
  /\ Unplugs /\ hub[d] = "open"
  /\ hub' = [hub EXCEPT ![d] = "leaving"]
  /\ xfers' = [x \in Xfers |->
                 IF xfers[x].st = "queued" /\ xfers[x].at[1] = d
                 THEN [xfers[x] EXCEPT !.st = "done", !.status = "nodev"] ELSE xfers[x]]
  /\ UNCHANGED <<idf, tableVars, ctrlVars, lock, callVars, waitVars, goneVars, fault>>

\* Someone may be inside usb_host_client_handle_events(): the host task's
\* loop, or a task in the first 20 ms of a wait.
Pumps(w) == Waiting(w) /\ lock = LockInWait(w)
SomePump == lock = "none" \/ \E w \in Waiters : Pumps(w)

\* usbif_host_on_new_dev, for a device the class filter lets through.
NewDev(d) ==
  /\ SomePump /\ hub[d] = "absent"
  /\ hub' = [hub EXCEPT ![d] = "open"]
  /\ UNCHANGED <<idf, tableVars, xfers, ctrlVars, lock, callVars, waitVars, goneVars, fault>>

\* usbif_xfer_ctrl_cb, with usbif_host_ctrl_reclaim
CtrlCb(x) ==
  /\ IF xfers[x].tag
     THEN /\ abandoned' = abandoned - 1 /\ xfers' = Freed(x)
          /\ UNCHANGED <<ctrlBusy, ctrlSem>>
     ELSE /\ ctrlBusy' = FALSE /\ ctrlSem' = 1
          /\ xfers' = [xfers EXCEPT ![x].st = "caller"] /\ UNCHANGED abandoned
  /\ UNCHANGED pipes

MutEpCb(x) ==                        \* the waiter is not told
  /\ xfers' = [xfers EXCEPT ![x].st = "caller"]
  /\ pipes' = [pipes EXCEPT ![xfers[x].at].busy = FALSE]
  /\ UNCHANGED ctrlVars

\* usbif_xfer_cb
EpCb(x) ==
  /\ xfers' = [xfers EXCEPT ![x].st = "caller"]
  /\ pipes' = [pipes EXCEPT ![xfers[x].at].busy = FALSE, ![xfers[x].at].sem = 1]
  /\ UNCHANGED ctrlVars

Callback(x) ==
  /\ SomePump /\ xfers[x].st = "done"
  /\ IF xfers[x].at \in CtrlKeys THEN CtrlCb(x) ELSE EpCb(x)
  /\ UNCHANGED <<hub, idf, claims, lock, callVars, waitVars, goneVars, fault>>

-----------------------------------------------------------------------------
(* DEV_GONE: usbif_xfer_on_dev_gone, then usbif_host_on_dev_gone closes.   *)

\* Bound: a task that already runs a handler starts no second one inside it.
GoneBegin(h, d) ==
  /\ hub[d] = "leaving" /\ goneDev[h] = None /\ lock = "none"
  /\ h = "apiGone" => Pumps("call")
  /\ lock' = Task(h)
  /\ hub' = [hub EXCEPT ![d] = "closing"]
  /\ goneDev' = [goneDev EXCEPT ![h] = d]
  /\ goneTodo' = [goneTodo EXCEPT ![h] = {q \in UsedPipes : q[1] = d}]
  /\ UNCHANGED <<idf, tableVars, xfers, ctrlVars, callVars, waitVars, fault>>

MutDropOrLeak(q, more) ==            \* freed whether its callback came or not
  /\ pipes' = [pipes EXCEPT ![q] = NoPipe] /\ xfers' = Freed(pipes[q].xfer)
  /\ fault' = fault \cup more \cup FreeFault(pipes[q].xfer)

\* The end of drop_pipes' loop: free the transfer and the semaphore, unless
\* the callback never came.  `more': what else went wrong on the way.
DropOrLeak(q, more) ==
  IF pipes[q].busy
  THEN fault' = fault \cup more /\ UNCHANGED <<pipes, xfers>>
  ELSE /\ pipes' = [pipes EXCEPT ![q] = NoPipe]
       /\ xfers' = Freed(pipes[q].xfer)
       /\ fault' = fault \cup more \cup FreeFault(pipes[q].xfer) \cup
                   (IF pipes[q].used THEN {} ELSE {"double_free"})

\* The loop passes over a pipe that another task dropped meanwhile.
DropUsed(q) ==
  IF pipes[q].used THEN DropOrLeak(q, {}) ELSE UNCHANGED <<pipes, xfers, fault>>

\* The next pipe of the device.  Nothing is halted: the device is gone, and
\* a busy pipe's callback is already queued.
GoneDrop(h, q) ==
  /\ goneDev[h] # None /\ wait[h] = "none" /\ lock = Task(h) /\ q \in goneTodo[h]
  /\ IF pipes[q].busy
     THEN StartWait(h, q) /\ UNCHANGED <<pipes, xfers, fault, goneTodo>>
     ELSE /\ DropUsed(q) /\ goneTodo' = [goneTodo EXCEPT ![h] = @ \ {q}]
          /\ UNCHANGED <<lock, waitVars>>
  /\ UNCHANGED <<hub, idf, claims, ctrlVars, callVars, goneDev>>

GoneWaited(h) ==
  /\ goneDev[h] # None /\ CanResume(h)
  /\ DropOrLeak(on[h], {}) /\ goneTodo' = [goneTodo EXCEPT ![h] = @ \ {on[h]}]
  /\ StopWait(h) /\ lock' = Task(h)
  /\ UNCHANGED <<hub, idf, claims, ctrlVars, callVars, goneDev>>

MutGoneClaims(d) == claims           \* the table keeps a gone device's claims

\* The claims go, the slot's device is closed, the pump gives the lock back.
GoneClaims(d) == [claims EXCEPT ![d] = [i \in Itfs |-> None]]
GoneEnd(h) ==
  /\ goneDev[h] # None /\ goneTodo[h] = {} /\ wait[h] = "none" /\ lock = Task(h)
  /\ claims' = GoneClaims(goneDev[h])
  /\ idf' = [idf EXCEPT ![goneDev[h]] = {}]
  /\ hub' = [hub EXCEPT ![goneDev[h]] = "absent"]
  /\ goneDev' = [goneDev EXCEPT ![h] = None] /\ lock' = "none"
  /\ UNCHANGED <<pipes, xfers, ctrlVars, callVars, waitVars, goneTodo, fault>>

-----------------------------------------------------------------------------
(* usbif_xfer_ctrl                                                         *)

Free == {x \in Xfers : xfers[x].st = "free"}
NoMemory == AllocFails \/ Free = {}

CtrlRefused(d) ==
  /\ Idle
  /\ \/ ~Opened(d) /\ Refuse("ENODEV") /\ UNCHANGED ctrlSem
     \/ Opened(d) /\ ctrlBusy /\ Refuse("EBUSY") /\ UNCHANGED ctrlSem
     \/ Opened(d) /\ ~ctrlBusy /\ NoMemory /\ Refuse("ENOMEM") /\ UNCHANGED ctrlSem
     \/ Opened(d) /\ ~ctrlBusy /\ Free # {} /\ Refuse("EIO") /\ ctrlSem' = 0
  /\ UNCHANGED <<tableVars, xfers, ctrlBusy, abandoned, fault>>

MutDrained(sem) == sem               \* not taken first

\* Before a submit: the semaphore may still hold an earlier completion.
Drained(sem) == 0
Armed(k) == [FreeXfer EXCEPT !.st = "queued", !.at = k]

Ctrl(d, forever) ==
  /\ Idle /\ hub[d] = "open" /\ ~ctrlBusy
  /\ \E x \in Free : cur' = x /\ xfers' = [xfers EXCEPT ![x] = Armed(<<d, Ep0>>)]
  /\ ctrlBusy' = TRUE /\ ctrlSem' = Drained(ctrlSem)
  /\ pc' = "ctrl" /\ ret' = "none"
  /\ call' = [NoCall EXCEPT !.op = "ctrl", !.dev = d, !.forever = forever]
  /\ StartWait("call", <<d, Ep0>>)
  /\ UNCHANGED <<hub, idf, tableVars, abandoned, todo, goneVars, fault>>

CtrlDone ==
  /\ pc = "ctrl" /\ CanResume("call") /\ wait["call"] = "got"
  /\ fault' = fault \cup FreeFault(cur) /\ xfers' = Freed(cur)
  /\ Return(IF xfers[cur].status = "ok" THEN "ok" ELSE Errno(xfers[cur].status))
  /\ StopWait("call")
  /\ UNCHANGED <<hub, idf, tableVars, ctrlVars, lock, goneVars>>

MutCtrlAbandon ==                    \* given up and freed at once
  /\ pc = "ctrl" /\ CanResume("call") /\ wait["call"] = "late"
  /\ xfers' = Freed(cur) /\ ctrlBusy' = FALSE
  /\ Return("ETIMEDOUT") /\ StopWait("call")
  /\ UNCHANGED <<hub, idf, tableVars, ctrlSem, abandoned, lock, goneVars, fault>>

\* usbif_host_ctrl_abandon
CtrlAbandon ==
  /\ pc = "ctrl" /\ CanResume("call") /\ wait["call"] = "late"
  /\ xfers' = [xfers EXCEPT ![cur].tag = TRUE]
  /\ abandoned' = abandoned + 1 /\ ctrlBusy' = FALSE
  /\ Return("ETIMEDOUT") /\ StopWait("call")
  /\ UNCHANGED <<hub, idf, tableVars, ctrlSem, lock, goneVars, fault>>

-----------------------------------------------------------------------------
(* usbif_xfer_ep, with usbif_xfer_pipe                                     *)

Kept(q) == Busy(q) /\ pipes[q].kept
Claimed(q) == claims[q[1]][ItfOf[q[2]]] # None
RoomFor(q) == pipes[q].used \/ Cardinality(UsedPipes) < MaxPipes

EpRefused(q) ==
  /\ Idle
  /\ \/ ~Opened(q[1]) /\ Refuse("ENODEV")
     \/ Opened(q[1]) /\ Busy(q) /\ ~Kept(q) /\ Refuse("EBUSY")
     \/ Opened(q[1]) /\ ~Busy(q) /\ ~Claimed(q) /\ Refuse("EACCES")
     \/ Opened(q[1]) /\ ~Busy(q) /\ Claimed(q) /\ ~RoomFor(q) /\ Refuse("ENOMEM")
  /\ UNCHANGED <<tableVars, xfers, ctrlVars, fault>>

\* The pipe is the caller's to use: none yet, or one that is not in flight.
EpReady(q) == Idle /\ Opened(q[1]) /\ ~Busy(q) /\ Claimed(q) /\ RoomFor(q)

\* A pipe whose last allocation failed has its mps and no transfer: to ask
\* for the buffer's size is to follow a null pointer.
NullXfer(q) == pipes[q].used /\ pipes[q].sized /\ pipes[q].xfer = None
EpNull(q) ==
  /\ EpReady(q) /\ NullXfer(q)
  /\ fault' = fault \cup {"null_xfer"} /\ Refuse(ret)
  /\ UNCHANGED <<tableVars, xfers, ctrlVars>>

\* The pipe's transfer serves, or its buffer is too small and a larger one
\* is allocated after it is freed (the same block, to this model).
Reusable(q) == pipes[q].used /\ pipes[q].xfer # None
EpXfer(q) == IF Reusable(q) THEN {pipes[q].xfer} ELSE Free

EpNoMemory(q) ==
  /\ EpReady(q) /\ ~NullXfer(q)
  /\ IF Reusable(q) THEN AllocFails ELSE NoMemory
  /\ xfers' = Freed(pipes[q].xfer) /\ fault' = fault \cup FreeFault(pipes[q].xfer)
  /\ pipes' = [pipes EXCEPT ![q].used = TRUE, ![q].xfer = None]
  /\ Refuse("ENOMEM")
  /\ UNCHANGED <<claims, ctrlVars>>

MutEpSubmitFails(q) ==               \* busy is not cleared again
  /\ EpReady(q) /\ ~NullXfer(q)
  /\ \E x \in EpXfer(q) :
       /\ xfers' = [xfers EXCEPT ![x] = [Armed(q) EXCEPT !.st = "caller"]]
       /\ pipes' = [pipes EXCEPT ![q] = [@ EXCEPT !.used = TRUE, !.xfer = x, !.sized = TRUE,
                                                  !.sem = Drained(@), !.busy = TRUE]]
  /\ Refuse("EIO")
  /\ UNCHANGED <<claims, ctrlVars, fault>>

EpSubmitFails(q) ==
  /\ EpReady(q) /\ ~NullXfer(q)
  /\ \E x \in EpXfer(q) :
       /\ xfers' = [xfers EXCEPT ![x] = [Armed(q) EXCEPT !.st = "caller"]]
       /\ pipes' = [pipes EXCEPT ![q] = [@ EXCEPT !.used = TRUE, !.xfer = x, !.sized = TRUE,
                                                  !.sem = Drained(@)]]
  /\ Refuse("EIO")
  /\ UNCHANGED <<claims, ctrlVars, fault>>

StartEp(q, keep, forever) ==
  /\ pc' = "ep" /\ ret' = "none"
  /\ call' = [NoCall EXCEPT !.op = "ep", !.dev = q[1], !.ep = q[2], !.keep = keep,
                            !.forever = forever]
  /\ StartWait("call", q)
  /\ UNCHANGED <<hub, idf, claims, ctrlVars, todo, goneVars, fault>>

EpSubmit(q, keep, forever) ==
  /\ EpReady(q) /\ ~NullXfer(q) /\ hub[q[1]] = "open"
  /\ \E x \in EpXfer(q) :
       /\ cur' = x /\ xfers' = [xfers EXCEPT ![x] = Armed(q)]
       /\ pipes' = [pipes EXCEPT ![q] = [used |-> TRUE, xfer |-> x, sem |-> Drained(@.sem),
                                         busy |-> TRUE, kept |-> FALSE, sized |-> TRUE]]
  /\ StartEp(q, keep, forever)

\* A kept poll is still armed: wait for it.
EpPickUp(q, keep, forever) ==
  /\ Idle /\ Opened(q[1]) /\ Kept(q)
  /\ pipes' = [pipes EXCEPT ![q].kept = FALSE]
  /\ cur' = pipes[q].xfer /\ UNCHANGED xfers
  /\ StartEp(q, keep, forever)

\* Hand the data over, or say what went wrong.  (The status has been read:
\* nothing reads it again before the next submit sets it.)
Target == <<call.dev, call.ep>>
EpResult(r) ==
  /\ xfers' = [xfers EXCEPT ![cur].unread = @ /\ r # "data", ![cur].status = "ok"]
  /\ Return(r) /\ StopWait("call")
StatusResult(s) ==
  CASE s = "ok" -> IF In(Target) THEN "data" ELSE "ok"
    [] s = "timedout" /\ call.keep /\ In(Target) -> "nothing"
    [] OTHER -> Errno(s)

\* The completion arrived: read the transfer.  The pipe may be gone by now;
\* then the block is free and may hold anything.
XferFault == IF xfers[cur].st = "free" THEN {"freed_xfer"} ELSE {}
EpDone ==
  /\ pc = "ep" /\ CanResume("call") /\ wait["call"] = "got"
  /\ \E s \in IF xfers[cur].st = "free" THEN Statuses ELSE {xfers[cur].status} :
       EpResult(StatusResult(s))
  /\ fault' = fault \cup XferFault
  /\ UNCHANGED <<hub, idf, tableVars, ctrlVars, lock, goneVars>>

\* The time is up for a poll: leave the transfer armed.
EpKeep ==
  /\ pc = "ep" /\ CanResume("call") /\ wait["call"] = "late" /\ call.keep /\ In(Target)
  /\ pipes' = IF pipes[Target].used THEN [pipes EXCEPT ![Target].kept = TRUE] ELSE pipes
  /\ EpResult("nothing")
  /\ UNCHANGED <<hub, idf, claims, ctrlVars, lock, goneVars, fault>>

\* usbif_xfer_retire: halt, flush, and wait up to 100 ms for the callback.
EpRetire ==
  /\ pc = "ep" /\ CanResume("call") /\ wait["call"] = "late" /\ ~(call.keep /\ In(Target))
  /\ \E part \in BOOLEAN : xfers' = Flushed(Target, part)
  /\ fault' = fault \cup DevFault(call.dev)
  /\ pc' = "retire" /\ StartWait("call", Target)
  /\ UNCHANGED <<hub, idf, tableVars, ctrlVars, call, cur, todo, ret, goneVars>>

MutEpRetired ==                      \* a timeout is a timeout
  /\ pc = "retire" /\ CanResume("call")
  /\ EpResult("ETIMEDOUT")
  /\ fault' = fault \cup DevFault(call.dev)
  /\ UNCHANGED <<hub, idf, tableVars, ctrlVars, lock, goneVars>>

\* Data that landed between the timeout and the halt is handed over.
EpRetired ==
  /\ pc = "retire" /\ CanResume("call")
  /\ EpResult(IF In(Target) /\ ~Busy(Target) /\ xfers[cur].unread THEN "data" ELSE "ETIMEDOUT")
  /\ fault' = fault \cup DevFault(call.dev) \cup XferFault
  /\ UNCHANGED <<hub, idf, tableVars, ctrlVars, lock, goneVars>>

-----------------------------------------------------------------------------
(* usbif_xfer_claim, _release, _close, and drop_pipes on the API side.     *)

StartDrop(op, d, i, a) ==
  /\ pc' = "drop" /\ lock' = "api" /\ todo' = PipesOn(d, i)
  /\ call' = [NoCall EXCEPT !.op = op, !.dev = d, !.itf = i, !.alt = a]

\* usb_host_interface_claim, and what becomes of the table.
ClaimResult(d, i, a) ==
  \/ /\ hub[d] = "open" /\ i \notin idf[d]
     /\ idf' = [idf EXCEPT ![d] = @ \cup {i}] /\ claims' = [claims EXCEPT ![d][i] = a]
     /\ ret' = "ok"
  \/ ret' = "EBUSY" /\ UNCHANGED <<idf, claims>>

ClaimRefused(d, i, a) ==
  /\ Idle
  /\ \/ ~Opened(d) /\ Refuse("ENODEV")
     \/ Opened(d) /\ claims[d][i] = a /\ Refuse("ok")
     \/ /\ Opened(d) /\ claims[d][i] = None /\ Cardinality(TableClaims) >= MaxClaims
        /\ Refuse("ENOMEM")
  /\ UNCHANGED <<tableVars, xfers, ctrlVars, fault>>

ClaimFresh(d, i, a) ==
  /\ Idle /\ Opened(d) /\ claims[d][i] = None /\ Cardinality(TableClaims) < MaxClaims
  /\ ClaimResult(d, i, a)
  /\ UNCHANGED <<hub, pipes, xfers, ctrlVars, lock, pc, call, cur, todo, waitVars, goneVars, fault>>

\* Another alternate setting: drop the pipes, release, claim again.
ClaimOther(d, i, a) ==
  /\ Idle /\ Opened(d) /\ claims[d][i] \notin {None, a}
  /\ StartDrop("claim", d, i, a) /\ ret' = "none"
  /\ UNCHANGED <<hub, idf, tableVars, xfers, ctrlVars, cur, waitVars, goneVars, fault>>

ReleaseNothing(d, i) ==
  /\ Idle
  /\ \/ ~Opened(d) /\ Refuse("ENODEV")
     \/ Opened(d) /\ claims[d][i] = None /\ Refuse("ok")
  /\ UNCHANGED <<tableVars, xfers, ctrlVars, fault>>

Release(d, i) ==
  /\ Idle /\ Opened(d) /\ claims[d][i] # None
  /\ StartDrop("release", d, i, None) /\ ret' = "none"
  /\ UNCHANGED <<hub, idf, tableVars, xfers, ctrlVars, cur, waitVars, goneVars, fault>>

\* usbif_xfer_close: release the claims one by one.
CloseCall == [NoCall EXCEPT !.op = "close"]
Close ==
  /\ Idle
  /\ pc' = "close" /\ call' = CloseCall /\ lock' = "api" /\ ret' = "none"
  /\ UNCHANGED <<hub, idf, tableVars, xfers, ctrlVars, cur, todo, waitVars, goneVars, fault>>

CloseNext ==
  /\ pc = "close" /\ lock = "api"
  /\ \/ TableClaims = {} /\ Return("ok") /\ lock' = "none"
     \/ \E c \in TableClaims : StartDrop("close", c[1], c[2], None) /\ UNCHANGED <<cur, ret>>
  /\ UNCHANGED <<hub, idf, tableVars, xfers, ctrlVars, waitVars, goneVars, fault>>

\* drop_pipes: one pipe at a time.  One in flight is halted and flushed, and
\* its callback awaited before the transfer is freed.
Dropping == pc = "drop" /\ lock = "api" /\ Active("call") /\ wait["call"] = "none"
DropNext(q) ==
  /\ Dropping /\ q \in todo
  /\ IF pipes[q].busy
     THEN /\ \E part \in BOOLEAN : xfers' = Flushed(q, part)
          /\ fault' = fault \cup DevFault(call.dev)
          /\ StartWait("call", q) /\ UNCHANGED <<pipes, todo>>
     ELSE DropUsed(q) /\ todo' = todo \ {q} /\ UNCHANGED <<lock, waitVars>>
  /\ UNCHANGED <<hub, idf, claims, ctrlVars, pc, call, cur, ret, goneVars>>

DropWaited ==
  /\ pc = "drop" /\ CanResume("call")
  /\ DropOrLeak(on["call"], DevFault(call.dev)) /\ todo' = todo \ {on["call"]}
  /\ StopWait("call") /\ lock' = "api"
  /\ UNCHANGED <<hub, idf, claims, ctrlVars, pc, call, cur, ret, goneVars>>

\* The library refuses to release an interface with transfers in flight.
LibReleases(d, i) ==
  /\ Opened(d) /\ i \in idf[d]
  /\ \A q \in Pipes, x \in Xfers :
       q[1] = d /\ ItfOf[q[2]] = i /\ xfers[x].at = q => ~InLibrary(x)
LibRelease(d, i) ==
  idf' = IF LibReleases(d, i) THEN [idf EXCEPT ![d] = @ \ {i}] ELSE idf

\* The claim call goes on: release once, forget the claim, claim again.
ClaimAgain ==
  /\ Dropping /\ todo = {} /\ call.op = "claim"
  /\ fault' = fault \cup DevFault(call.dev)
  /\ LibRelease(call.dev, call.itf)
  /\ claims' = [claims EXCEPT ![call.dev][call.itf] = None]
  /\ pc' = "claim"
  /\ UNCHANGED <<hub, pipes, xfers, ctrlVars, lock, call, cur, todo, ret, waitVars, goneVars>>

ClaimEnds ==
  /\ pc = "claim" /\ lock = "api"
  /\ ClaimResult(call.dev, call.itf, call.alt)
  /\ pc' = "idle" /\ call' = NoCall /\ lock' = "none"
  /\ UNCHANGED <<hub, pipes, xfers, ctrlVars, cur, todo, waitVars, goneVars, fault>>

\* The table forgets the claim at the end, whether the library released the
\* interface or not.
Released(result) ==
  /\ claims' = [claims EXCEPT ![call.dev][call.itf] = None]
  /\ IF call.op = "close"
     THEN pc' = "close" /\ call' = CloseCall /\ lock' = "api" /\ UNCHANGED <<cur, todo, ret>>
     ELSE Return(result) /\ lock' = "none"

ReleaseTry ==
  /\ \/ Dropping /\ todo = {} /\ call.op \in {"release", "close"}
     \/ pc = "release" /\ lock = "api"
  /\ fault' = fault \cup DevFault(call.dev)
  /\ LibRelease(call.dev, call.itf)
  /\ IF LibReleases(call.dev, call.itf)
     THEN Released("ok") /\ UNCHANGED waitVars
     ELSE /\ pc' = "release" /\ wait' = [wait EXCEPT !["call"] = "delay"] /\ lock' = "none"
          /\ UNCHANGED <<claims, call, cur, todo, ret, on>>
  /\ UNCHANGED <<hub, pipes, xfers, ctrlVars, goneVars>>

\* One tick later: once more, or the 250 ms are over.
ReleaseRetry ==
  /\ pc = "release" /\ lock = "none" /\ wait["call"] = "delay"
  /\ StopWait("call")
  /\ \/ lock' = "api" /\ UNCHANGED <<claims, callVars>>
     \/ (Prompt => hub[call.dev] # "open") /\ Released("EBUSY")
  /\ UNCHANGED <<hub, idf, pipes, xfers, ctrlVars, goneVars, fault>>

-----------------------------------------------------------------------------
BusNext ==
  \/ \E x \in Xfers : Complete(x) \/ Callback(x)
  \/ \E d \in Devs : Unplug(d) \/ NewDev(d)

GoneNext ==
  \E h \in Handlers :
    \/ \E d \in Devs : GoneBegin(h, d)
    \/ \E q \in Pipes : GoneDrop(h, q)
    \/ GoneWaited(h) \/ GoneEnd(h)

WaitNext ==
  \E w \in Waiters : WaitTake(w) \/ WaitExpire(w) \/ WaitOnDeleted(w)

CtrlNext ==
  \/ \E d \in Devs : CtrlRefused(d) \/ \E f \in Forevers : Ctrl(d, f)
  \/ CtrlDone \/ CtrlAbandon

EpNext ==
  \/ \E q \in Pipes :
       \/ EpRefused(q) \/ EpNull(q) \/ EpNoMemory(q) \/ EpSubmitFails(q)
       \/ \E k \in Keeps, f \in Forevers :
            (k => In(q)) /\ (EpPickUp(q, k, f) \/ EpSubmit(q, k, f))
  \/ EpDone \/ EpKeep \/ EpRetire \/ EpRetired

ClaimNext ==
  \/ \E d \in Devs, i \in Itfs :
       \/ ReleaseNothing(d, i) \/ Release(d, i)
       \/ \E a \in Alts : ClaimRefused(d, i, a) \/ ClaimFresh(d, i, a)
                          \/ ClaimOther(d, i, a)
  \/ Close \/ CloseNext
  \/ \E q \in Pipes : DropNext(q)
  \/ DropWaited \/ ClaimAgain \/ ClaimEnds
  \/ ReleaseTry \/ ReleaseRetry

Next == BusNext \/ GoneNext \/ WaitNext \/ CtrlNext \/ EpNext \/ ClaimNext

Spec == Init /\ [][Next]_vars

\* The host task outranks the API task and its loop runs every tick, so it
\* gets a lock that is free again and again, and delivers what is due.  The
\* API task gets it while the host task sleeps; a task that is ready runs; a
\* time that is up is noticed.  The bus owes an answer only to a call that
\* waits for good.
LoopDelivers == (lock = "none" \/ Pumps("hostGone")) /\ \E x \in Xfers : Callback(x)
LoopSeesGone == \E d \in Devs : GoneBegin("hostGone", d)
GoneGoesOn(h) == (\E q \in Pipes : GoneDrop(h, q)) \/ GoneWaited(h) \/ GoneEnd(h)
CallGoesOn == CtrlDone \/ CtrlAbandon \/ EpDone \/ EpKeep \/ EpRetire \/ EpRetired
DropGoesOn == CloseNext \/ DropWaited \/ ClaimAgain \/ ClaimEnds
              \/ ReleaseTry \/ ReleaseRetry \/ \E q \in Pipes : DropNext(q)
ReleaseOver == ReleaseRetry /\ pc' # "release"      \* the 250 ms are over
WaitEnds(w) == WaitTake(w) \/ WaitExpire(w) \/ WaitOnDeleted(w)
BusAnswers == \E x \in Xfers : call.forever /\ x = cur /\ Complete(x)
Fairness ==
  /\ SF_vars(LoopDelivers) /\ SF_vars(LoopSeesGone) /\ WF_vars(BusAnswers)
  /\ \A h \in Handlers : WF_vars(GoneGoesOn(h)) /\ WF_vars(WaitEnds(h))
  /\ SF_vars(WaitEnds("call")) /\ SF_vars(CallGoesOn) /\ SF_vars(DropGoesOn) /\ SF_vars(ReleaseOver)

FairSpec == Spec /\ Fairness

-----------------------------------------------------------------------------
(* Properties.                                                             *)

\* No transfer is freed while the library still holds it ("leak it rather
\* than free it under the library", usbif_xfer_drop_pipes).
NothingFreedInLibrary == "freed_in_library" \notin fault

\* Who owns each transfer, as no single task sees it: a pipe its own cached
\* one, the library what was submitted, ctrl the one it waits for.  What
\* usbif_xfer_drop_pipes reads (`busy') then says whether it may free.
PipeOwns ==
  \A q \in Pipes :
    /\ ~pipes[q].used => pipes[q] = NoPipe
    /\ pipes[q].xfer = None => ~pipes[q].busy
    /\ pipes[q].xfer # None =>
         LET x == xfers[pipes[q].xfer]
         IN  x.at = q /\ ~x.tag /\ x.st # "free" /\ (pipes[q].busy <=> x.st # "caller")
LibraryOwns ==
  \A x \in Xfers : InLibrary(x) =>
    \/ xfers[x].at \in Pipes /\ pipes[xfers[x].at].xfer = x
    \/ xfers[x].at \in CtrlKeys /\ (xfers[x].tag \/ (pc = "ctrl" /\ cur = x))
CtrlOwns ==
  pc = "ctrl" =>
    /\ cur \in Xfers /\ on["call"] = xfers[cur].at /\ on["call"] \in CtrlKeys
    /\ xfers[cur].st # "free" /\ ~xfers[cur].tag
    /\ ctrlSem = 1 \/ wait["call"] = "got" => xfers[cur].st = "caller"
\* The waits of usbif_xfer_ep, usbif_xfer_retire and drop_pipes are for a
\* pipe's semaphore; a call that is not waiting has no wait; a handler in the
\* API task runs inside the call's wait, never inside its one-tick delays.
WaitsMatch ==
  /\ \A h \in Handlers : wait[h] # "none" => on[h] \in Pipes
  /\ pc \in {"ep", "retire", "drop"} /\ wait["call"] # "none" => on["call"] \in Pipes
  /\ pc \in {"ep", "retire"} => cur \in Xfers /\ Target \in Pipes
  /\ pc \in {"idle", "claim", "close"} => wait["call"] = "none"
  /\ pc \in {"drop", "claim", "release"} => call.dev \in Devs /\ call.itf \in Itfs
  /\ pc = "release" => wait["call"] \in {"none", "delay"}
  /\ wait["call"] = "delay" => pc = "release" /\ lock # "api"
  /\ goneDev["apiGone"] # None => wait["call"] \in {"waiting", "got", "late"}
Ownership == PipeOwns /\ LibraryOwns /\ CtrlOwns /\ WaitsMatch

\* Nothing freed, deleted or closed is used again.
MemorySafe == fault = {}

\* `busy' says exactly which transfers the library has.
BusyMeansInFlight ==
  \A q \in UsedPipes :
    pipes[q].busy <=> pipes[q].xfer # None /\ InLibrary(pipes[q].xfer)

\* A wait that is satisfied was satisfied by the transfer it waits for, not
\* by the completion of an earlier one left in the semaphore.
CompletionIsOwn ==
  /\ pc \in {"ctrl", "ep"} /\ (wait["call"] = "got" \/
        (wait["call"] = "waiting" /\ ~SemGone("call") /\ SemValue("call") = 1))
     => ~InLibrary(cur)
  /\ \A w \in Waiters :
       wait[w] = "waiting" /\ OnPipe(w) /\ ~SemGone(w) /\ SemValue(w) = 1
         => ~pipes[on[w]].busy

\* The table never claims what the library does not.
ClaimsAgree == \A c \in TableClaims : c[2] \in idf[c[1]]

\* A device that is gone leaves no claim behind.
GoneLeavesNoClaim == \A c \in TableClaims : hub[c[1]] # "absent"

\* What teardown reads: the count of transfers given up and not retired.
AbandonedCounted == abandoned = Cardinality({x \in Xfers : xfers[x].tag})

\* The layer's books agree with the library: busy flags, claims and the count.
BooksAgree == BusyMeansInFlight /\ ClaimsAgree /\ AbandonedCounted

\* What holds as long as no device goes: every variable has its type, nothing freed is
\* used, a wait is satisfied by its own transfer, and the books agree with the library.
Safe == TypeOK /\ MemorySafe /\ CompletionIsOwn /\ BooksAgree

\* An abandoned transfer is one whose callback is still to come.
AbandonedRetires == \A x \in Xfers : xfers[x].tag => InLibrary(x)

\* A report the bus delivered goes to a reader, or away with its interface.
NoReportLost ==
  [][\A x \in Xfers :
       xfers[x].st = "caller" /\ xfers[x].unread /\ ~xfers'[x].unread =>
         \/ ret' = "data" /\ cur = x
         \/ xfers'[x].st = "free" /\ (pc = "drop" \/ lock' # "none")]_vars

\* The contract of the library's transfers, kept.
Owner(x) ==
  CASE xfers[x].st \in {"free", "caller"} -> xfers[x].st
    [] InLibrary(x) /\ xfers[x].tag -> "abandoned"
    [] OTHER -> "library"
Contract == INSTANCE TransferContract WITH owner <- [x \in Xfers |-> Owner(x)]
KeepsContract == Contract!Spec

\* A transfer call that finds its device gone raises ENODEV (mod_usbif.c,
\* usbif_host_status and friends).
GoneIsENODEV ==
  [][pc = "ep" /\ wait["call"] = "got" /\ pc' = "idle" /\ hub[call.dev] = "absent"
       => ret' = "ENODEV"]_vars

\* Running out of memory is an errno, and so is the call after it.
ErrorsComeBack == "null_xfer" \notin fault

\* Every call comes back.
CallReturns == pc # "idle" ~> pc = "idle"
=============================================================================
