--------------------------- MODULE HostXferProofs ---------------------------
(***************************************************************************)
(* Theorems of HostXfer, for any devices, interfaces, endpoints and        *)
(* transfer objects: first who owns each transfer, then what follows.      *)
(***************************************************************************)
EXTENDS HostXfer, TLAPS, FiniteSetTheorems

-----------------------------------------------------------------------------
(* Types.                                                                  *)

\* The data every record of the model is made of has its type.
LEMMA RecordTypes ==
  /\ FreeXfer \in XferType /\ NoPipe \in PipeType /\ NoCall \in CallType
  /\ \A k \in Keys : Armed(k) \in XferType
  BY DEF FreeXfer, NoPipe, NoCall, Armed, XferType, PipeType, CallType, XferStates, Statuses

\* The initial state is well typed.
LEMMA InitTypes == ASSUME Init PROVE TypeOK
<1>1. /\ hub \in [Devs -> {"absent", "open", "leaving", "closing"}]
      /\ idf \in [Devs -> SUBSET Itfs]
      /\ claims \in [Devs -> [Itfs -> Alts \cup {None}]]
  BY DEF Init
<1>2. pipes \in [Pipes -> PipeType] /\ xfers \in [Xfers -> XferType] /\ call \in CallType
  BY RecordTypes DEF Init
<1>3. /\ wait \in [Waiters -> {"none", "waiting", "got", "late", "delay"}]
      /\ on \in [Waiters -> Keys \cup {None}]
      /\ goneDev \in [Handlers -> Devs \cup {None}]
      /\ goneTodo \in [Handlers -> SUBSET Pipes]
  BY DEF Init
<1>4. /\ ctrlSem \in {0, 1} /\ abandoned \in Int
      /\ lock \in {"none", "host", "api"} /\ cur \in Xfers \cup {None}
      /\ pc \in {"idle", "ctrl", "ep", "retire", "drop", "claim", "release", "close"}
      /\ ret \in Results
  BY DEF Init, Results
<1>5. ctrlBusy \in BOOLEAN /\ todo \subseteq Pipes /\ fault \subseteq Faults
  BY DEF Init
<1> QED BY <1>1, <1>2, <1>3, <1>4, <1>5 DEF TypeOK

\* Freeing a transfer leaves the transfers well typed.
LEMMA FreedType == ASSUME TypeOK, NEW x PROVE Freed(x) \in [Xfers -> XferType]
  BY RecordTypes DEF TypeOK, Freed

\* Flushing an endpoint leaves the transfers well typed, and leaves the
\* others alone.
LEMMA FlushedType ==
  ASSUME TypeOK, NEW q, NEW part \in BOOLEAN PROVE Flushed(q, part) \in [Xfers -> XferType]
<1>1. (part /\ In(q)) \in BOOLEAN
  BY DEF In
<1> DEFINE b == part /\ In(q)
<1> HIDE DEF b
<1>2. \A t \in XferType :
        [t EXCEPT !.st = "done", !.status = "canceled", !.unread = b] \in XferType
  BY <1>1 DEF b, XferType, XferStates, Statuses
<1>3. Flushed(q, part) =
        [x \in Xfers |->
           IF xfers[x].st = "queued" /\ xfers[x].at = q
           THEN [xfers[x] EXCEPT !.st = "done", !.status = "canceled", !.unread = b]
           ELSE xfers[x]]
  BY DEF Flushed, b
<1>4. ASSUME NEW x \in Xfers PROVE Flushed(q, part)[x] \in XferType
  <2>1. xfers[x] \in XferType
    BY DEF TypeOK
  <2> HIDE DEF XferType
  <2> QED BY <2>1, <1>2, <1>3
<1>5. Flushed(q, part) = [x \in Xfers |-> Flushed(q, part)[x]]
  BY <1>3
<1> HIDE DEF Flushed, XferType
<1> QED BY <1>4, <1>5

\* What freeing may set off is one of the faults.
LEMMA FreeFaultType ==
  ASSUME TypeOK, NEW x \in Xfers \cup {None} PROVE FreeFault(x) \subseteq Faults
<1>1. CASE x = None
  BY <1>1 DEF FreeFault
<1>2. CASE x # None /\ x \in Xfers
  <2>1. xfers[x].st \in XferStates
    BY <1>2 DEF TypeOK, XferType
  <2> QED BY <2>1, <1>2 DEF FreeFault, Faults, InLibrary, XferStates
<1> QED BY <1>1, <1>2

\* A transfer comes back from the bus or the library.
LEMMA ReturnedType ==
  ASSUME NEW t \in XferType, NEW v \in Statuses, NEW b \in BOOLEAN
  PROVE  /\ [t EXCEPT !.st = "done", !.status = v] \in XferType
         /\ [t EXCEPT !.st = "done", !.status = v, !.unread = b] \in XferType
         /\ [t EXCEPT !.unread = b, !.status = "ok"] \in XferType
  BY DEF XferType, XferStates, Statuses

\* A callback or a call that gives up leaves a transfer well typed.
LEMMA HeldType ==
  ASSUME NEW t \in XferType
  PROVE  [t EXCEPT !.st = "caller"] \in XferType /\ [t EXCEPT !.tag = TRUE] \in XferType
  BY DEF XferType, XferStates

\* The updates of a pipe that the actions make leave it well typed.
LEMMA PipeUpdates ==
  ASSUME NEW p \in PipeType
  PROVE  /\ [p EXCEPT !.busy = FALSE, !.sem = 1] \in PipeType
         /\ [p EXCEPT !.sem = 0] \in PipeType
         /\ \A b \in BOOLEAN : [p EXCEPT !.kept = b] \in PipeType
         /\ [p EXCEPT !.used = TRUE, !.xfer = None] \in PipeType
         /\ \A x \in Xfers :
              [p EXCEPT !.used = TRUE, !.xfer = x, !.sized = TRUE, !.sem = 0] \in PipeType
  BY DEF PipeType

\* The bus and the library keep the types.
LEMMA BusTypes == ASSUME TypeOK, BusNext PROVE TypeOK'
<1> USE DEF callVars, waitVars, goneVars, tableVars, ctrlVars
<1>1. ASSUME NEW x \in Xfers, Complete(x) PROVE TypeOK'
  <2>1. xfers' \in [Xfers -> XferType]
    <3>1. PICK s \in {"ok", "stall", "error", "timedout"} :
            xfers' = [xfers EXCEPT ![x].st = "done", ![x].status = s,
                                   ![x].unread = (s = "ok") /\ In(xfers[x].at)]
      BY <1>1 DEF Complete
    <3> DEFINE b == (s = "ok") /\ In(xfers[x].at)
    <3>2. b \in BOOLEAN
      BY DEF In
    <3>3. xfers' = [xfers EXCEPT ![x] = [xfers[x] EXCEPT !.st = "done", !.status = s,
                                                         !.unread = b]]
      BY <3>1
    <3> HIDE DEF b
    <3> QED BY <3>2, <3>3, ReturnedType DEF TypeOK, Statuses
  <2> QED BY <2>1, <1>1 DEF TypeOK, Complete
<1>2. ASSUME NEW x \in Xfers, Callback(x) PROVE TypeOK'
  <2>1. xfers' \in [Xfers -> XferType]
    <3>1. \/ xfers' = Freed(x)
          \/ xfers' = [xfers EXCEPT ![x] = [xfers[x] EXCEPT !.st = "caller"]]
      BY <1>2 DEF Callback, CtrlCb, EpCb
    <3> DEFINE v == [xfers[x] EXCEPT !.st = "caller"]
    <3>2. v \in XferType
      BY HeldType DEF TypeOK
    <3>3. xfers' = Freed(x) \/ xfers' = [xfers EXCEPT ![x] = v]
      BY <3>1
    <3> HIDE DEF v
    <3> QED BY <3>2, <3>3, FreedType DEF TypeOK
  <2>2. pipes' \in [Pipes -> PipeType]
    <3> DEFINE k == xfers[x].at
    <3> DEFINE v == [pipes[k] EXCEPT !.busy = FALSE, !.sem = 1]
    <3>1. pipes' = pipes \/ pipes' = [pipes EXCEPT ![k] = v]
      BY <1>2 DEF Callback, CtrlCb, EpCb
    <3>2. k \in Pipes => v \in PipeType
      BY PipeUpdates DEF TypeOK
    <3> HIDE DEF k, v
    <3> QED BY <3>1, <3>2 DEF TypeOK
  <2>3. ctrlSem' \in {0, 1} /\ abandoned' \in Int
    BY <1>2 DEF TypeOK, Callback, CtrlCb, EpCb
  <2>4. ctrlBusy' \in BOOLEAN
    BY <1>2, Zenon DEF TypeOK, Callback, CtrlCb, EpCb
  <2> QED BY <2>1, <2>2, <2>3, <2>4, <1>2 DEF TypeOK, Callback
<1>3. ASSUME NEW d \in Devs, Unplug(d) PROVE TypeOK'
  <2>1. xfers' \in [Xfers -> XferType]
    BY <1>3, ReturnedType DEF TypeOK, Unplug, Statuses
  <2>2. hub' \in [Devs -> {"absent", "open", "leaving", "closing"}]
    BY <1>3 DEF TypeOK, Unplug
  <2> QED BY <2>1, <2>2, <1>3 DEF TypeOK, Unplug
<1>4. ASSUME NEW d \in Devs, NewDev(d) PROVE TypeOK'
  BY <1>4 DEF TypeOK, NewDev
<1> QED BY <1>1, <1>2, <1>3, <1>4 DEF BusNext

\* Starting a wait writes a wait, a key and a lock holder.
LEMMA StartWaitTypes ==
  ASSUME TypeOK, NEW w \in Waiters, NEW k \in Keys, StartWait(w, k)
  PROVE  /\ wait' \in [Waiters -> {"none", "waiting", "got", "late", "delay"}]
         /\ on' \in [Waiters -> Keys \cup {None}]
         /\ lock' \in {"none", "host", "api"}
  BY DEF TypeOK, StartWait, LockInWait

\* Ending a wait writes a wait and no key.
LEMMA StopWaitTypes ==
  ASSUME TypeOK, NEW w \in Waiters, StopWait(w)
  PROVE  /\ wait' \in [Waiters -> {"none", "waiting", "got", "late", "delay"}]
         /\ on' \in [Waiters -> Keys \cup {None}]
  BY DEF TypeOK, StopWait

\* What drop_pipes does with one pipe keeps the types, freed or leaked.
LEMMA DropTypes ==
  ASSUME TypeOK, NEW q \in Pipes, NEW more \in SUBSET Faults, DropOrLeak(q, more)
  PROVE  pipes' \in [Pipes -> PipeType] /\ xfers' \in [Xfers -> XferType] /\ fault' \subseteq Faults
<1>1. CASE pipes[q].busy
  BY <1>1 DEF DropOrLeak, TypeOK
<1>2. CASE ~pipes[q].busy
  <2>1. fault' \subseteq Faults
    <3>1. pipes[q].xfer \in Xfers \cup {None}
      BY DEF TypeOK, PipeType
    <3> QED BY <3>1, <1>2, FreeFaultType DEF DropOrLeak, TypeOK, Faults
  <2> QED BY <2>1, <1>2, FreedType, RecordTypes DEF DropOrLeak, TypeOK
<1> QED BY <1>1, <1>2

\* DEV_GONE, in either task, keeps the types.
LEMMA GoneTypes == ASSUME TypeOK, WaitsMatch, GoneNext PROVE TypeOK'
<1> USE DEF callVars, waitVars, goneVars, tableVars, ctrlVars
<1> SUFFICES ASSUME NEW h \in Handlers,
                    \/ \E d \in Devs : GoneBegin(h, d)
                    \/ \E q \in Pipes : GoneDrop(h, q)
                    \/ GoneWaited(h)
                    \/ GoneEnd(h)
             PROVE  TypeOK'
  BY DEF GoneNext
<1>w. h \in Waiters /\ Task(h) \in {"none", "host", "api"}
  BY DEF Handlers, Waiters, Task
<1>1. ASSUME NEW d \in Devs, GoneBegin(h, d) PROVE TypeOK'
  BY <1>1, <1>w DEF TypeOK, GoneBegin, UsedPipes
<1>2. ASSUME NEW q \in Pipes, GoneDrop(h, q) PROVE TypeOK'
  <2>1. pipes' \in [Pipes -> PipeType] /\ xfers' \in [Xfers -> XferType] /\ fault' \subseteq Faults
    BY <1>2, DropTypes DEF GoneDrop, DropUsed, TypeOK
  <2>2. goneTodo' \in [Handlers -> SUBSET Pipes]
    BY <1>2 DEF GoneDrop, TypeOK
  <2>3. /\ wait' \in [Waiters -> {"none", "waiting", "got", "late", "delay"}]
        /\ on' \in [Waiters -> Keys \cup {None}] /\ lock' \in {"none", "host", "api"}
    BY <1>2, <1>w, StartWaitTypes DEF GoneDrop, TypeOK, Keys
  <2> QED BY <2>1, <2>2, <2>3, <1>2 DEF TypeOK, GoneDrop
<1>3. CASE GoneWaited(h)
  <2>1. pipes' \in [Pipes -> PipeType] /\ xfers' \in [Xfers -> XferType] /\ fault' \subseteq Faults
    <3>1. on[h] \in Pipes
      BY <1>3 DEF GoneWaited, CanResume, WaitsMatch
    <3> QED BY <3>1, <1>3, DropTypes DEF GoneWaited
  <2> QED BY <2>1, <1>3, <1>w, StopWaitTypes DEF TypeOK, GoneWaited
<1>4. CASE GoneEnd(h)
  BY <1>4, <1>w DEF TypeOK, GoneEnd, GoneClaims
<1> QED BY <1>1, <1>2, <1>3, <1>4

\* The ends of a wait keep the types.
LEMMA WaitTypes == ASSUME TypeOK, WaitNext PROVE TypeOK'
<1> USE DEF callVars, waitVars, goneVars, tableVars, ctrlVars
<1>1. ASSUME NEW w \in Waiters, WaitTake(w) PROVE TypeOK'
  <2>1. pipes' \in [Pipes -> PipeType]
    <3> DEFINE k == on[w]
    <3> DEFINE v == [pipes[k] EXCEPT !.sem = 0]
    <3>1. pipes' = pipes \/ pipes' = [pipes EXCEPT ![k] = v]
      BY <1>1 DEF WaitTake
    <3>2. k \in Pipes => v \in PipeType
      BY PipeUpdates DEF TypeOK
    <3> HIDE DEF k, v
    <3> QED BY <3>1, <3>2 DEF TypeOK
  <2> QED BY <2>1, <1>1 DEF TypeOK, WaitTake
<1>2. ASSUME NEW w \in Waiters, WaitExpire(w) PROVE TypeOK'
  BY <1>2 DEF TypeOK, WaitExpire
<1>3. ASSUME NEW w \in Waiters, WaitOnDeleted(w) PROVE TypeOK'
  BY <1>3 DEF TypeOK, WaitOnDeleted, Faults
<1> QED BY <1>1, <1>2, <1>3 DEF WaitNext

\* The records of arguments that the calls are made with are well typed.
LEMMA CallTypes ==
  ASSUME NEW d \in Devs
  PROVE  /\ \A f \in BOOLEAN : [NoCall EXCEPT !.op = "ctrl", !.dev = d, !.forever = f] \in CallType
         /\ \A e \in Eps, k, f \in BOOLEAN :
              [NoCall EXCEPT !.op = "ep", !.dev = d, !.ep = e, !.keep = k, !.forever = f]
                \in CallType
         /\ \A op \in {"claim", "release", "close"}, i \in Itfs, a \in Alts \cup {None} :
              [NoCall EXCEPT !.op = op, !.dev = d, !.itf = i, !.alt = a] \in CallType
  BY DEF NoCall, CallType

\* A return leaves the API task well typed.
LEMMA ReturnTypes ==
  ASSUME NEW r \in Results, Return(r)
  PROVE  /\ pc' \in {"idle", "ctrl", "ep", "retire", "drop", "claim", "release", "close"}
         /\ call' \in CallType /\ cur' \in Xfers \cup {None} /\ todo' \subseteq Pipes
         /\ ret' \in Results
  BY RecordTypes DEF Return

\* Every status of a transfer translates to a result.
LEMMA ErrnoType == ASSUME NEW v PROVE Errno(v) \in Results
  BY DEF Errno, Results

\* The API call is one of those that wait.
LEMMA CallIsWaiter == "call" \in Waiters
  BY DEF Waiters

\* usbif_xfer_ctrl keeps the types.
LEMMA CtrlTypes == ASSUME TypeOK, CtrlNext PROVE TypeOK'
<1> USE CallIsWaiter DEF callVars, waitVars, goneVars, tableVars, ctrlVars
<1>1. ASSUME NEW d \in Devs, CtrlRefused(d) PROVE TypeOK'
  BY <1>1 DEF TypeOK, CtrlRefused, Refuse, Results
<1>2. ASSUME NEW d \in Devs, NEW f \in Forevers, Ctrl(d, f) PROVE TypeOK'
  <2> DEFINE k == <<d, Ep0>>
  <2>1. k \in Keys
    BY DEF Keys, CtrlKeys
  <2>2. cur' \in Xfers \cup {None} /\ xfers' \in [Xfers -> XferType]
    <3> DEFINE v == Armed(k)
    <3>1. PICK x \in Free : cur' = x /\ xfers' = [xfers EXCEPT ![x] = v]
      BY <1>2 DEF Ctrl
    <3>2. v \in XferType
      BY <2>1, RecordTypes
    <3> HIDE DEF v
    <3> QED BY <3>1, <3>2 DEF TypeOK, Free
  <2>3. call' \in CallType
    BY <1>2, CallTypes, ConstantsOK DEF Ctrl
  <2>4. /\ wait' \in [Waiters -> {"none", "waiting", "got", "late", "delay"}]
        /\ on' \in [Waiters -> Keys \cup {None}] /\ lock' \in {"none", "host", "api"}
    BY <1>2, <2>1, StartWaitTypes DEF Ctrl
  <2>5. ctrlBusy' \in BOOLEAN
    BY <1>2 DEF Ctrl
  <2>6. /\ pc' \in {"idle", "ctrl", "ep", "retire", "drop", "claim", "release", "close"}
        /\ ret' \in Results /\ ctrlSem' \in {0, 1}
    BY <1>2 DEF Ctrl, Results, Drained
  <2> QED BY <2>2, <2>3, <2>4, <2>5, <2>6, <1>2 DEF Ctrl, TypeOK
<1>3. CASE CtrlDone
  <2>1. xfers' \in [Xfers -> XferType] /\ fault' \subseteq Faults
    BY <1>3, FreedType, FreeFaultType DEF CtrlDone, TypeOK
  <2>2. PICK r \in Results : Return(r)
    BY <1>3, ErrnoType DEF CtrlDone, Results
  <2> QED BY <2>1, <2>2, <1>3, ReturnTypes, StopWaitTypes DEF CtrlDone, TypeOK
<1>4. CASE CtrlAbandon
  <2>1. xfers' \in [Xfers -> XferType]
    <3> DEFINE k == cur
               v == [xfers[k] EXCEPT !.tag = TRUE]
    <3>1. xfers' = [xfers EXCEPT ![k] = v]
      BY <1>4 DEF CtrlAbandon
    <3>2. k \in Xfers => v \in XferType
      BY HeldType DEF TypeOK
    <3> HIDE DEF k, v
    <3> QED BY <3>1, <3>2 DEF TypeOK
  <2>2. abandoned' \in Int
    BY <1>4 DEF CtrlAbandon, TypeOK
  <2>3. ctrlBusy' \in BOOLEAN
    BY <1>4 DEF CtrlAbandon
  <2>4. "ETIMEDOUT" \in Results
    BY DEF Results
  <2> QED BY <2>1, <2>2, <2>3, <2>4, <1>4, ReturnTypes, StopWaitTypes DEF CtrlAbandon, TypeOK
<1> QED BY <1>1, <1>2, <1>3, <1>4 DEF CtrlNext

\* The start of a read or write on an endpoint keeps the types.
LEMMA StartEpTypes ==
  ASSUME TypeOK, NEW q \in Pipes, NEW k \in Keeps, NEW f \in Forevers, StartEp(q, k, f),
         pipes' \in [Pipes -> PipeType], xfers' \in [Xfers -> XferType],
         cur' \in Xfers \cup {None}
  PROVE  TypeOK'
<1> USE CallIsWaiter DEF callVars, waitVars, goneVars, tableVars, ctrlVars
<1>1. call' \in CallType
  BY CallTypes, ConstantsOK DEF StartEp, Pipes
<1>2. /\ wait' \in [Waiters -> {"none", "waiting", "got", "late", "delay"}]
      /\ on' \in [Waiters -> Keys \cup {None}] /\ lock' \in {"none", "host", "api"}
  BY StartWaitTypes DEF StartEp, Keys
<1>3. /\ pc' \in {"idle", "ctrl", "ep", "retire", "drop", "claim", "release", "close"}
      /\ ret' \in Results
  BY DEF StartEp, Results
<1> QED BY <1>1, <1>2, <1>3 DEF StartEp, TypeOK

\* What usbif_xfer_ep hands back keeps the types.
LEMMA EpResultTypes ==
  ASSUME TypeOK, NEW r, EpResult(r) PROVE xfers' \in [Xfers -> XferType]
<1> DEFINE k == cur
           b == xfers[k].unread /\ r # "data"
           v == [xfers[k] EXCEPT !.unread = b, !.status = "ok"]
<1>1. xfers' = [xfers EXCEPT ![k] = v]
  BY DEF EpResult
<1>2. k \in Xfers => v \in XferType
  <2>1. k \in Xfers => b \in BOOLEAN
    BY DEF TypeOK, XferType
  <2>2. k \in Xfers => xfers[k] \in XferType
    BY DEF TypeOK
  <2> HIDE DEF b, k
  <2> QED BY <2>1, <2>2, ReturnedType DEF Statuses
<1> HIDE DEF k, v
<1> QED BY <1>1, <1>2 DEF TypeOK

\* usbif_xfer_ep, with its timeout and its retire, keeps the types.
LEMMA EpTypes == ASSUME TypeOK, WaitsMatch, EpNext PROVE TypeOK'
<1> USE CallIsWaiter DEF callVars, waitVars, goneVars, tableVars, ctrlVars
<1>1. ASSUME NEW q \in Pipes, EpRefused(q) PROVE TypeOK'
  BY <1>1 DEF TypeOK, EpRefused, Refuse, Results
<1>2. ASSUME NEW q \in Pipes, EpNull(q) PROVE TypeOK'
  BY <1>2 DEF TypeOK, EpNull, Refuse, Faults
<1>3. ASSUME NEW q \in Pipes, EpNoMemory(q) PROVE TypeOK'
  <2>1. xfers' \in [Xfers -> XferType]
    BY <1>3, FreedType DEF EpNoMemory
  <2>2. fault' \subseteq Faults
    <3>1. pipes[q].xfer \in Xfers \cup {None}
      BY DEF TypeOK, PipeType
    <3> QED BY <3>1, <1>3, FreeFaultType DEF EpNoMemory, TypeOK
  <2>3. pipes' \in [Pipes -> PipeType]
    <3> DEFINE v == [pipes[q] EXCEPT !.used = TRUE, !.xfer = None]
    <3>1. pipes' = [pipes EXCEPT ![q] = v]
      BY <1>3 DEF EpNoMemory
    <3>2. v \in PipeType
      BY PipeUpdates DEF TypeOK
    <3> HIDE DEF v
    <3> QED BY <3>1, <3>2 DEF TypeOK
  <2> QED BY <2>1, <2>2, <2>3, <1>3 DEF EpNoMemory, TypeOK, Refuse, Results
<1>4. ASSUME NEW q \in Pipes, EpSubmitFails(q) PROVE TypeOK'
  <2> PICK x \in EpXfer(q) :
         /\ xfers' = [xfers EXCEPT ![x] = [Armed(q) EXCEPT !.st = "caller"]]
         /\ pipes' = [pipes EXCEPT ![q] = [@ EXCEPT !.used = TRUE, !.xfer = x, !.sized = TRUE,
                                                    !.sem = Drained(@)]]
    BY <1>4 DEF EpSubmitFails
  <2>1. x \in Xfers
    BY DEF EpXfer, Reusable, Free, TypeOK, PipeType
  <2>2. xfers' \in [Xfers -> XferType]
    <3> DEFINE v == [Armed(q) EXCEPT !.st = "caller"]
    <3>1. xfers' = [xfers EXCEPT ![x] = v]
      OBVIOUS
    <3>2. v \in XferType
      BY RecordTypes, HeldType DEF Keys
    <3> HIDE DEF v
    <3> QED BY <3>1, <3>2 DEF TypeOK
  <2>3. pipes' \in [Pipes -> PipeType]
    <3> DEFINE v == [pipes[q] EXCEPT !.used = TRUE, !.xfer = x, !.sized = TRUE, !.sem = 0]
    <3>1. pipes' = [pipes EXCEPT ![q] = v]
      BY DEF Drained
    <3>2. v \in PipeType
      BY <2>1, PipeUpdates DEF TypeOK
    <3> HIDE DEF v
    <3> QED BY <3>1, <3>2 DEF TypeOK
  <2> QED BY <2>2, <2>3, <1>4 DEF EpSubmitFails, TypeOK, Refuse, Results
<1>5. ASSUME NEW q \in Pipes, NEW k \in Keeps, NEW f \in Forevers, EpSubmit(q, k, f)
      PROVE  TypeOK'
  <2> PICK x \in EpXfer(q) :
         /\ cur' = x /\ xfers' = [xfers EXCEPT ![x] = Armed(q)]
         /\ pipes' = [pipes EXCEPT ![q] = [used |-> TRUE, xfer |-> x, sem |-> Drained(@.sem),
                                           busy |-> TRUE, kept |-> FALSE, sized |-> TRUE]]
    BY <1>5 DEF EpSubmit
  <2>1. x \in Xfers
    BY DEF EpXfer, Reusable, Free, TypeOK, PipeType
  <2>2. xfers' \in [Xfers -> XferType]
    <3> DEFINE v == Armed(q)
    <3>1. xfers' = [xfers EXCEPT ![x] = v] /\ v \in XferType
      BY RecordTypes DEF Keys
    <3> HIDE DEF v
    <3> QED BY <3>1 DEF TypeOK
  <2>3. pipes' \in [Pipes -> PipeType]
    <3> DEFINE v == [used |-> TRUE, xfer |-> x, sem |-> 0,
                     busy |-> TRUE, kept |-> FALSE, sized |-> TRUE]
    <3>1. pipes' = [pipes EXCEPT ![q] = v]
      BY DEF Drained
    <3>2. v \in PipeType
      BY <2>1 DEF PipeType
    <3> HIDE DEF v
    <3> QED BY <3>1, <3>2 DEF TypeOK
  <2> QED BY <2>1, <2>2, <2>3, <1>5, StartEpTypes DEF EpSubmit
<1>6. ASSUME NEW q \in Pipes, NEW k \in Keeps, NEW f \in Forevers, EpPickUp(q, k, f)
      PROVE  TypeOK'
  <2>1. pipes' \in [Pipes -> PipeType]
    <3> DEFINE v == [pipes[q] EXCEPT !.kept = FALSE]
    <3>1. pipes' = [pipes EXCEPT ![q] = v]
      BY <1>6 DEF EpPickUp
    <3>2. v \in PipeType
      BY PipeUpdates DEF TypeOK
    <3> HIDE DEF v
    <3> QED BY <3>1, <3>2 DEF TypeOK
  <2>2. cur' \in Xfers \cup {None}
    BY <1>6 DEF EpPickUp, TypeOK, PipeType
  <2>3. xfers' \in [Xfers -> XferType] /\ StartEp(q, k, f)
    BY <1>6 DEF EpPickUp, TypeOK
  <2> QED BY <2>1, <2>2, <2>3, StartEpTypes
<1>7. ASSUME EpDone \/ EpRetired PROVE TypeOK'
  <2>1. PICK r \in Results : EpResult(r)
    <3>1. \A v : StatusResult(v) \in Results
      BY ErrnoType DEF StatusResult, Results
    <3> QED BY <3>1, <1>7 DEF EpDone, EpRetired, Results
  <2>2. xfers' \in [Xfers -> XferType]
    BY <2>1, EpResultTypes
  <2>3. fault' \subseteq Faults
    BY <1>7 DEF EpDone, EpRetired, TypeOK, XferFault, DevFault, Faults
  <2>4. Return(r) /\ StopWait("call")
    BY <2>1 DEF EpResult
  <2> QED BY <2>2, <2>3, <2>4, <1>7, ReturnTypes, StopWaitTypes DEF EpDone, EpRetired, TypeOK
<1>8. CASE EpKeep
  <2>1. EpResult("nothing") /\ Return("nothing") /\ StopWait("call") /\ "nothing" \in Results
    BY <1>8 DEF EpKeep, EpResult, Results
  <2>2. xfers' \in [Xfers -> XferType]
    BY <2>1, EpResultTypes
  <2>3. pipes' \in [Pipes -> PipeType]
    <3> DEFINE q == Target
               v == [pipes[q] EXCEPT !.kept = TRUE]
    <3>1. pipes' = [pipes EXCEPT ![q] = v] \/ pipes' = pipes
      BY <1>8 DEF EpKeep
    <3>2. q \in Pipes => v \in PipeType
      BY PipeUpdates DEF TypeOK
    <3> HIDE DEF q, v
    <3> QED BY <3>1, <3>2 DEF TypeOK
  <2> QED BY <2>1, <2>2, <2>3, <1>8, ReturnTypes, StopWaitTypes DEF EpKeep, TypeOK
<1>9. CASE EpRetire
  <2>1. xfers' \in [Xfers -> XferType]
    BY <1>9, FlushedType DEF EpRetire
  <2>2. fault' \subseteq Faults
    BY <1>9 DEF EpRetire, TypeOK, DevFault, Faults
  <2>3. Target \in Keys
    BY <1>9 DEF EpRetire, WaitsMatch, Keys
  <2>4. /\ wait' \in [Waiters -> {"none", "waiting", "got", "late", "delay"}]
        /\ on' \in [Waiters -> Keys \cup {None}] /\ lock' \in {"none", "host", "api"}
    BY <1>9, <2>3, StartWaitTypes DEF EpRetire
  <2> QED BY <2>1, <2>2, <2>4, <1>9 DEF EpRetire, TypeOK
<1> QED BY <1>1, <1>2, <1>3, <1>4, <1>5, <1>6, <1>7, <1>8, <1>9 DEF EpNext

\* The start of a drop_pipes leaves the API task well typed.
LEMMA StartDropTypes ==
  ASSUME TypeOK, NEW op \in {"claim", "release", "close"}, NEW d \in Devs, NEW i \in Itfs,
         NEW a \in Alts \cup {None}, StartDrop(op, d, i, a)
  PROVE  /\ pc' \in {"idle", "ctrl", "ep", "retire", "drop", "claim", "release", "close"}
         /\ lock' \in {"none", "host", "api"} /\ todo' \subseteq Pipes /\ call' \in CallType
  BY CallTypes DEF StartDrop, PipesOn, UsedPipes

\* A claim the library grants or refuses keeps the types.
LEMMA ClaimResultTypes ==
  ASSUME TypeOK, NEW d \in Devs, NEW i \in Itfs, NEW a \in Alts \cup {None}, ClaimResult(d, i, a)
  PROVE  /\ idf' \in [Devs -> SUBSET Itfs] /\ claims' \in [Devs -> [Itfs -> Alts \cup {None}]]
         /\ ret' \in Results
<1> DEFINE v == [claims[d] EXCEPT ![i] = a]
<1>1. claims' = claims \/ claims' = [claims EXCEPT ![d] = v]
  BY DEF ClaimResult
<1>2. v \in [Itfs -> Alts \cup {None}]
  BY DEF TypeOK
<1>3. idf' \in [Devs -> SUBSET Itfs]
  BY DEF ClaimResult, TypeOK
<1>4. ret' \in Results
  BY DEF ClaimResult, Results
<1> HIDE DEF v
<1>5. claims' \in [Devs -> [Itfs -> Alts \cup {None}]]
  BY <1>1, <1>2 DEF TypeOK
<1> QED BY <1>3, <1>4, <1>5

\* The library releasing an interface, or not, leaves its claims well typed.
LEMMA LibReleaseTypes ==
  ASSUME TypeOK, NEW d, NEW i, LibRelease(d, i) PROVE idf' \in [Devs -> SUBSET Itfs]
  BY DEF LibRelease, TypeOK

\* Forgetting a claim keeps the types.
LEMMA ReleasedTypes ==
  ASSUME TypeOK, NEW r \in Results, Released(r)
  PROVE  /\ claims' \in [Devs -> [Itfs -> Alts \cup {None}]]
         /\ pc' \in {"idle", "ctrl", "ep", "retire", "drop", "claim", "release", "close"}
         /\ call' \in CallType /\ cur' \in Xfers \cup {None} /\ todo' \subseteq Pipes
         /\ ret' \in Results /\ lock' \in {"none", "host", "api"}
<1>1. CloseCall \in CallType
  BY DEF CloseCall, CallType, NoCall
<1>2. claims' \in [Devs -> [Itfs -> Alts \cup {None}]]
  BY DEF Released, TypeOK
<1>3. CASE call.op = "close"
  BY <1>1, <1>2, <1>3 DEF Released, TypeOK
<1>4. CASE call.op # "close"
  BY <1>2, <1>4, ReturnTypes DEF Released
<1> QED BY <1>3, <1>4

\* claim, release and close keep the types.
LEMMA ClaimTypes == ASSUME TypeOK, WaitsMatch, ClaimNext PROVE TypeOK'
<1> USE CallIsWaiter DEF callVars, waitVars, goneVars, tableVars, ctrlVars
<1>c. /\ call.dev \in Devs \cup {None} /\ call.itf \in Itfs \cup {None}
      /\ call.alt \in Alts \cup {None} /\ DevFault(call.dev) \in SUBSET Faults
  BY DEF TypeOK, CallType, DevFault, Faults
<1>1. ASSUME NEW d \in Devs, NEW i \in Itfs,
             ReleaseNothing(d, i) \/ \E a \in Alts : ClaimRefused(d, i, a)
      PROVE  TypeOK'
  BY <1>1 DEF TypeOK, ReleaseNothing, ClaimRefused, Refuse, Results
<1>2. ASSUME NEW d \in Devs, NEW i \in Itfs, Release(d, i) PROVE TypeOK'
  BY <1>2, StartDropTypes DEF TypeOK, Release, Results
<1>3. ASSUME NEW d \in Devs, NEW i \in Itfs, NEW a \in Alts, ClaimFresh(d, i, a) PROVE TypeOK'
  BY <1>3, ClaimResultTypes DEF TypeOK, ClaimFresh
<1>4. ASSUME NEW d \in Devs, NEW i \in Itfs, NEW a \in Alts, ClaimOther(d, i, a) PROVE TypeOK'
  BY <1>4, StartDropTypes DEF TypeOK, ClaimOther, Results
<1>5. CASE Close
  <2>1. CloseCall \in CallType
    BY DEF CloseCall, CallType, NoCall
  <2> QED BY <2>1, <1>5 DEF TypeOK, Close, Results
<1>6. CASE CloseNext
  <2>1. CASE Return("ok") /\ lock' = "none"
    BY <2>1, <1>6, ReturnTypes DEF CloseNext, TypeOK, Results
  <2>2. ASSUME NEW c \in TableClaims, StartDrop("close", c[1], c[2], None), UNCHANGED <<cur, ret>>
        PROVE  TypeOK'
    <3>1. c[1] \in Devs /\ c[2] \in Itfs
      BY DEF TableClaims
    <3> QED BY <3>1, <2>2, <1>6, StartDropTypes DEF CloseNext, TypeOK
  <2> QED BY <2>1, <2>2, <1>6 DEF CloseNext
<1>7. ASSUME NEW q \in Pipes, DropNext(q) PROVE TypeOK'
  <2>1. CASE pipes[q].busy
    <3>1. xfers' \in [Xfers -> XferType]
      BY <1>7, <2>1, FlushedType DEF DropNext
    <3>2. fault' \subseteq Faults
      BY <1>7, <2>1, <1>c DEF DropNext, TypeOK
    <3>3. /\ wait' \in [Waiters -> {"none", "waiting", "got", "late", "delay"}]
          /\ on' \in [Waiters -> Keys \cup {None}] /\ lock' \in {"none", "host", "api"}
      BY <1>7, <2>1, StartWaitTypes DEF DropNext, Keys
    <3> QED BY <3>1, <3>2, <3>3, <1>7, <2>1 DEF DropNext, TypeOK
  <2>2. CASE ~pipes[q].busy
    <3>1. pipes' \in [Pipes -> PipeType] /\ xfers' \in [Xfers -> XferType] /\ fault' \subseteq Faults
      BY <1>7, <2>2, DropTypes DEF DropNext, DropUsed, TypeOK
    <3> QED BY <3>1, <1>7, <2>2 DEF DropNext, TypeOK
  <2> QED BY <2>1, <2>2
<1>8. CASE DropWaited
  <2>1. pipes' \in [Pipes -> PipeType] /\ xfers' \in [Xfers -> XferType] /\ fault' \subseteq Faults
    <3>1. on["call"] \in Pipes
      BY <1>8 DEF DropWaited, CanResume, WaitsMatch
    <3> QED BY <3>1, <1>8, <1>c, DropTypes DEF DropWaited
  <2> QED BY <2>1, <1>8, StopWaitTypes DEF DropWaited, TypeOK
<1>9. CASE ClaimAgain
  <2>1. claims' \in [Devs -> [Itfs -> Alts \cup {None}]] /\ fault' \subseteq Faults
    BY <1>9, <1>c DEF ClaimAgain, TypeOK
  <2> QED BY <2>1, <1>9, LibReleaseTypes DEF ClaimAgain, TypeOK
<1>10. CASE ClaimEnds
  BY <1>10, <1>c, ClaimResultTypes, RecordTypes DEF ClaimEnds, TypeOK, WaitsMatch
<1>11. CASE ReleaseTry
  <2>1. idf' \in [Devs -> SUBSET Itfs] /\ fault' \subseteq Faults
    BY <1>11, <1>c, LibReleaseTypes DEF ReleaseTry, TypeOK
  <2>2. CASE Released("ok") /\ UNCHANGED waitVars
    BY <2>1, <2>2, <1>11, ReleasedTypes DEF ReleaseTry, TypeOK, Results
  <2>3. CASE ~(Released("ok") /\ UNCHANGED waitVars)
    BY <2>1, <2>3, <1>11 DEF ReleaseTry, TypeOK
  <2> QED BY <2>2, <2>3
<1>12. CASE ReleaseRetry
  <2>1. CASE lock' = "api" /\ UNCHANGED <<claims, callVars>>
    BY <2>1, <1>12, StopWaitTypes DEF ReleaseRetry, TypeOK
  <2>2. CASE Released("EBUSY")
    BY <2>2, <1>12, StopWaitTypes, ReleasedTypes DEF ReleaseRetry, TypeOK, Results
  <2> QED BY <2>1, <2>2, <1>12 DEF ReleaseRetry
<1> QED BY <1>1, <1>2, <1>3, <1>4, <1>5, <1>6, <1>7, <1>8, <1>9, <1>10, <1>11, <1>12 DEF ClaimNext

\* A step that changes nothing keeps the types.
LEMMA StutterTypes == ASSUME TypeOK, UNCHANGED vars PROVE TypeOK'
  BY DEF TypeOK, vars, callVars, waitVars, goneVars, tableVars, ctrlVars

\* Every step keeps the types.
LEMMA NextTypes == ASSUME TypeOK, WaitsMatch, [Next]_vars PROVE TypeOK'
  BY BusTypes, GoneTypes, WaitTypes, CtrlTypes, EpTypes, ClaimTypes, StutterTypes DEF Next

-----------------------------------------------------------------------------
(* Which semaphore a wait is for.                                          *)

\* Every step keeps what is known of the waits: it starts one only on the
\* target of the call it belongs to, and a handler inside the call's own pump
\* ends before that wait does.
LEMMA WaitsInductive == ASSUME TypeOK, PipeOwns, WaitsMatch, [Next]_vars PROVE WaitsMatch'
<1> USE CallIsWaiter DEF WaitsMatch, callVars, waitVars, goneVars, tableVars, ctrlVars, Target
<1>h. /\ \A h \in Handlers : h \in Waiters /\ h # "call"
      /\ "apiGone" \in Handlers
  BY DEF Handlers, Waiters
<1>t. /\ wait \in [Waiters -> {"none", "waiting", "got", "late", "delay"}]
      /\ DOMAIN on = Waiters /\ goneDev \in [Handlers -> Devs \cup {None}]
  BY DEF TypeOK
<1>1. CASE BusNext
  BY <1>1 DEF BusNext, Complete, Callback, Unplug, NewDev
<1>2. CASE GoneNext
  <2> SUFFICES ASSUME NEW h \in Handlers,
                      \/ \E d \in Devs : GoneBegin(h, d)
                      \/ \E q \in Pipes : GoneDrop(h, q)
                      \/ GoneWaited(h)
                      \/ GoneEnd(h)
               PROVE  WaitsMatch'
    BY <1>2 DEF GoneNext
  <2> USE <1>h, <1>t DEF Task, Handlers
  <2>1. ASSUME NEW d \in Devs, GoneBegin(h, d) PROVE WaitsMatch'
    BY <2>1 DEF GoneBegin, Pumps, Waiting
  <2>2. ASSUME NEW q \in Pipes, GoneDrop(h, q) PROVE WaitsMatch'
    <3>1. CASE pipes[q].busy
      BY <2>2, <3>1 DEF GoneDrop, StartWait, LockInWait
    <3>2. CASE ~pipes[q].busy
      BY <2>2, <3>2 DEF GoneDrop
    <3> QED BY <3>1, <3>2
  <2>3. CASE GoneWaited(h)
    BY <2>3 DEF GoneWaited, StopWait
  <2>4. CASE GoneEnd(h)
    BY <2>4 DEF GoneEnd
  <2> QED BY <2>1, <2>2, <2>3, <2>4
<1>3. CASE WaitNext
  BY <1>3, <1>h, <1>t DEF WaitNext, WaitTake, WaitExpire, WaitOnDeleted, Waiting
<1>4. CASE CtrlNext
  BY <1>4, <1>h, <1>t
     DEF CtrlNext, CtrlRefused, Refuse, Ctrl, CtrlDone, CtrlAbandon, StartWait, StopWait, Return,
         CanResume, Active, LockInWait, Idle
<1>5. CASE EpNext
  <2>1. ASSUME NEW q \in Pipes, EpRefused(q) \/ EpNull(q) \/ EpNoMemory(q) \/ EpSubmitFails(q)
        PROVE  WaitsMatch'
    BY <2>1 DEF EpRefused, EpNull, EpNoMemory, EpSubmitFails, Refuse
  <2>2. ASSUME NEW q \in Pipes, NEW k \in Keeps, NEW f \in Forevers,
               EpPickUp(q, k, f) \/ EpSubmit(q, k, f)
        PROVE  WaitsMatch'
    <3>1. cur' \in Xfers
      <4>1. CASE EpPickUp(q, k, f)
        <5>1. pipes[q].busy /\ cur' = pipes[q].xfer
          BY <4>1 DEF EpPickUp, Kept, Busy
        <5> QED BY <5>1 DEF PipeOwns, TypeOK, PipeType
      <4>2. CASE EpSubmit(q, k, f)
        <5>1. PICK x \in EpXfer(q) : cur' = x
          BY <4>2 DEF EpSubmit
        <5>2. pipes[q].xfer \in Xfers \cup {None}
          BY DEF TypeOK, PipeType
        <5> QED BY <5>1, <5>2 DEF EpXfer, Reusable, Free
      <4> QED BY <2>2, <4>1, <4>2
    <3> StartEp(q, k, f) /\ Idle
      BY <2>2 DEF EpPickUp, EpSubmit, EpReady
    <3>2. Target' = q
      BY DEF StartEp, NoCall, Pipes
    <3>3. wait'["call"] = "waiting" /\ on'["call"] = q /\ pc' = "ep"
      BY <1>t DEF StartEp, StartWait
    <3>4. \A h \in Handlers : wait'[h] = wait[h] /\ on'[h] = on[h]
      BY <1>h, <1>t DEF StartEp, StartWait
    <3> QED BY <3>1, <3>2, <3>3, <3>4
  <2>3. CASE EpDone \/ EpKeep \/ EpRetired
    BY <2>3, <1>h, <1>t
       DEF EpDone, EpKeep, EpRetired, EpResult, Return, StopWait, CanResume, Active
  <2>4. CASE EpRetire
    BY <2>4, <1>h, <1>t DEF EpRetire, StartWait, CanResume, Active, LockInWait
  <2> QED BY <1>5, <2>1, <2>2, <2>3, <2>4 DEF EpNext
<1>6. CASE ClaimNext
  <2> USE <1>h, <1>t
  <2>1. ASSUME NEW d \in Devs, NEW i \in Itfs,
               ReleaseNothing(d, i) \/ Release(d, i)
               \/ \E a \in Alts : ClaimRefused(d, i, a) \/ ClaimFresh(d, i, a) \/ ClaimOther(d, i, a)
        PROVE  WaitsMatch'
    <3>1. pc = "idle" /\ UNCHANGED <<wait, on, goneDev>>
      BY <2>1
         DEF ReleaseNothing, Refuse, Release, Idle, ClaimRefused, ClaimFresh, ClaimOther
    <3>2. \/ pc' = "idle"
          \/ \E op, a : StartDrop(op, d, i, a)
      BY <2>1
         DEF ReleaseNothing, Refuse, Release, Idle, ClaimRefused, ClaimFresh, ClaimOther
    <3> QED BY <3>1, <3>2 DEF StartDrop, NoCall
  <2>2. CASE Close
    BY <2>2 DEF Close, Idle
  <2>7. CASE CloseNext
    <3>1. pc = "close" /\ UNCHANGED <<wait, on, goneDev>>
      BY <2>7 DEF CloseNext
    <3>2. CASE pc' = "idle"
      BY <3>1, <3>2
    <3>3. ASSUME NEW c \in TableClaims, StartDrop("close", c[1], c[2], None) PROVE WaitsMatch'
      <4>1. c[1] \in Devs /\ c[2] \in Itfs
        BY DEF TableClaims
      <4> QED BY <3>1, <3>3, <4>1 DEF StartDrop, NoCall
    <3> QED BY <2>7, <3>2, <3>3 DEF CloseNext, Return
  <2>3. ASSUME NEW q \in Pipes, DropNext(q) PROVE WaitsMatch'
    BY <2>3 DEF DropNext, Dropping, Active, StartWait
  <2>4. CASE DropWaited \/ ClaimAgain \/ ClaimEnds
    BY <2>4 DEF DropWaited, ClaimAgain, ClaimEnds, StopWait, Dropping, CanResume, Active
  <2>5. CASE ReleaseTry
    <3>1. wait["call"] = "none" /\ goneDev["apiGone"] = None
      BY <2>5 DEF ReleaseTry, Dropping
    <3>2. CASE Released("ok") /\ UNCHANGED waitVars
      BY <2>5, <3>1, <3>2 DEF ReleaseTry, Released, Return
    <3>3. CASE ~(Released("ok") /\ UNCHANGED waitVars)
      <4>1. /\ pc' = "release" /\ wait' = [wait EXCEPT !["call"] = "delay"] /\ lock' = "none"
            /\ UNCHANGED <<call, on, goneDev>> /\ pc \in {"drop", "release"}
        BY <2>5, <3>3 DEF ReleaseTry, Dropping
      <4> QED BY <3>1, <4>1
    <3> QED BY <3>2, <3>3
  <2>6. CASE ReleaseRetry
    BY <2>6 DEF ReleaseRetry, StopWait, Released, Return
  <2> QED BY <1>6, <2>1, <2>2, <2>3, <2>4, <2>5, <2>6, <2>7 DEF ClaimNext
<1>7. CASE UNCHANGED vars
  BY <1>7 DEF vars
<1> QED BY <1>1, <1>2, <1>3, <1>4, <1>5, <1>6, <1>7 DEF Next

-----------------------------------------------------------------------------
(* Who owns a transfer.  A transfer's address tells its owner: a pipe's    *)
(* says the pipe, a control one's the call that waits for it, so no two    *)
(* pipes share one, and what a pipe frees was never the library's.         *)

Owned == PipeOwns /\ LibraryOwns /\ CtrlOwns

\* No endpoint is the control endpoint, so no pipe is a control key.
LEMMA KeysDisjoint == Pipes \cap CtrlKeys = {}
  BY ConstantsOK DEF Pipes, CtrlKeys

\* At first every transfer is free, nobody waits and nothing was misused.
LEMMA InitOwned == ASSUME Init PROVE Owned /\ WaitsMatch /\ NothingFreedInLibrary
  BY DEF Init, Owned, PipeOwns, LibraryOwns, CtrlOwns, WaitsMatch, InLibrary, FreeXfer, NoPipe,
     Waiters, Handlers, NothingFreedInLibrary

\* Steps that touch neither pipes nor transfers.
LEMMA StillOwned ==
  ASSUME Owned, UNCHANGED <<pipes, xfers>>,
         \/ pc # "ctrl" /\ pc' # "ctrl"
         \/ UNCHANGED <<pc, cur, ctrlSem>> /\ on'["call"] = on["call"] /\ wait'["call"] = wait["call"]
  PROVE  Owned'
<1>1. PipeOwns'
  BY DEF Owned, PipeOwns
<1>2. LibraryOwns'
  BY DEF Owned, LibraryOwns, InLibrary
<1>3. CtrlOwns'
  BY DEF Owned, CtrlOwns
<1> QED BY <1>1, <1>2, <1>3 DEF Owned

\* The waited-for control transfer is not touched.
LEMMA CtrlStill ==
  ASSUME CtrlOwns, UNCHANGED <<pc, cur, ctrlSem>>, pc = "ctrl" => xfers'[cur] = xfers[cur],
         on'["call"] = on["call"], wait'["call"] = wait["call"]
  PROVE  CtrlOwns'
  BY DEF CtrlOwns

\* usbif_xfer_drop_pipes frees only what no one else holds.
LEMMA DropOwned ==
  ASSUME TypeOK, Owned, NEW q \in Pipes, NEW more, DropOrLeak(q, more), UNCHANGED <<pc, cur>>
  PROVE  /\ PipeOwns' /\ LibraryOwns' /\ (pc = "ctrl" => xfers'[cur] = xfers[cur])
         /\ "freed_in_library" \in fault' => "freed_in_library" \in fault \cup more
<1>1. CASE pipes[q].busy
  BY <1>1 DEF DropOrLeak, Owned, PipeOwns, LibraryOwns, InLibrary
<1>2. CASE ~pipes[q].busy
  <2> DEFINE x == pipes[q].xfer
  <2>x. x \in Xfers \cup {None} /\ None \notin Xfers
    BY ConstantsOK DEF TypeOK, PipeType
  <2>1. pipes' = [pipes EXCEPT ![q] = NoPipe] /\ xfers' = Freed(x)
    BY <1>2 DEF DropOrLeak
  <2>2. x # None => xfers[x].st = "caller" /\ xfers[x].at = q
    BY <1>2, <2>x DEF Owned, PipeOwns, TypeOK, XferType
  <2>3. \A y \in Xfers : y # x => xfers'[y] = xfers[y]
    BY <2>1, <2>x DEF Freed, TypeOK
  <2>4. x # None => xfers'[x] = FreeXfer
    BY <2>1, <2>x DEF Freed, TypeOK
  <2>5. \A p \in Pipes : pipes'[p] = IF p = q THEN NoPipe ELSE pipes[p]
    BY <2>1 DEF TypeOK
  <2>6. \A p \in Pipes : p # q /\ pipes[p].xfer # None =>
                         pipes[p].xfer # x /\ pipes[p].xfer \in Xfers
    BY <2>2 DEF Owned, PipeOwns, TypeOK, PipeType
  <2>7. PipeOwns'
    <3>1. ~NoPipe.busy /\ NoPipe.xfer = None
      BY DEF NoPipe
    <3>2. \A p \in Pipes : p # q /\ pipes[p].xfer # None =>
            xfers'[pipes[p].xfer] = xfers[pipes[p].xfer]
      BY <2>3, <2>6
    <3> QED BY <2>5, <3>1, <3>2 DEF Owned, PipeOwns
  <2>8. LibraryOwns'
    <3> SUFFICES ASSUME NEW y \in Xfers, InLibrary(y)'
                 PROVE  (\/ xfers[y].at \in Pipes /\ pipes[xfers[y].at].xfer = y
                         \/ xfers[y].at \in CtrlKeys /\ (xfers[y].tag \/ (pc = "ctrl" /\ cur = y)))'
      BY DEF LibraryOwns
    <3>1. y # x /\ xfers'[y] = xfers[y]
      BY <2>3, <2>4, <2>x DEF InLibrary, FreeXfer
    <3>2. InLibrary(y)
      BY <3>1 DEF InLibrary
    <3> QED BY <3>1, <3>2, <2>5 DEF Owned, LibraryOwns
  <2>9. pc = "ctrl" => xfers'[cur] = xfers[cur]
    BY <2>2, <2>3, <2>x, KeysDisjoint DEF Owned, CtrlOwns
  <2>10. "freed_in_library" \notin FreeFault(x)
    <3>1. CASE x = None
      BY <3>1 DEF FreeFault
    <3>2. CASE x # None
      BY <3>2, <2>2 DEF FreeFault, InLibrary
    <3> QED BY <3>1, <3>2
  <2> QED BY <1>2, <2>7, <2>8, <2>9, <2>10 DEF DropOrLeak
<1> QED BY <1>1, <1>2

\* Unplugging a device completes what is queued on it, and leaves every
\* transfer where it is.
LEMMA UnplugMoves ==
  ASSUME TypeOK, NEW d, Unplug(d), NEW x \in Xfers
  PROVE  /\ xfers'[x].at = xfers[x].at /\ xfers'[x].tag = xfers[x].tag
         /\ \/ xfers'[x].st = xfers[x].st
            \/ xfers[x].st = "queued" /\ xfers'[x].st = "done"
<1>1. xfers'[x] = IF xfers[x].st = "queued" /\ xfers[x].at[1] = d
                  THEN [xfers[x] EXCEPT !.st = "done", !.status = "nodev"] ELSE xfers[x]
  BY DEF Unplug
<1>2. CASE xfers'[x] = xfers[x]
  BY <1>2
<1>3. CASE xfers[x].st = "queued" /\ xfers'[x] = [xfers[x] EXCEPT !.st = "done", !.status = "nodev"]
  <2>1. xfers[x] \in XferType
    BY DEF TypeOK
  <2>2. \A t \in XferType :
          LET u == [t EXCEPT !.st = "done", !.status = "nodev"]
          IN  u.at = t.at /\ u.tag = t.tag /\ u.st = "done"
    BY DEF XferType
  <2> QED BY <1>3, <2>1, <2>2
<1> QED BY <1>1, <1>2, <1>3

\* A transfer that moves from queued to done stays with the control call that
\* waits for it.
LEMMA MovedCtrl ==
  ASSUME CtrlOwns, pc' = pc, cur' = cur, ctrlSem' = ctrlSem, on' = on, wait' = wait,
         \A x \in Xfers :
           /\ xfers'[x].at = xfers[x].at /\ xfers'[x].tag = xfers[x].tag
           /\ \/ xfers'[x].st = xfers[x].st
              \/ xfers[x].st = "queued" /\ xfers'[x].st = "done"
  PROVE  CtrlOwns'
<1> SUFFICES ASSUME pc = "ctrl"
             PROVE  /\ cur \in Xfers /\ on["call"] = xfers'[cur].at /\ on["call"] \in CtrlKeys
                    /\ xfers'[cur].st # "free" /\ ~xfers'[cur].tag
                    /\ ctrlSem = 1 \/ wait["call"] = "got" => xfers'[cur].st = "caller"
  BY DEF CtrlOwns
<1>1. /\ cur \in Xfers /\ on["call"] = xfers[cur].at /\ on["call"] \in CtrlKeys
      /\ xfers[cur].st # "free" /\ ~xfers[cur].tag
      /\ ctrlSem = 1 \/ wait["call"] = "got" => xfers[cur].st = "caller"
  BY DEF CtrlOwns
<1> QED BY <1>1

\* Steps that leave a pipe's transfer and busy flag alone, and move a
\* transfer at most from queued to done, which both are the library's.
LEMMA MovedOwned ==
  ASSUME TypeOK, Owned, pc = "ctrl" => pc' = "ctrl" /\ cur' = cur,
         \A q \in Pipes :
           \/ pipes'[q] = pipes[q]
           \/ /\ pipes[q].used /\ pipes'[q].used /\ pipes'[q].xfer = pipes[q].xfer
              /\ pipes'[q].busy = pipes[q].busy,
         \A x \in Xfers :
           /\ xfers'[x].at = xfers[x].at /\ xfers'[x].tag = xfers[x].tag
           /\ \/ xfers'[x].st = xfers[x].st
              \/ xfers[x].st = "queued" /\ xfers'[x].st = "done"
  PROVE  PipeOwns' /\ LibraryOwns'
<1>1. PipeOwns'
  <2> SUFFICES ASSUME NEW q \in Pipes
               PROVE (/\ ~pipes[q].used => pipes[q] = NoPipe
                      /\ pipes[q].xfer = None => ~pipes[q].busy
                      /\ pipes[q].xfer # None =>
                           LET x == xfers[pipes[q].xfer]
                           IN  x.at = q /\ ~x.tag /\ x.st # "free" /\ (pipes[q].busy <=> x.st # "caller"))'
    BY DEF PipeOwns
  <2>1. pipes[q].xfer # None => pipes[q].xfer \in Xfers
    BY DEF TypeOK, PipeType
  <2>2. pipes'[q].xfer = pipes[q].xfer /\ (pipes'[q].busy <=> pipes[q].busy)
        /\ (~pipes'[q].used => ~pipes[q].used /\ pipes'[q] = pipes[q])
    OBVIOUS
  <2> QED BY <2>1, <2>2 DEF Owned, PipeOwns
<1>2. LibraryOwns'
  <2> SUFFICES ASSUME NEW y \in Xfers, InLibrary(y)'
               PROVE  (\/ xfers[y].at \in Pipes /\ pipes[xfers[y].at].xfer = y
                       \/ xfers[y].at \in CtrlKeys /\ (xfers[y].tag \/ (pc = "ctrl" /\ cur = y)))'
    BY DEF LibraryOwns
  <2>1. InLibrary(y) /\ xfers'[y].at = xfers[y].at /\ xfers'[y].tag = xfers[y].tag
    BY DEF InLibrary
  <2> QED BY <2>1 DEF Owned, LibraryOwns
<1> QED BY <1>1, <1>2

\* usbif_xfer_retire and drop_pipes: halt and flush.
LEMMA FlushedMoves ==
  ASSUME TypeOK, NEW q, NEW part \in BOOLEAN
  PROVE  \A x \in Xfers :
           /\ Flushed(q, part)[x].at = xfers[x].at /\ Flushed(q, part)[x].tag = xfers[x].tag
           /\ \/ Flushed(q, part)[x].st = xfers[x].st
              \/ xfers[x].st = "queued" /\ Flushed(q, part)[x].st = "done"
<1> SUFFICES ASSUME NEW x \in Xfers
             PROVE  /\ Flushed(q, part)[x].at = xfers[x].at
                    /\ Flushed(q, part)[x].tag = xfers[x].tag
                    /\ \/ Flushed(q, part)[x].st = xfers[x].st
                       \/ xfers[x].st = "queued" /\ Flushed(q, part)[x].st = "done"
  OBVIOUS
<1> DEFINE b == part /\ In(q)
           t == [xfers[x] EXCEPT !.st = "done", !.status = "canceled", !.unread = b]
<1>1. t.at = xfers[x].at /\ t.tag = xfers[x].tag /\ t.st = "done"
  <2> HIDE DEF b
  <2> QED BY DEF TypeOK, XferType
<1>2. Flushed(q, part)[x] = IF xfers[x].st = "queued" /\ xfers[x].at = q THEN t ELSE xfers[x]
  BY DEF Flushed
<1> HIDE DEF t
<1> QED BY <1>1, <1>2

\* What is known of a control transfer is vacuous outside usbif_xfer_ctrl.
LEMMA NotCtrl == ASSUME pc' # "ctrl" PROVE CtrlOwns'
  BY DEF CtrlOwns

\* The callback of a control transfer: tagged, it is freed and was no one's;
\* untagged, it is the one the call waits for.
LEMMA CtrlCbOwned ==
  ASSUME TypeOK, Owned, NEW x \in Xfers, xfers[x].st = "done", xfers[x].at \in CtrlKeys,
         CtrlCb(x), UNCHANGED callVars, UNCHANGED waitVars
  PROVE  Owned'
<1> USE DEF callVars, waitVars
<1>1. \A q \in Pipes : pipes[q].xfer # None => pipes[q].xfer # x /\ pipes[q].xfer \in Xfers
  BY KeysDisjoint DEF Owned, PipeOwns, TypeOK, PipeType
<1>2. \A y \in Xfers : y # x => xfers'[y] = xfers[y]
  BY DEF CtrlCb, Freed, TypeOK
<1>3. xfers'[x].st \in {"free", "caller"} /\ (~xfers[x].tag => xfers'[x] = [xfers[x] EXCEPT !.st = "caller"])
  <2>1. CASE xfers[x].tag
    BY <2>1, ConstantsOK DEF CtrlCb, Freed, TypeOK, FreeXfer
  <2>2. CASE ~xfers[x].tag
    <3>1. xfers' = [xfers EXCEPT ![x] = [xfers[x] EXCEPT !.st = "caller"]]
      BY <2>2 DEF CtrlCb
    <3>2. xfers'[x] = [xfers[x] EXCEPT !.st = "caller"] /\ xfers[x] \in XferType
      BY <3>1 DEF TypeOK
    <3> QED BY <3>2 DEF XferType
  <2> QED BY <2>1, <2>2
<1>4. PipeOwns'
  <2>1. pipes' = pipes
    BY DEF CtrlCb
  <2>2. \A q \in Pipes : pipes[q].xfer # None => xfers'[pipes[q].xfer] = xfers[pipes[q].xfer]
    BY <1>1, <1>2
  <2> QED BY <2>1, <2>2 DEF Owned, PipeOwns
<1>5. LibraryOwns'
  <2> SUFFICES ASSUME NEW y \in Xfers, InLibrary(y)'
               PROVE  (\/ xfers[y].at \in Pipes /\ pipes[xfers[y].at].xfer = y
                       \/ xfers[y].at \in CtrlKeys /\ (xfers[y].tag \/ (pc = "ctrl" /\ cur = y)))'
    BY DEF LibraryOwns
  <2>1. y # x
    BY <1>3 DEF InLibrary
  <2> QED BY <2>1, <1>2 DEF Owned, LibraryOwns, InLibrary, CtrlCb
<1>6. CtrlOwns'
  <2>1. CASE pc = "ctrl" /\ cur # x
    <3>1. xfers[x].tag
      BY <2>1, KeysDisjoint DEF Owned, LibraryOwns, InLibrary
    <3>2. UNCHANGED ctrlSem /\ xfers'[cur] = xfers[cur]
      BY <3>1, <2>1, <1>2 DEF CtrlCb, Owned, CtrlOwns
    <3> QED BY <3>2 DEF Owned, CtrlOwns
  <2>2. CASE pc = "ctrl" /\ cur = x
    <3>1. xfers'[x] = [xfers[x] EXCEPT !.st = "caller"]
      BY <2>2, <1>3 DEF Owned, CtrlOwns
    <3>2. xfers'[x].st = "caller" /\ xfers'[x].at = xfers[x].at /\ xfers'[x].tag = xfers[x].tag
      BY <3>1 DEF TypeOK, XferType
    <3> QED BY <3>2, <2>2 DEF Owned, CtrlOwns
  <2> QED BY <2>1, <2>2, NotCtrl
<1> QED BY <1>4, <1>5, <1>6 DEF Owned

\* The callback of a pipe's transfer hands it back to its pipe.
LEMMA EpCbOwned ==
  ASSUME TypeOK, Owned, NEW x \in Xfers, xfers[x].st = "done", xfers[x].at \notin CtrlKeys,
         EpCb(x), UNCHANGED callVars, UNCHANGED waitVars
  PROVE  Owned'
<1> USE DEF callVars, waitVars
<1> DEFINE k == xfers[x].at
           t == [xfers[x] EXCEPT !.st = "caller"]
           p == [pipes[k] EXCEPT !.busy = FALSE, !.sem = 1]
<1>1. k \in Pipes /\ pipes[k].xfer = x /\ x # None
  BY ConstantsOK DEF Owned, LibraryOwns, InLibrary
<1>2. t.st = "caller" /\ t.at = k /\ t.tag = xfers[x].tag
  BY DEF TypeOK, XferType
<1>3. ~p.busy /\ p.xfer = x /\ p.used = pipes[k].used
  BY <1>1 DEF TypeOK, PipeType
<1>u. pipes[k].used
  BY <1>1 DEF Owned, PipeOwns, NoPipe
<1>4. xfers' = [xfers EXCEPT ![x] = t] /\ pipes' = [pipes EXCEPT ![k] = p]
  BY DEF EpCb
<1> HIDE DEF t, p
<1>5. /\ xfers'[x] = t /\ \A y \in Xfers : y # x => xfers'[y] = xfers[y]
      /\ pipes'[k] = p /\ \A q \in Pipes : q # k => pipes'[q] = pipes[q]
  BY <1>1, <1>4 DEF TypeOK
<1>6. \A q \in Pipes : q # k /\ pipes[q].xfer # None =>
        pipes[q].xfer # x /\ pipes[q].xfer \in Xfers
  BY DEF Owned, PipeOwns, TypeOK, PipeType
<1>7. PipeOwns'
  <2> SUFFICES ASSUME NEW q \in Pipes
               PROVE (/\ ~pipes[q].used => pipes[q] = NoPipe
                      /\ pipes[q].xfer = None => ~pipes[q].busy
                      /\ pipes[q].xfer # None =>
                           LET z == xfers[pipes[q].xfer]
                           IN  z.at = q /\ ~z.tag /\ z.st # "free" /\ (pipes[q].busy <=> z.st # "caller"))'
    BY DEF PipeOwns
  <2>1. CASE q = k
    <3>1. ~xfers[x].tag
      BY <1>1 DEF Owned, PipeOwns
    <3> QED BY <3>1, <2>1, <1>1, <1>2, <1>3, <1>5, <1>u
  <2>2. CASE q # k
    <3>1. pipes[q].xfer # None => xfers'[pipes[q].xfer] = xfers[pipes[q].xfer]
      BY <2>2, <1>5, <1>6
    <3> QED BY <3>1, <2>2, <1>5 DEF Owned, PipeOwns
  <2> QED BY <2>1, <2>2
<1>8. LibraryOwns'
  <2> SUFFICES ASSUME NEW y \in Xfers, InLibrary(y)'
               PROVE  (\/ xfers[y].at \in Pipes /\ pipes[xfers[y].at].xfer = y
                       \/ xfers[y].at \in CtrlKeys /\ (xfers[y].tag \/ (pc = "ctrl" /\ cur = y)))'
    BY DEF LibraryOwns
  <2>1. y # x
    BY <1>2, <1>5 DEF InLibrary
  <2>2. InLibrary(y) /\ xfers'[y] = xfers[y]
    BY <2>1, <1>5 DEF InLibrary
  <2> QED BY <2>2, <1>1, <1>3, <1>5 DEF Owned, LibraryOwns
<1>9. CtrlOwns'
  <2>1. CASE pc = "ctrl"
    <3>1. cur # x /\ UNCHANGED ctrlSem
      BY <2>1 DEF Owned, CtrlOwns, EpCb, ctrlVars
    <3> QED BY <3>1, <2>1, <1>5 DEF Owned, CtrlOwns
  <2> QED BY <2>1, NotCtrl
<1> QED BY <1>7, <1>8, <1>9 DEF Owned

\* Nothing is freed in the library, and every transfer keeps its owner: by
\* the groups of actions.
OwnersSafe == Owned /\ NothingFreedInLibrary

\* The bus and the callbacks leave every transfer with its owner.
LEMMA BusOwned == ASSUME TypeOK, OwnersSafe, BusNext PROVE OwnersSafe'
<1> USE DEF callVars, waitVars, goneVars, tableVars, ctrlVars
<1>f. UNCHANGED fault /\ UNCHANGED callVars /\ UNCHANGED waitVars
  BY DEF BusNext, Complete, Callback, Unplug, NewDev
<1>1. ASSUME NEW x \in Xfers, Complete(x) PROVE Owned'
  <2>1. \A y \in Xfers :
          /\ xfers'[y].at = xfers[y].at /\ xfers'[y].tag = xfers[y].tag
          /\ \/ xfers'[y].st = xfers[y].st
             \/ xfers[y].st = "queued" /\ xfers'[y].st = "done"
    <3>1. PICK s : xfers' = [xfers EXCEPT ![x].st = "done", ![x].status = s,
                                          ![x].unread = (s = "ok") /\ In(xfers[x].at)]
      BY <1>1 DEF Complete
    <3> DEFINE b == (s = "ok") /\ In(xfers[x].at)
               t == [xfers[x] EXCEPT !.st = "done", !.status = s, !.unread = b]
    <3>2. t.st = "done" /\ t.at = xfers[x].at /\ t.tag = xfers[x].tag
      <4> HIDE DEF b
      <4> QED BY DEF TypeOK, XferType
    <3>3. xfers' = [xfers EXCEPT ![x] = t]
      BY <3>1
    <3> HIDE DEF t
    <3> QED BY <3>2, <3>3, <1>1 DEF TypeOK, Complete
  <2>2. PipeOwns' /\ LibraryOwns'
    BY <2>1, <1>1, <1>f, MovedOwned DEF Complete, OwnersSafe
  <2>3. CtrlOwns'
    <3>1. ctrlSem' = ctrlSem /\ pc' = pc /\ cur' = cur /\ on' = on /\ wait' = wait
      BY <1>1, <1>f DEF Complete
    <3> QED BY <3>1, <2>1, MovedCtrl DEF OwnersSafe, Owned
  <2> QED BY <2>2, <2>3 DEF Owned
<1>2. ASSUME NEW x \in Xfers, Callback(x) PROVE Owned'
  BY <1>2, <1>f, CtrlCbOwned, EpCbOwned DEF Callback, OwnersSafe
<1>3. ASSUME NEW d \in Devs, Unplug(d) PROVE Owned'
  <2>1. \A y \in Xfers :
          /\ xfers'[y].at = xfers[y].at /\ xfers'[y].tag = xfers[y].tag
          /\ \/ xfers'[y].st = xfers[y].st
             \/ xfers[y].st = "queued" /\ xfers'[y].st = "done"
    BY <1>3, UnplugMoves
  <2>2. UNCHANGED <<pipes, pc, cur, ctrlSem, on, wait>>
    BY <1>3 DEF Unplug
  <2>3. PipeOwns' /\ LibraryOwns'
    BY <2>1, <2>2, MovedOwned DEF OwnersSafe
  <2>4. CtrlOwns'
    BY <2>1, <2>2, MovedCtrl DEF OwnersSafe, Owned
  <2> QED BY <2>3, <2>4 DEF Owned
<1>4. ASSUME NEW d \in Devs, NewDev(d) PROVE Owned'
  BY <1>4, StillOwned DEF NewDev, OwnersSafe
<1>5. Owned'
  BY <1>1, <1>2, <1>3, <1>4 DEF BusNext
<1> QED BY <1>5, <1>f DEF OwnersSafe, NothingFreedInLibrary

\* DEV_GONE frees only what no pipe has in flight.
LEMMA GoneOwned == ASSUME TypeOK, WaitsMatch, OwnersSafe, GoneNext PROVE OwnersSafe'
<1> USE DEF callVars, waitVars, goneVars, tableVars, ctrlVars
<1> SUFFICES ASSUME NEW h \in Handlers,
                    \/ \E d \in Devs : GoneBegin(h, d)
                    \/ \E q \in Pipes : GoneDrop(h, q)
                    \/ GoneWaited(h)
                    \/ GoneEnd(h)
             PROVE  OwnersSafe'
  BY DEF GoneNext
<1>h. h # "call"
  BY DEF Handlers
<1>c. UNCHANGED <<pc, cur, ctrlSem>> /\ on'["call"] = on["call"] /\ wait'["call"] = wait["call"]
  BY <1>h DEF GoneBegin, GoneDrop, GoneWaited, GoneEnd, StartWait, StopWait, TypeOK, Waiters
<1>1. CASE (\E d \in Devs : GoneBegin(h, d)) \/ GoneEnd(h)
  BY <1>1, <1>c, StillOwned DEF GoneBegin, GoneEnd, OwnersSafe, NothingFreedInLibrary
<1>2. ASSUME NEW q \in Pipes, DropOrLeak(q, {}) PROVE OwnersSafe'
  <2>1. /\ PipeOwns' /\ LibraryOwns' /\ (pc = "ctrl" => xfers'[cur] = xfers[cur])
        /\ "freed_in_library" \in fault' => "freed_in_library" \in fault
    BY <1>2, <1>c, DropOwned DEF OwnersSafe
  <2>2. CtrlOwns'
    BY <2>1, <1>c, CtrlStill DEF OwnersSafe, Owned
  <2> QED BY <2>1, <2>2 DEF OwnersSafe, Owned, NothingFreedInLibrary
<1>3. ASSUME NEW q \in Pipes, GoneDrop(h, q) PROVE OwnersSafe'
  <2>1. DropOrLeak(q, {}) \/ UNCHANGED <<pipes, xfers, fault>>
    BY <1>3 DEF GoneDrop, DropUsed
  <2> QED BY <2>1, <1>2, <1>c, StillOwned DEF OwnersSafe, NothingFreedInLibrary
<1>4. CASE GoneWaited(h)
  <2>1. on[h] \in Pipes /\ DropOrLeak(on[h], {})
    BY <1>4 DEF GoneWaited, CanResume, WaitsMatch
  <2> QED BY <2>1, <1>2
<1> QED BY <1>1, <1>3, <1>4

\* The ends of a wait move no transfer.
LEMMA WaitOwned == ASSUME TypeOK, WaitsMatch, OwnersSafe, WaitNext PROVE OwnersSafe'
<1> USE DEF callVars, waitVars, goneVars, tableVars, ctrlVars
<1> SUFFICES ASSUME NEW w \in Waiters, WaitTake(w) \/ WaitExpire(w) \/ WaitOnDeleted(w)
             PROVE  OwnersSafe'
  BY DEF WaitNext
<1>1. UNCHANGED <<xfers, pc, cur, on>> /\ wait[w] = "waiting"
      /\ \A v \in Waiters : v # w => wait'[v] = wait[v]
  BY DEF WaitTake, WaitExpire, WaitOnDeleted, Waiting, TypeOK
<1>2. "freed_in_library" \notin fault'
  BY DEF WaitTake, WaitExpire, WaitOnDeleted, OwnersSafe, NothingFreedInLibrary
<1>3. \A q \in Pipes :
        \/ pipes'[q] = pipes[q]
        \/ /\ pipes[q].used /\ pipes'[q].used /\ pipes'[q].xfer = pipes[q].xfer
           /\ pipes'[q].busy = pipes[q].busy
  <2>1. CASE WaitTake(w) /\ OnPipe(w)
    <3> DEFINE k == on[w]
               p == [pipes[k] EXCEPT !.sem = 0]
    <3>1. k \in Pipes /\ pipes[k].used /\ pipes' = [pipes EXCEPT ![k] = p]
      BY <2>1 DEF WaitTake, OnPipe, SemGone
    <3>2. p.used = pipes[k].used /\ p.xfer = pipes[k].xfer /\ p.busy = pipes[k].busy
      BY <3>1 DEF TypeOK, PipeType
    <3> HIDE DEF p, k
    <3> QED BY <3>1, <3>2 DEF TypeOK
  <2>2. CASE ~(WaitTake(w) /\ OnPipe(w))
    BY <2>2 DEF WaitTake, WaitExpire, WaitOnDeleted
  <2> QED BY <2>1, <2>2
<1>4. PipeOwns' /\ LibraryOwns'
  BY <1>1, <1>3, MovedOwned DEF OwnersSafe
<1>5. CtrlOwns'
  <2>1. CASE pc = "ctrl" /\ w = "call"
    <3>1. ~OnPipe(w)
      BY <2>1, KeysDisjoint DEF OwnersSafe, Owned, CtrlOwns, OnPipe
    <3>2. wait'["call"] = "got" \/ ctrlSem' = 1 => ctrlSem = 1
      BY <3>1, <2>1 DEF WaitTake, WaitExpire, WaitOnDeleted, SemGone, SemValue, TypeOK
    <3> QED BY <3>2, <1>1 DEF OwnersSafe, Owned, CtrlOwns
  <2>2. CASE pc = "ctrl" /\ w # "call"
    <3>1. OnPipe(w)
      BY <2>2, <1>1 DEF WaitsMatch, Waiters, OnPipe
    <3>2. UNCHANGED ctrlSem /\ wait'["call"] = wait["call"]
      BY <2>2, <3>1, <1>1, CallIsWaiter DEF WaitTake, WaitExpire, WaitOnDeleted
    <3> QED BY <3>2, <1>1 DEF OwnersSafe, Owned, CtrlOwns
  <2> QED BY <2>1, <2>2, <1>1, NotCtrl
<1> QED BY <1>2, <1>4, <1>5 DEF OwnersSafe, Owned, NothingFreedInLibrary

\* usbif_xfer_ctrl frees its transfer, or leaves it to its callback.
LEMMA CtrlOwned == ASSUME TypeOK, WaitsMatch, OwnersSafe, CtrlNext PROVE OwnersSafe'
<1> USE CallIsWaiter DEF callVars, waitVars, goneVars, tableVars, ctrlVars
<1>1. ASSUME NEW d \in Devs, CtrlRefused(d) PROVE OwnersSafe'
  <2>1. pc # "ctrl" /\ pc' # "ctrl" /\ UNCHANGED <<pipes, xfers, fault>>
    BY <1>1 DEF CtrlRefused, Idle, Refuse
  <2> QED BY <2>1, StillOwned DEF OwnersSafe, NothingFreedInLibrary
<1>2. ASSUME NEW d \in Devs, NEW f \in Forevers, Ctrl(d, f) PROVE OwnersSafe'
  <2> DEFINE k == <<d, Ep0>>
             t == Armed(k)
  <2>1. PICK x \in Free : cur' = x /\ xfers' = [xfers EXCEPT ![x] = t]
    BY <1>2 DEF Ctrl
  <2>2. t.st = "queued" /\ t.at = k /\ ~t.tag /\ k \in CtrlKeys
    BY DEF Armed, FreeXfer, CtrlKeys
  <2> HIDE DEF t
  <2>3. xfers'[x] = t /\ \A y \in Xfers : y # x => xfers'[y] = xfers[y]
    BY <2>1 DEF TypeOK, Free
  <2>4. \A q \in Pipes : pipes[q].xfer # None => pipes[q].xfer # x /\ pipes[q].xfer \in Xfers
    BY <2>1 DEF OwnersSafe, Owned, PipeOwns, TypeOK, PipeType, Free
  <2>5. UNCHANGED pipes /\ UNCHANGED fault /\ pc = "idle" /\ pc' = "ctrl" /\ ctrlSem' = 0
    BY <1>2 DEF Ctrl, Idle, Drained
  <2>6. PipeOwns'
    <3>1. \A q \in Pipes : pipes[q].xfer # None => xfers'[pipes[q].xfer] = xfers[pipes[q].xfer]
      BY <2>3, <2>4
    <3> QED BY <3>1, <2>5 DEF OwnersSafe, Owned, PipeOwns
  <2>7. LibraryOwns'
    <3> SUFFICES ASSUME NEW y \in Xfers, InLibrary(y)'
                 PROVE  (\/ xfers[y].at \in Pipes /\ pipes[xfers[y].at].xfer = y
                         \/ xfers[y].at \in CtrlKeys /\ (xfers[y].tag \/ (pc = "ctrl" /\ cur = y)))'
      BY DEF LibraryOwns
    <3>1. CASE y = x
      BY <3>1, <2>1, <2>2, <2>3, <2>5
    <3>2. CASE y # x
      <4>1. InLibrary(y) /\ xfers'[y] = xfers[y]
        BY <3>2, <2>3 DEF InLibrary
      <4> QED BY <4>1, <2>5 DEF OwnersSafe, Owned, LibraryOwns
    <3> QED BY <3>1, <3>2
  <2>8. CtrlOwns'
    <3>1. x \in Xfers /\ on'["call"] = k /\ wait'["call"] = "waiting"
      BY <1>2, <2>1 DEF Ctrl, StartWait, TypeOK, Free
    <3> QED BY <3>1, <2>1, <2>2, <2>3, <2>5 DEF CtrlOwns
  <2> QED BY <2>5, <2>6, <2>7, <2>8 DEF OwnersSafe, Owned, NothingFreedInLibrary
\* Both ways out of usbif_xfer_ctrl leave pipes alone and touch only cur.
<1>3. ASSUME CtrlDone \/ CtrlAbandon PROVE OwnersSafe'
  <2>1. /\ pc = "ctrl" /\ pc' # "ctrl" /\ UNCHANGED pipes
        /\ cur \in Xfers /\ cur # None /\ xfers[cur].at \in CtrlKeys /\ wait["call"] \in {"got", "late"}
    BY <1>3, ConstantsOK DEF CtrlDone, CtrlAbandon, CanResume, Return, OwnersSafe, Owned, CtrlOwns
  <2>2. \A q \in Pipes : pipes[q].xfer # None => pipes[q].xfer # cur /\ pipes[q].xfer \in Xfers
    BY <2>1, KeysDisjoint DEF OwnersSafe, Owned, PipeOwns, TypeOK, PipeType
  <2>3. \A y \in Xfers : y # cur => xfers'[y] = xfers[y]
    BY <1>3, <2>1 DEF CtrlDone, CtrlAbandon, Freed, TypeOK
  <2>4. xfers'[cur].st \in {"queued", "done"} => xfers'[cur].tag /\ xfers'[cur].at = xfers[cur].at
    <3>1. CASE CtrlDone
      BY <3>1, <2>1 DEF CtrlDone, Freed, FreeXfer, TypeOK
    <3>2. CASE CtrlAbandon
      <4> DEFINE t == [xfers[cur] EXCEPT !.tag = TRUE]
      <4>1. t.tag /\ t.at = xfers[cur].at
        BY <2>1 DEF TypeOK, XferType
      <4>2. xfers' = [xfers EXCEPT ![cur] = t]
        BY <3>2 DEF CtrlAbandon
      <4> HIDE DEF t
      <4>3. xfers'[cur] = t
        BY <4>2, <2>1 DEF TypeOK
      <4> QED BY <4>1, <4>3
    <3> QED BY <3>1, <3>2, <1>3
  <2>5. PipeOwns'
    <3>1. \A q \in Pipes : pipes[q].xfer # None => xfers'[pipes[q].xfer] = xfers[pipes[q].xfer]
      BY <2>2, <2>3
    <3> QED BY <3>1, <2>1 DEF OwnersSafe, Owned, PipeOwns
  <2>6. LibraryOwns'
    <3> SUFFICES ASSUME NEW y \in Xfers, InLibrary(y)'
                 PROVE  (\/ xfers[y].at \in Pipes /\ pipes[xfers[y].at].xfer = y
                         \/ xfers[y].at \in CtrlKeys /\ (xfers[y].tag \/ (pc = "ctrl" /\ cur = y)))'
      BY DEF LibraryOwns
    <3>1. CASE y = cur
      BY <3>1, <2>1, <2>4 DEF InLibrary
    <3>2. CASE y # cur
      <4>1. InLibrary(y) /\ xfers'[y] = xfers[y]
        BY <3>2, <2>3 DEF InLibrary
      <4> QED BY <4>1, <3>2, <2>1 DEF OwnersSafe, Owned, LibraryOwns
    <3> QED BY <3>1, <3>2
  <2>7. CtrlOwns'
    BY <2>1, NotCtrl
  <2>8. "freed_in_library" \notin fault'
    <3>1. CASE CtrlDone
      <4>1. xfers[cur].st = "caller"
        BY <3>1 DEF CtrlDone, OwnersSafe, Owned, CtrlOwns
      <4> QED BY <3>1, <4>1, <2>1 DEF CtrlDone, FreeFault, InLibrary, OwnersSafe, NothingFreedInLibrary
    <3>2. CASE CtrlAbandon
      BY <3>2 DEF CtrlAbandon, OwnersSafe, NothingFreedInLibrary
    <3> QED BY <3>1, <3>2, <1>3
  <2> QED BY <2>5, <2>6, <2>7, <2>8 DEF OwnersSafe, Owned, NothingFreedInLibrary
<1> QED BY <1>1, <1>2, <1>3 DEF CtrlNext

\* usbif_xfer_ep hands a transfer to a pipe that is not in flight: its own,
\* or one from the heap.
LEMMA HandedOwned ==
  ASSUME TypeOK, Owned, NEW q \in Pipes, ~Busy(q), NEW x \in EpXfer(q), NEW p, NEW t,
         pipes' = [pipes EXCEPT ![q] = p], xfers' = [xfers EXCEPT ![x] = t],
         p.used, p.xfer = x, t.at = q, ~t.tag, t.st # "free", p.busy <=> t.st # "caller",
         pc # "ctrl"
  PROVE  PipeOwns' /\ LibraryOwns'
<1>1. x \in Xfers /\ (x = pipes[q].xfer \/ xfers[x].st = "free")
  BY DEF EpXfer, Reusable, Free, TypeOK, PipeType
<1>2. /\ xfers'[x] = t /\ \A y \in Xfers : y # x => xfers'[y] = xfers[y]
      /\ pipes'[q] = p /\ \A k \in Pipes : k # q => pipes'[k] = pipes[k]
  BY <1>1 DEF TypeOK
<1>3. \A k \in Pipes : k # q /\ pipes[k].xfer # None =>
        pipes[k].xfer # x /\ pipes[k].xfer \in Xfers
  <2> SUFFICES ASSUME NEW k \in Pipes, k # q, pipes[k].xfer # None, pipes[k].xfer = x PROVE FALSE
    BY DEF TypeOK, PipeType
  <2> QED BY <1>1 DEF Owned, PipeOwns
<1>4. PipeOwns'
  <2> SUFFICES ASSUME NEW k \in Pipes
               PROVE (/\ ~pipes[k].used => pipes[k] = NoPipe
                      /\ pipes[k].xfer = None => ~pipes[k].busy
                      /\ pipes[k].xfer # None =>
                           LET z == xfers[pipes[k].xfer]
                           IN  z.at = k /\ ~z.tag /\ z.st # "free" /\ (pipes[k].busy <=> z.st # "caller"))'
    BY DEF PipeOwns
  <2>1. CASE k = q
    <3>1. x # None
      BY <1>1, ConstantsOK
    <3> QED BY <2>1, <3>1, <1>2
  <2>2. CASE k # q
    <3>1. pipes[k].xfer # None => xfers'[pipes[k].xfer] = xfers[pipes[k].xfer]
      BY <2>2, <1>2, <1>3
    <3> QED BY <3>1, <2>2, <1>2 DEF Owned, PipeOwns
  <2> QED BY <2>1, <2>2
<1>5. LibraryOwns'
  <2> SUFFICES ASSUME NEW y \in Xfers, InLibrary(y)'
               PROVE  (\/ xfers[y].at \in Pipes /\ pipes[xfers[y].at].xfer = y
                       \/ xfers[y].at \in CtrlKeys /\ (xfers[y].tag \/ (pc = "ctrl" /\ cur = y)))'
    BY DEF LibraryOwns
  <2>1. CASE y = x
    BY <2>1, <1>2
  <2>2. CASE y # x
    <3>1. InLibrary(y) /\ xfers'[y] = xfers[y]
      BY <2>2, <1>2 DEF InLibrary
    <3>2. pipes[q].xfer = y => FALSE
      <4>1. pipes[q].xfer = y => y # None /\ xfers[y].st # "caller"
        BY <3>1, ConstantsOK DEF InLibrary
      <4> QED BY <4>1 DEF Owned, PipeOwns, Busy, NoPipe
    <3> QED BY <3>1, <3>2, <1>2 DEF Owned, LibraryOwns
  <2> QED BY <2>1, <2>2
<1> QED BY <1>4, <1>5

\* usbif_xfer_ep submits, resizes and hands back its own pipe's transfer.
LEMMA EpOwned == ASSUME TypeOK, WaitsMatch, OwnersSafe, EpNext PROVE OwnersSafe'
<1> USE CallIsWaiter DEF callVars, waitVars, goneVars, tableVars, ctrlVars
<1>1. ASSUME NEW q \in Pipes, EpRefused(q) \/ EpNull(q) PROVE OwnersSafe'
  <2>1. /\ pc # "ctrl" /\ pc' # "ctrl" /\ UNCHANGED <<pipes, xfers>>
        /\ fault' \in {fault, fault \cup {"null_xfer"}}
    BY <1>1 DEF EpRefused, EpNull, EpReady, Idle, Refuse
  <2> QED BY <2>1, StillOwned DEF OwnersSafe, NothingFreedInLibrary
\* The old transfer was freed, a new one could not be had.
<1>2. ASSUME NEW q \in Pipes, EpNoMemory(q) PROVE OwnersSafe'
  <2> DEFINE x == pipes[q].xfer
             p == [pipes[q] EXCEPT !.used = TRUE, !.xfer = None]
  <2>x. x \in Xfers \cup {None} /\ None \notin Xfers
    BY ConstantsOK DEF TypeOK, PipeType
  <2>b. ~pipes[q].busy /\ pc = "idle" /\ pc' = "idle"
    BY <1>2 DEF EpNoMemory, EpReady, Busy, Idle, Refuse, OwnersSafe, Owned, PipeOwns, NoPipe
  <2>1. pipes' = [pipes EXCEPT ![q] = p] /\ xfers' = Freed(x)
    BY <1>2 DEF EpNoMemory
  <2>2. x # None => xfers[x].st = "caller" /\ xfers[x].at = q
    BY <2>b, <2>x DEF OwnersSafe, Owned, PipeOwns, TypeOK, XferType
  <2>3. p.used /\ p.xfer = None /\ ~p.busy
    BY <2>b DEF TypeOK, PipeType
  <2> HIDE DEF p
  <2>4. \A y \in Xfers : y # x => xfers'[y] = xfers[y]
    BY <2>1, <2>x DEF Freed, TypeOK
  <2>5. pipes'[q] = p /\ \A k \in Pipes : k # q => pipes'[k] = pipes[k]
    BY <2>1 DEF TypeOK
  <2>6. \A k \in Pipes : k # q /\ pipes[k].xfer # None =>
          pipes[k].xfer # x /\ pipes[k].xfer \in Xfers
    BY <2>2 DEF OwnersSafe, Owned, PipeOwns, TypeOK, PipeType
  <2>7. PipeOwns'
    <3>1. \A k \in Pipes : k # q /\ pipes[k].xfer # None =>
            xfers'[pipes[k].xfer] = xfers[pipes[k].xfer]
      BY <2>4, <2>6
    <3> QED BY <2>3, <2>5, <3>1 DEF OwnersSafe, Owned, PipeOwns
  <2>8. LibraryOwns'
    <3> SUFFICES ASSUME NEW y \in Xfers, InLibrary(y)'
                 PROVE  (\/ xfers[y].at \in Pipes /\ pipes[xfers[y].at].xfer = y
                         \/ xfers[y].at \in CtrlKeys /\ (xfers[y].tag \/ (pc = "ctrl" /\ cur = y)))'
      BY DEF LibraryOwns
    <3>1. y # x
      BY <2>1, <2>x DEF InLibrary, FreeXfer, Freed, TypeOK
    <3>2. InLibrary(y) /\ xfers'[y] = xfers[y]
      BY <3>1, <2>4 DEF InLibrary
    <3> QED BY <3>1, <3>2, <2>5, <2>b DEF OwnersSafe, Owned, LibraryOwns
  <2>9. "freed_in_library" \notin fault'
    <3>1. CASE x = None
      BY <3>1, <1>2 DEF FreeFault, EpNoMemory, OwnersSafe, NothingFreedInLibrary
    <3>2. CASE x # None
      BY <3>2, <2>2, <1>2 DEF FreeFault, EpNoMemory, InLibrary, OwnersSafe, NothingFreedInLibrary
    <3> QED BY <3>1, <3>2
  <2> QED BY <2>7, <2>8, <2>9, <2>b, NotCtrl DEF OwnersSafe, Owned, NothingFreedInLibrary
<1>3. ASSUME NEW q \in Pipes, EpSubmitFails(q) PROVE OwnersSafe'
  <2>1. PICK x \in EpXfer(q) :
          /\ xfers' = [xfers EXCEPT ![x] = [Armed(q) EXCEPT !.st = "caller"]]
          /\ pipes' = [pipes EXCEPT ![q] = [pipes[q] EXCEPT !.used = TRUE, !.xfer = x,
                                              !.sized = TRUE, !.sem = 0]]
    BY <1>3 DEF EpSubmitFails, Drained
  <2> DEFINE p == [pipes[q] EXCEPT !.used = TRUE, !.xfer = x, !.sized = TRUE,
                                   !.sem = 0]
             t == [Armed(q) EXCEPT !.st = "caller"]
  <2>2. ~Busy(q) /\ pc = "idle" /\ pc' = "idle" /\ UNCHANGED fault
    BY <1>3 DEF EpSubmitFails, EpReady, Idle, Refuse
  <2>3. p.used /\ p.xfer = x /\ ~p.busy
    <3>1. ~pipes[q].busy
      BY <2>2 DEF Busy, OwnersSafe, Owned, PipeOwns, NoPipe
    <3> QED BY <3>1 DEF TypeOK, PipeType
  <2>4. t.st = "caller" /\ t.at = q /\ ~t.tag
    BY DEF Armed, FreeXfer
  <2> HIDE DEF p, t
  <2>5. PipeOwns' /\ LibraryOwns'
    BY <2>1, <2>2, <2>3, <2>4, HandedOwned DEF p, t, OwnersSafe
  <2> QED BY <2>2, <2>5, NotCtrl DEF OwnersSafe, Owned, NothingFreedInLibrary
<1>4. ASSUME NEW q \in Pipes, NEW k \in Keeps, NEW f \in Forevers, EpSubmit(q, k, f) PROVE OwnersSafe'
  <2>1. PICK x \in EpXfer(q) :
          /\ xfers' = [xfers EXCEPT ![x] = Armed(q)]
          /\ pipes' = [pipes EXCEPT ![q] = [used |-> TRUE, xfer |-> x, sem |-> Drained(pipes[q].sem),
                                            busy |-> TRUE, kept |-> FALSE, sized |-> TRUE]]
    BY <1>4 DEF EpSubmit
  <2> DEFINE p == [used |-> TRUE, xfer |-> x, sem |-> Drained(pipes[q].sem),
                   busy |-> TRUE, kept |-> FALSE, sized |-> TRUE]
             t == Armed(q)
  <2>2. ~Busy(q) /\ pc = "idle" /\ pc' = "ep" /\ UNCHANGED fault
    BY <1>4 DEF EpSubmit, EpReady, StartEp, Idle
  <2>3. p.used /\ p.xfer = x /\ p.busy
    OBVIOUS
  <2>4. t.st = "queued" /\ t.at = q /\ ~t.tag
    BY DEF Armed, FreeXfer
  <2> HIDE DEF p, t
  <2>5. PipeOwns' /\ LibraryOwns'
    BY <2>1, <2>2, <2>3, <2>4, HandedOwned DEF p, t, OwnersSafe
  <2> QED BY <2>2, <2>5, NotCtrl DEF OwnersSafe, Owned, NothingFreedInLibrary
<1>5. ASSUME NEW q \in Pipes, NEW k \in Keeps, NEW f \in Forevers, EpPickUp(q, k, f) PROVE OwnersSafe'
  <2>1. pc = "idle" /\ pc' = "ep" /\ UNCHANGED <<xfers, fault>>
    BY <1>5 DEF EpPickUp, StartEp, Idle
  <2>2. \A j \in Pipes :
          \/ pipes'[j] = pipes[j]
          \/ /\ pipes[j].used /\ pipes'[j].used /\ pipes'[j].xfer = pipes[j].xfer
             /\ pipes'[j].busy = pipes[j].busy
    <3> DEFINE p == [pipes[q] EXCEPT !.kept = FALSE]
    <3>1. pipes' = [pipes EXCEPT ![q] = p] /\ pipes[q].used
      BY <1>5 DEF EpPickUp, Kept, Busy
    <3>2. p.used = pipes[q].used /\ p.xfer = pipes[q].xfer /\ p.busy = pipes[q].busy
      BY DEF TypeOK, PipeType
    <3> HIDE DEF p
    <3> QED BY <3>1, <3>2 DEF TypeOK
  <2> QED BY <2>1, <2>2, MovedOwned, NotCtrl DEF OwnersSafe, Owned, NothingFreedInLibrary
\* The call comes back: status and data are read, the owner is the same.
<1>6. ASSUME NEW r, EpResult(r), pc # "ctrl" PROVE
        /\ pc' # "ctrl"
        /\ \A x \in Xfers : /\ xfers'[x].at = xfers[x].at /\ xfers'[x].tag = xfers[x].tag
                            /\ xfers'[x].st = xfers[x].st
  <2> DEFINE b == xfers[cur].unread /\ r # "data"
             t == [xfers[cur] EXCEPT !.unread = b, !.status = "ok"]
  <2>1. xfers' = [xfers EXCEPT ![cur] = t] /\ pc' = "idle"
    BY <1>6 DEF EpResult, Return
  <2>2. cur \in Xfers => t.at = xfers[cur].at /\ t.tag = xfers[cur].tag /\ t.st = xfers[cur].st
    <3> HIDE DEF b
    <3> QED BY DEF TypeOK, XferType
  <2> HIDE DEF t
  <2> QED BY <2>1, <2>2 DEF TypeOK
<1>7. CASE EpDone \/ EpRetired
  <2>1. \E r : EpResult(r)
    BY <1>7 DEF EpDone, EpRetired
  <2>2. pc # "ctrl" /\ UNCHANGED pipes /\ fault' \subseteq fault \cup {"closed_dev", "freed_xfer"}
    BY <1>7 DEF EpDone, EpRetired, DevFault, XferFault
  <2> QED BY <1>6, <2>1, <2>2, MovedOwned, NotCtrl DEF OwnersSafe, Owned, NothingFreedInLibrary
<1>8. CASE EpKeep
  <2>1. EpResult("nothing") /\ pc # "ctrl" /\ UNCHANGED fault
    BY <1>8 DEF EpKeep
  <2>2. \A j \in Pipes :
          \/ pipes'[j] = pipes[j]
          \/ /\ pipes[j].used /\ pipes'[j].used /\ pipes'[j].xfer = pipes[j].xfer
             /\ pipes'[j].busy = pipes[j].busy
    <3> DEFINE q == Target
               p == [pipes[q] EXCEPT !.kept = TRUE]
    <3>1. q \in Pipes
      BY <1>8 DEF EpKeep, WaitsMatch
    <3>2. pipes' = IF pipes[q].used THEN [pipes EXCEPT ![q] = p] ELSE pipes
      BY <1>8 DEF EpKeep
    <3>3. p.used = pipes[q].used /\ p.xfer = pipes[q].xfer /\ p.busy = pipes[q].busy
      BY <3>1 DEF TypeOK, PipeType
    <3> HIDE DEF p, q
    <3> QED BY <3>1, <3>2, <3>3 DEF TypeOK
  <2> QED BY <1>6, <2>1, <2>2, MovedOwned, NotCtrl DEF OwnersSafe, Owned, NothingFreedInLibrary
<1>9. CASE EpRetire
  <2>1. pc = "ep" /\ pc' = "retire" /\ UNCHANGED pipes /\ fault' \subseteq fault \cup {"closed_dev"}
    BY <1>9 DEF EpRetire, DevFault
  <2>2. PICK part \in BOOLEAN : xfers' = Flushed(Target, part)
    BY <1>9 DEF EpRetire
  <2> QED BY <2>1, <2>2, FlushedMoves, MovedOwned, NotCtrl DEF OwnersSafe, Owned, NothingFreedInLibrary
<1> QED BY <1>1, <1>2, <1>3, <1>4, <1>5, <1>7, <1>8, <1>9 DEF EpNext

\* claim, release and close free only what no pipe has in flight.
LEMMA ClaimOwned == ASSUME TypeOK, WaitsMatch, OwnersSafe, ClaimNext PROVE OwnersSafe'
<1> USE CallIsWaiter DEF callVars, waitVars, goneVars, tableVars, ctrlVars
<1>1. ASSUME pc # "ctrl", pc' # "ctrl", UNCHANGED <<pipes, xfers>>,
             fault' \subseteq fault \cup {"closed_dev"}
      PROVE  OwnersSafe'
  BY <1>1, StillOwned DEF OwnersSafe, NothingFreedInLibrary
<1>2. ASSUME NEW d \in Devs, NEW i \in Itfs,
             ReleaseNothing(d, i) \/ Release(d, i)
             \/ \E a \in Alts : ClaimRefused(d, i, a) \/ ClaimFresh(d, i, a) \/ ClaimOther(d, i, a)
      PROVE  OwnersSafe'
  BY <1>1, <1>2
     DEF ReleaseNothing, Refuse, Release, StartDrop, Idle, ClaimRefused, ClaimFresh, ClaimOther
<1>3. CASE Close \/ CloseNext
  BY <1>1, <1>3 DEF Close, CloseNext, Idle, Return, StartDrop
<1>4. CASE ClaimAgain \/ ClaimEnds
  BY <1>1, <1>4 DEF ClaimAgain, ClaimEnds, Dropping, DevFault
<1>5. CASE ReleaseTry \/ ReleaseRetry
  <2>1. pc # "ctrl" /\ pc' # "ctrl"
    BY <1>5 DEF ReleaseTry, ReleaseRetry, Dropping, Released, Return
  <2>2. UNCHANGED <<pipes, xfers>> /\ fault' \subseteq fault \cup {"closed_dev"}
    BY <1>5 DEF ReleaseTry, ReleaseRetry, DevFault
  <2> QED BY <2>1, <2>2, <1>1
<1>6. ASSUME NEW q \in Pipes, NEW more, "freed_in_library" \notin more,
             DropOrLeak(q, more), UNCHANGED <<pc, cur>>, pc # "ctrl"
      PROVE  OwnersSafe'
  BY <1>6, DropOwned, NotCtrl DEF OwnersSafe, Owned, NothingFreedInLibrary
<1>7. ASSUME NEW q \in Pipes, DropNext(q) PROVE OwnersSafe'
  <2>1. pc = "drop" /\ UNCHANGED <<pc, cur>>
    BY <1>7 DEF DropNext, Dropping
  <2>2. CASE pipes[q].busy
    <3>1. UNCHANGED pipes /\ fault' \subseteq fault \cup {"closed_dev"}
      BY <1>7, <2>2 DEF DropNext, DevFault
    <3>2. PICK part \in BOOLEAN : xfers' = Flushed(q, part)
      BY <1>7, <2>2 DEF DropNext
    <3> QED BY <2>1, <3>1, <3>2, FlushedMoves, MovedOwned, NotCtrl
            DEF OwnersSafe, Owned, NothingFreedInLibrary
  <2>3. CASE ~pipes[q].busy
    <3>1. DropOrLeak(q, {}) \/ UNCHANGED <<pipes, xfers, fault>>
      BY <1>7, <2>3 DEF DropNext, DropUsed
    <3> QED BY <3>1, <2>1, <1>1, <1>6
  <2> QED BY <2>2, <2>3
<1>8. CASE DropWaited
  <2>1. /\ on["call"] \in Pipes /\ DropOrLeak(on["call"], DevFault(call.dev))
        /\ pc = "drop" /\ UNCHANGED <<pc, cur>>
    BY <1>8 DEF DropWaited, CanResume, WaitsMatch
  <2>2. "freed_in_library" \notin DevFault(call.dev)
    BY DEF DevFault
  <2> QED BY <2>1, <2>2, <1>6
<1> QED BY <1>2, <1>3, <1>4, <1>5, <1>7, <1>8 DEF ClaimNext

\* Every step keeps the ownership and frees nothing in the library.
LEMMA NextOwned == ASSUME TypeOK, WaitsMatch, OwnersSafe, [Next]_vars PROVE OwnersSafe'
<1>1. CASE Next
  BY <1>1, BusOwned, GoneOwned, WaitOwned, CtrlOwned, EpOwned, ClaimOwned DEF Next
<1>2. CASE UNCHANGED vars
  BY <1>2, StillOwned DEF vars, tableVars, callVars, ctrlVars, waitVars, OwnersSafe, NothingFreedInLibrary
<1> QED BY <1>1, <1>2

-----------------------------------------------------------------------------
(* The theorems.                                                           *)

\* The inductive invariant: the types, where every wait stands, and who owns
\* every transfer.
IInv == TypeOK /\ WaitsMatch /\ OwnersSafe

\* The invariant holds of every behaviour, for every value of the constants.
THEOREM Inductive == Spec => []IInv
<1>1. Init => IInv
  BY InitTypes, InitOwned DEF IInv, OwnersSafe
<1>2. IInv /\ [Next]_vars => IInv'
  <2> SUFFICES ASSUME IInv, [Next]_vars PROVE IInv'
    OBVIOUS
  <2>1. TypeOK'
    BY NextTypes DEF IInv
  <2>2. WaitsMatch'
    BY WaitsInductive DEF IInv, OwnersSafe, Owned
  <2>3. OwnersSafe'
    BY NextOwned DEF IInv
  <2> QED BY <2>1, <2>2, <2>3 DEF IInv
<1> QED BY <1>1, <1>2, PTL DEF Spec

\* Every variable keeps its type.
THEOREM TypeCorrect == Spec => []TypeOK
<1>1. IInv => TypeOK
  BY DEF IInv
<1> QED BY <1>1, Inductive, PTL

\* usbif_xfer_drop_pipes, usbif_xfer_ctrl and usbif_xfer_pipe never free a
\* transfer that the library holds, whichever task they run in.
THEOREM NeverFreedInLibrary == Spec => []NothingFreedInLibrary
<1>1. IInv => NothingFreedInLibrary
  BY DEF IInv, OwnersSafe
<1> QED BY <1>1, Inductive, PTL

\* Every transfer has the owner its address says, and every wait the
\* semaphore of what it waits for.
THEOREM AlwaysOwned == Spec => []Ownership
<1>1. IInv => Ownership
  BY DEF IInv, OwnersSafe, Owned, Ownership
<1> QED BY <1>1, Inductive, PTL

\* A pipe in the table is busy exactly while the library has its transfer.
THEOREM BusyIsInFlight == Spec => []BusyMeansInFlight
<1>1. IInv => BusyMeansInFlight
  <2> SUFFICES ASSUME IInv, NEW q \in UsedPipes
               PROVE  pipes[q].busy <=> pipes[q].xfer # None /\ InLibrary(pipes[q].xfer)
    BY DEF BusyMeansInFlight
  <2>1. q \in Pipes /\ (pipes[q].xfer # None => pipes[q].xfer \in Xfers)
    BY DEF UsedPipes, IInv, TypeOK, PipeType
  <2>2. pipes[q].xfer # None => xfers[pipes[q].xfer].st \in XferStates
    BY <2>1 DEF IInv, TypeOK, XferType
  <2> QED BY <2>1, <2>2 DEF IInv, OwnersSafe, Owned, PipeOwns, InLibrary, XferStates
<1> QED BY <1>1, Inductive, PTL

\* The claims.  The table is never ahead of the library: ClaimAgain and a
\* release that the library grants forget both, and a device that goes takes
\* both with it.
ClaimsIInv == ClaimsAgree /\ GoneLeavesNoClaim

\* A step that claims does so in the library first; one that releases
\* forgets in the table, whatever the library answers.
LEMMA ClaimsStep ==
  ASSUME TypeOK, WaitsMatch, ClaimsIInv, [Next]_vars PROVE ClaimsIInv'
<1> DEFINE Agree(d, i) == claims[d][i] # None => i \in idf[d] /\ hub[d] # "absent"
<1> SUFFICES ASSUME NEW d \in Devs, NEW i \in Itfs PROVE Agree(d, i)'
  BY DEF ClaimsIInv, ClaimsAgree, GoneLeavesNoClaim, TableClaims
<1>a. Agree(d, i)
  <2> DEFINE c == <<d, i>>
  <2>1. c \in Devs \X Itfs /\ c[1] = d /\ c[2] = i
    OBVIOUS
  <2> HIDE DEF c
  <2>2. claims[d][i] # None => c \in TableClaims
    BY <2>1 DEF TableClaims
  <2> QED BY <2>1, <2>2 DEF ClaimsIInv, ClaimsAgree, GoneLeavesNoClaim
<1> USE DEF callVars, waitVars, goneVars, tableVars, ctrlVars
<1>1. CASE UNCHANGED <<claims, idf, hub>>
  BY <1>1, <1>a
<1>2. ASSUME NEW c, Unplug(c) \/ NewDev(c) PROVE Agree(d, i)'
  BY <1>2, <1>a DEF Unplug, NewDev, TypeOK
<1>3. ASSUME NEW h, NEW c, GoneBegin(h, c) PROVE Agree(d, i)'
  BY <1>3, <1>a DEF GoneBegin, TypeOK
<1>4. ASSUME NEW h, GoneEnd(h) PROVE Agree(d, i)'
  BY <1>4, <1>a DEF GoneEnd, GoneClaims, TypeOK
<1>5. ASSUME NEW c \in Devs, NEW j \in Itfs, NEW a, ClaimResult(c, j, a), UNCHANGED hub
      PROVE  Agree(d, i)'
  <2>1. CASE UNCHANGED <<idf, claims>>
    BY <2>1, <1>5, <1>a
  <2>2. CASE ~UNCHANGED <<idf, claims>>
    <3>1. /\ hub[c] = "open" /\ idf' = [idf EXCEPT ![c] = @ \cup {j}]
          /\ claims' = [claims EXCEPT ![c][j] = a]
      BY <2>2, <1>5 DEF ClaimResult
    <3> QED BY <3>1, <1>5, <1>a DEF TypeOK
  <2> QED BY <2>1, <2>2
<1>6. CASE ClaimAgain
  <2>1. call.dev \in Devs /\ call.itf \in Itfs
    BY <1>6 DEF ClaimAgain, Dropping, WaitsMatch
  <2>2. /\ claims' = [claims EXCEPT ![call.dev][call.itf] = None] /\ UNCHANGED hub
        /\ \A c \in Devs : idf[c] \ (IF c = call.dev THEN {call.itf} ELSE {}) \subseteq idf'[c]
    BY <1>6 DEF ClaimAgain, LibRelease, TypeOK
  <2> QED BY <2>1, <2>2, <1>a DEF TypeOK
<1>7. CASE ReleaseTry
  <2>1. call.dev \in Devs /\ call.itf \in Itfs
    BY <1>7 DEF ReleaseTry, Dropping, WaitsMatch
  <2>2. CASE LibReleases(call.dev, call.itf)
    <3>1. /\ claims' = [claims EXCEPT ![call.dev][call.itf] = None] /\ UNCHANGED hub
          /\ idf' = [idf EXCEPT ![call.dev] = @ \ {call.itf}]
      BY <1>7, <2>2 DEF ReleaseTry, Released, LibRelease
    <3> QED BY <2>1, <3>1, <1>a DEF TypeOK
  <2>3. CASE ~LibReleases(call.dev, call.itf)
    BY <1>7, <2>3, <1>a DEF ReleaseTry, LibRelease
  <2> QED BY <2>2, <2>3
<1>8. CASE ReleaseRetry
  <2>1. call.dev \in Devs /\ call.itf \in Itfs
    BY <1>8 DEF ReleaseRetry, WaitsMatch
  <2>2. CASE UNCHANGED claims
    BY <1>8, <2>2, <1>a DEF ReleaseRetry
  <2>3. CASE ~UNCHANGED claims
    <3>1. claims' = [claims EXCEPT ![call.dev][call.itf] = None] /\ UNCHANGED <<hub, idf>>
      BY <1>8, <2>3 DEF ReleaseRetry, Released
    <3> QED BY <2>1, <3>1, <1>a DEF TypeOK
  <2> QED BY <2>2, <2>3
<1>9. CASE ClaimEnds
  BY <1>9, <1>5 DEF ClaimEnds, WaitsMatch
<1>10. CASE BusNext
  BY <1>10, <1>1, <1>2 DEF BusNext, Complete, Callback, CtrlCb, EpCb
<1>11. CASE GoneNext
  BY <1>11, <1>1, <1>3, <1>4 DEF GoneNext, GoneDrop, GoneWaited
<1>12. CASE WaitNext
  BY <1>12, <1>1 DEF WaitNext, WaitTake, WaitExpire, WaitOnDeleted
<1>13. CASE CtrlNext
  BY <1>13, <1>1 DEF CtrlNext, CtrlRefused, Refuse, Ctrl, CtrlDone, CtrlAbandon
<1>14. CASE EpNext
  <2>1. UNCHANGED <<claims, idf, hub>>
    <3>1. ASSUME NEW q, EpRefused(q) \/ EpNull(q) \/ EpNoMemory(q) \/ EpSubmitFails(q)
          PROVE  UNCHANGED <<claims, idf, hub>>
      BY <3>1 DEF EpRefused, EpNull, EpNoMemory, EpSubmitFails, Refuse
    <3>2. ASSUME NEW q, NEW k, NEW f, EpPickUp(q, k, f) \/ EpSubmit(q, k, f)
          PROVE  UNCHANGED <<claims, idf, hub>>
      BY <3>2 DEF EpPickUp, EpSubmit, StartEp
    <3>3. EpDone \/ EpKeep \/ EpRetire \/ EpRetired => UNCHANGED <<claims, idf, hub>>
      BY DEF EpDone, EpKeep, EpRetire, EpRetired
    <3> QED BY <1>14, <3>1, <3>2, <3>3 DEF EpNext
  <2> QED BY <2>1, <1>1
<1>15. CASE ClaimNext
  <2>1. ASSUME NEW c \in Devs, NEW j \in Itfs,
               ReleaseNothing(c, j) \/ Release(c, j)
               \/ \E a \in Alts : ClaimRefused(c, j, a) \/ ClaimFresh(c, j, a) \/ ClaimOther(c, j, a)
        PROVE  Agree(d, i)'
    <3>1. CASE UNCHANGED <<claims, idf, hub>>
      BY <3>1, <1>1
    <3>2. CASE ~UNCHANGED <<claims, idf, hub>>
      <4>1. \E a \in Alts : ClaimFresh(c, j, a)
        BY <2>1, <3>2 DEF ReleaseNothing, Refuse, Release, ClaimRefused, ClaimOther
      <4> QED BY <4>1, <1>5 DEF ClaimFresh
    <3> QED BY <3>1, <3>2
  <2>2. CASE Close \/ CloseNext \/ DropWaited \/ \E q \in Pipes : DropNext(q)
    BY <2>2, <1>1 DEF Close, CloseNext, DropWaited, DropNext
  <2> QED BY <1>15, <2>1, <2>2, <1>6, <1>7, <1>8, <1>9 DEF ClaimNext
<1>16. CASE UNCHANGED vars
  BY <1>16, <1>1 DEF vars
<1> QED BY <1>10, <1>11, <1>12, <1>13, <1>14, <1>15, <1>16 DEF Next

\* The table never runs ahead of the library.
LEMMA ClaimsInductive == Spec => []ClaimsIInv
<1>1. Init => ClaimsIInv
  BY DEF Init, ClaimsIInv, ClaimsAgree, GoneLeavesNoClaim, TableClaims
<1>2. IInv /\ ClaimsIInv /\ [Next]_vars => ClaimsIInv'
  BY ClaimsStep DEF IInv
<1> QED BY <1>1, <1>2, Inductive, PTL DEF Spec

\* usbif_xfer_claims holds no claim that the library does not.
THEOREM TableAgrees == Spec => []ClaimsAgree
<1>1. ClaimsIInv => ClaimsAgree
  BY DEF ClaimsIInv
<1> QED BY <1>1, ClaimsInductive, PTL

\* A closed device has no claim, so a handle used again starts with none.
THEOREM NoClaimOfTheGone == Spec => []GoneLeavesNoClaim
<1>1. ClaimsIInv => GoneLeavesNoClaim
  BY DEF ClaimsIInv
<1> QED BY <1>1, ClaimsInductive, PTL

\* HostXfer implements the contract: a step changes the owner of at most one
\* transfer, and only the way TransferContract lets it change.
Bar == [x \in Xfers |-> Owner(x)]
ContractStep == Contract!Next \/ UNCHANGED Bar

MayBecome(v, w) ==
  \/ v = "free" /\ w \in {"caller", "library"}
  \/ v = "caller" /\ w \in {"free", "library"}
  \/ v = "library" /\ w \in {"caller", "abandoned"}
  \/ v = "abandoned" /\ w = "free"

\* A step that changes one transfer's owner along the contract is a step of
\* the contract.
LEMMA OneChange ==
  ASSUME TypeOK, NEW x \in Xfers, \A y \in Xfers : y # x => xfers'[y] = xfers[y],
         Owner(x)' = Owner(x) \/ MayBecome(Owner(x), Owner(x)')
  PROVE  ContractStep
<1>1. \A y \in Xfers : y # x => Owner(y)' = Owner(y)
  BY DEF Owner, InLibrary
<1> DEFINE v == Owner(x)
           w == Owner(x)'
<1>2. Bar[x] = v /\ Bar' = [Bar EXCEPT ![x] = w]
  <2>1. Bar' = [y \in Xfers |-> Owner(y)'] /\ Bar = [y \in Xfers |-> Owner(y)]
    BY DEF Bar
  <2> QED BY <2>1, <1>1
<1> HIDE DEF v, w
<1>3. CASE w = v
  <2>1. Bar' = Bar
    BY <1>2, <1>3 DEF Bar
  <2> QED BY <2>1 DEF ContractStep
<1>4. CASE MayBecome(v, w)
  BY <1>2, <1>4
     DEF MayBecome, ContractStep, Bar, Contract!Next, Contract!Alloc, Contract!Submit,
         Contract!Retire, Contract!Release, Contract!GiveUp, Contract!RetireAbandoned,
         Contract!Becomes
<1> QED BY <1>3, <1>4 DEF v, w

\* Going from queued to done changes no owner.
LEMMA NoChange ==
  ASSUME TypeOK,
         \A x \in Xfers :
           /\ xfers'[x].tag = xfers[x].tag
           /\ \/ xfers'[x].st = xfers[x].st
              \/ xfers[x].st = "queued" /\ xfers'[x].st = "done"
  PROVE  ContractStep
<1>1. \A x \in Xfers : Owner(x)' = Owner(x)
  <2> SUFFICES ASSUME NEW x \in Xfers PROVE Owner(x)' = Owner(x)
    OBVIOUS
  <2>1. xfers[x].st \in XferStates
    BY DEF TypeOK, XferType
  <2> QED BY <2>1 DEF Owner, InLibrary, XferStates
<1> QED BY <1>1 DEF Bar, ContractStep

\* A step that leaves the transfers alone stutters in the contract.
LEMMA SameXfers == ASSUME TypeOK, UNCHANGED xfers PROVE ContractStep
  BY NoChange

\* usbif_xfer_drop_pipes and usbif_xfer_pipe free what their pipe owned.
LEMMA FreeChange ==
  ASSUME TypeOK, NEW x \in Xfers \cup {None}, xfers' = Freed(x), x # None => xfers[x].st = "caller"
  PROVE  ContractStep
<1>1. CASE x = None
  BY <1>1, SameXfers DEF Freed
<1>2. CASE x # None
  <2>1. xfers'[x] = FreeXfer /\ \A y \in Xfers : y # x => xfers'[y] = xfers[y]
    BY <1>2 DEF Freed, TypeOK
  <2>2. Owner(x) = "caller" /\ Owner(x)' = "free"
    BY <1>2, <2>1 DEF Owner, InLibrary, FreeXfer
  <2> QED BY <1>2, <2>1, <2>2, OneChange DEF MayBecome
<1> QED BY <1>1, <1>2

\* Dropping a pipe releases its transfer or leaks it.
LEMMA DropChange ==
  ASSUME TypeOK, Owned, NEW q \in Pipes, NEW more, DropOrLeak(q, more) PROVE ContractStep
<1>1. CASE pipes[q].busy
  BY <1>1, SameXfers DEF DropOrLeak
<1>2. CASE ~pipes[q].busy
  <2>1. pipes[q].xfer \in Xfers \cup {None}
    BY DEF TypeOK, PipeType
  <2>2. pipes[q].xfer # None => xfers[pipes[q].xfer].st = "caller"
    BY <1>2 DEF Owned, PipeOwns
  <2> QED BY <1>2, <2>1, <2>2, FreeChange DEF DropOrLeak
<1> QED BY <1>1, <1>2

\* The bus and the callbacks take steps of the contract.
LEMMA BusChange == ASSUME TypeOK, Owned, BusNext PROVE ContractStep
<1>1. ASSUME NEW x \in Xfers, Complete(x) PROVE ContractStep
  <2>1. PICK s : xfers' = [xfers EXCEPT ![x].st = "done", ![x].status = s,
                                        ![x].unread = (s = "ok") /\ In(xfers[x].at)]
    BY <1>1 DEF Complete
  <2> DEFINE b == (s = "ok") /\ In(xfers[x].at)
             t == [xfers[x] EXCEPT !.st = "done", !.status = s, !.unread = b]
  <2>2. t.st = "done" /\ t.tag = xfers[x].tag
    <3> HIDE DEF b
    <3> QED BY DEF TypeOK, XferType
  <2>3. xfers' = [xfers EXCEPT ![x] = t]
    BY <2>1
  <2> HIDE DEF t
  <2> QED BY <2>2, <2>3, <1>1, NoChange DEF TypeOK, Complete
<1>2. ASSUME NEW x \in Xfers, Callback(x) PROVE ContractStep
  <2> DEFINE t == [xfers[x] EXCEPT !.st = "caller"]
  <2>1. xfers[x].st = "done"
    BY <1>2 DEF Callback
  <2>2. CASE xfers[x].tag
    <3>1. xfers' = Freed(x) /\ x # None
      <4>1. ~(xfers[x].at \in Pipes /\ pipes[xfers[x].at].xfer = x)
        BY <2>2, ConstantsOK DEF Owned, PipeOwns
      <4> QED BY <4>1, <1>2, <2>1, <2>2, ConstantsOK
              DEF Callback, CtrlCb, Owned, LibraryOwns, InLibrary
    <3>2. xfers'[x] = FreeXfer /\ \A y \in Xfers : y # x => xfers'[y] = xfers[y]
      BY <3>1 DEF Freed, TypeOK
    <3>3. Owner(x) = "abandoned" /\ Owner(x)' = "free"
      BY <2>1, <2>2, <3>2 DEF Owner, InLibrary, FreeXfer
    <3> QED BY <3>2, <3>3, OneChange DEF MayBecome
  <2>3. CASE ~xfers[x].tag
    <3>1. xfers' = [xfers EXCEPT ![x] = t]
      BY <1>2, <2>3 DEF Callback, CtrlCb, EpCb
    <3>2. t.st = "caller"
      BY DEF TypeOK, XferType
    <3> HIDE DEF t
    <3>3. xfers'[x] = t /\ \A y \in Xfers : y # x => xfers'[y] = xfers[y]
      BY <3>1 DEF TypeOK
    <3>4. Owner(x) = "library" /\ Owner(x)' = "caller"
      BY <2>1, <2>3, <3>2, <3>3 DEF Owner, InLibrary
    <3> QED BY <3>3, <3>4, OneChange DEF MayBecome
  <2> QED BY <2>2, <2>3
<1>3. ASSUME NEW d \in Devs, Unplug(d) PROVE ContractStep
  <2>1. \A y \in Xfers :
          /\ xfers'[y].tag = xfers[y].tag
          /\ \/ xfers'[y].st = xfers[y].st
             \/ xfers[y].st = "queued" /\ xfers'[y].st = "done"
    BY <1>3, UnplugMoves
  <2> QED BY <2>1, NoChange
<1>4. ASSUME NEW d \in Devs, NewDev(d) PROVE ContractStep
  BY <1>4, SameXfers DEF NewDev
<1> QED BY <1>1, <1>2, <1>3, <1>4 DEF BusNext

\* DEV_GONE takes steps of the contract.
LEMMA GoneChange == ASSUME TypeOK, WaitsMatch, Owned, GoneNext PROVE ContractStep
<1>1. ASSUME NEW h, NEW d, GoneBegin(h, d) PROVE ContractStep
  BY <1>1, SameXfers DEF GoneBegin
<1>2. ASSUME NEW h, NEW q \in Pipes, GoneDrop(h, q) PROVE ContractStep
  BY <1>2, SameXfers, DropChange DEF GoneDrop, DropUsed
<1>3. ASSUME NEW h \in Handlers, GoneWaited(h) PROVE ContractStep
  BY <1>3, DropChange DEF GoneWaited, CanResume, WaitsMatch
<1>4. ASSUME NEW h, GoneEnd(h) PROVE ContractStep
  BY <1>4, SameXfers DEF GoneEnd
<1> QED BY <1>1, <1>2, <1>3, <1>4 DEF GoneNext

\* usbif_xfer_ctrl takes steps of the contract.
LEMMA CtrlChange == ASSUME TypeOK, Owned, CtrlNext PROVE ContractStep
<1>1. ASSUME NEW d, CtrlRefused(d) PROVE ContractStep
  BY <1>1, SameXfers DEF CtrlRefused
<1>2. ASSUME NEW d \in Devs, NEW f, Ctrl(d, f) PROVE ContractStep
  <2> DEFINE t == Armed(<<d, Ep0>>)
  <2>1. PICK x \in Free : xfers' = [xfers EXCEPT ![x] = t]
    BY <1>2 DEF Ctrl
  <2>2. t.st = "queued" /\ ~t.tag
    BY DEF Armed, FreeXfer
  <2> HIDE DEF t
  <2>3. /\ x \in Xfers /\ xfers[x].st = "free" /\ xfers'[x] = t
        /\ \A y \in Xfers : y # x => xfers'[y] = xfers[y]
    BY <2>1 DEF TypeOK, Free
  <2>4. Owner(x) = "free" /\ Owner(x)' = "library"
    BY <2>2, <2>3 DEF Owner, InLibrary
  <2> QED BY <2>3, <2>4, OneChange DEF MayBecome
<1>3. CASE CtrlDone
  <2>1. cur \in Xfers /\ xfers[cur].st = "caller" /\ xfers' = Freed(cur)
    BY <1>3 DEF CtrlDone, Owned, CtrlOwns
  <2> QED BY <2>1, FreeChange
<1>4. CASE CtrlAbandon
  <2> DEFINE x == cur
             t == [xfers[x] EXCEPT !.tag = TRUE]
  <2>1. x \in Xfers /\ ~xfers[x].tag /\ xfers[x].st # "free" /\ xfers' = [xfers EXCEPT ![x] = t]
    BY <1>4 DEF CtrlAbandon, Owned, CtrlOwns
  <2>2. t.tag /\ t.st = xfers[x].st /\ xfers[x].st \in XferStates
    BY <2>1 DEF TypeOK, XferType
  <2> HIDE DEF t
  <2>3. xfers'[x] = t /\ \A y \in Xfers : y # x => xfers'[y] = xfers[y]
    BY <2>1 DEF TypeOK
  <2> SUFFICES ASSUME NEW y \in Xfers, y = x PROVE ContractStep
    BY <2>1
  <2>4. \/ Owner(y) = "caller" /\ Owner(y)' = "caller"
        \/ Owner(y) = "library" /\ Owner(y)' = "abandoned"
    BY <2>1, <2>2, <2>3 DEF Owner, InLibrary, XferStates
  <2> QED BY <2>3, <2>4, OneChange DEF MayBecome
<1> QED BY <1>1, <1>2, <1>3, <1>4 DEF CtrlNext

\* usbif_xfer_ep takes steps of the contract.
LEMMA EpChange == ASSUME TypeOK, WaitsMatch, Owned, EpNext PROVE ContractStep
<1>1. ASSUME NEW q, EpRefused(q) \/ EpNull(q) PROVE ContractStep
  BY <1>1, SameXfers DEF EpRefused, EpNull
<1>2. ASSUME NEW q \in Pipes, EpNoMemory(q) PROVE ContractStep
  <2>1. pipes[q].xfer \in Xfers \cup {None} /\ xfers' = Freed(pipes[q].xfer)
    BY <1>2 DEF EpNoMemory, TypeOK, PipeType
  <2>2. pipes[q].xfer # None => xfers[pipes[q].xfer].st = "caller"
    BY <1>2 DEF EpNoMemory, EpReady, Busy, Owned, PipeOwns, NoPipe
  <2> QED BY <2>1, <2>2, FreeChange
\* usbif_xfer_ep takes a pipe's own transfer, which is the caller's, or a
\* free one.
<1>3. ASSUME NEW q \in Pipes, NEW x \in EpXfer(q), NEW t, ~Busy(q),
             xfers' = [xfers EXCEPT ![x] = t], ~t.tag, t.st \in {"caller", "queued"}
      PROVE  ContractStep
  <2>1. x \in Xfers /\ xfers[x].st \in {"free", "caller"}
    BY <1>3, ConstantsOK DEF EpXfer, Reusable, Free, Busy, TypeOK, PipeType, Owned, PipeOwns
  <2>2. xfers'[x] = t /\ \A y \in Xfers : y # x => xfers'[y] = xfers[y]
    BY <2>1, <1>3 DEF TypeOK
  <2>3. Owner(x) = xfers[x].st /\ Owner(x)' = (IF t.st = "caller" THEN "caller" ELSE "library")
    BY <1>3, <2>1, <2>2 DEF Owner, InLibrary
  <2> QED BY <1>3, <2>1, <2>2, <2>3, OneChange DEF MayBecome
<1>4. ASSUME NEW q \in Pipes, EpSubmitFails(q) PROVE ContractStep
  <2> DEFINE t == [Armed(q) EXCEPT !.st = "caller"]
  <2>1. PICK x \in EpXfer(q) : xfers' = [xfers EXCEPT ![x] = t]
    BY <1>4 DEF EpSubmitFails
  <2>2. ~t.tag /\ t.st = "caller" /\ ~Busy(q)
    BY <1>4 DEF Armed, FreeXfer, EpSubmitFails, EpReady
  <2> HIDE DEF t
  <2> QED BY <2>1, <2>2, <1>3
<1>5. ASSUME NEW q \in Pipes, NEW k, NEW f, EpSubmit(q, k, f) PROVE ContractStep
  <2> DEFINE t == Armed(q)
  <2>1. PICK x \in EpXfer(q) : xfers' = [xfers EXCEPT ![x] = t]
    BY <1>5 DEF EpSubmit
  <2>2. ~t.tag /\ t.st = "queued" /\ ~Busy(q)
    BY <1>5 DEF Armed, FreeXfer, EpSubmit, EpReady
  <2> HIDE DEF t
  <2> QED BY <2>1, <2>2, <1>3
<1>6. ASSUME NEW q, NEW k, NEW f, EpPickUp(q, k, f) PROVE ContractStep
  BY <1>6, SameXfers DEF EpPickUp
<1>7. CASE EpDone \/ EpKeep \/ EpRetired
  <2>1. PICK r : EpResult(r)
    BY <1>7 DEF EpDone, EpKeep, EpRetired
  <2> DEFINE b == xfers[cur].unread /\ r # "data"
             t == [xfers[cur] EXCEPT !.unread = b, !.status = "ok"]
  <2>2. xfers' = [xfers EXCEPT ![cur] = t]
    BY <2>1 DEF EpResult
  <2>3. cur \in Xfers => t.tag = xfers[cur].tag /\ t.st = xfers[cur].st
    <3> HIDE DEF b
    <3> QED BY DEF TypeOK, XferType
  <2> HIDE DEF t
  <2> QED BY <2>2, <2>3, NoChange DEF TypeOK
<1>8. CASE EpRetire
  BY <1>8, FlushedMoves, NoChange DEF EpRetire
<1> QED BY <1>1, <1>2, <1>4, <1>5, <1>6, <1>7, <1>8 DEF EpNext

\* claim, release and close take steps of the contract.
LEMMA ClaimChange == ASSUME TypeOK, WaitsMatch, Owned, ClaimNext PROVE ContractStep
<1>1. ASSUME NEW q \in Pipes, DropNext(q) PROVE ContractStep
  <2>1. CASE pipes[q].busy
    BY <1>1, <2>1, FlushedMoves, NoChange DEF DropNext
  <2>2. CASE ~pipes[q].busy
    BY <1>1, <2>2, SameXfers, DropChange DEF DropNext, DropUsed
  <2> QED BY <2>1, <2>2
<1>2. CASE DropWaited
  BY <1>2, DropChange DEF DropWaited, CanResume, WaitsMatch
<1>3. ASSUME NEW d, NEW i,
             ReleaseNothing(d, i) \/ Release(d, i)
             \/ \E a \in Alts : ClaimRefused(d, i, a) \/ ClaimFresh(d, i, a) \/ ClaimOther(d, i, a)
      PROVE  ContractStep
  BY <1>3, SameXfers DEF ReleaseNothing, Release, ClaimRefused, ClaimFresh, ClaimOther
<1>4. CASE Close \/ CloseNext \/ ClaimAgain \/ ClaimEnds \/ ReleaseTry \/ ReleaseRetry
  BY <1>4, SameXfers DEF Close, CloseNext, ClaimAgain, ClaimEnds, ReleaseTry, ReleaseRetry
<1> QED BY <1>1, <1>2, <1>3, <1>4 DEF ClaimNext

\* Whatever the interleaving, the transfer layer keeps the contract of the
\* library's transfers (TransferContract), abandoned ones included.
THEOREM ImplementsContract == Spec => KeepsContract
<1>1. Init => Contract!Init
  BY DEF Init, Contract!Init, Owner, FreeXfer
<1>2. IInv /\ [Next]_vars => ContractStep
  <2> SUFFICES ASSUME IInv, [Next]_vars PROVE ContractStep
    OBVIOUS
  <2>1. TypeOK /\ WaitsMatch /\ Owned
    BY DEF IInv, OwnersSafe
  <2>2. CASE Next
    <3>1. CASE WaitNext
      BY <3>1, <2>1, SameXfers DEF WaitNext, WaitTake, WaitExpire, WaitOnDeleted
    <3> QED BY <2>1, <2>2, <3>1, BusChange, GoneChange, CtrlChange, EpChange, ClaimChange DEF Next
  <2>3. CASE UNCHANGED vars
    BY <2>3, <2>1, SameXfers DEF vars
  <2> QED BY <2>2, <2>3
<1>3. ContractStep => [Contract!Next]_Bar
  BY DEF ContractStep
<1> QED BY <1>1, <1>2, <1>3, Inductive, PTL DEF Spec, KeepsContract, Contract!Spec, Bar

-----------------------------------------------------------------------------
(* More, on the ownership proved above.                                    *)
(*                                                                         *)
(* While no device is unplugged (Attached): nothing freed or deleted is    *)
(* used again and a wait is satisfied by its own transfer, because the     *)
(* pipe a call works on stays its own while the lock is given back.        *)
(*                                                                         *)
(* Always (Counted): the count that teardown reads is the number of        *)
(* transfers given up.                                                     *)
(*                                                                         *)
(* With no kept poll and callbacks that come within a retire's wait        *)
(* (Reports): the only transfer in flight or unread on a pipe is that of   *)
(* the call in progress, which hands its data over.                        *)

\* No DEV_GONE is ever queued, so no handler runs.
NoneLeaves ==
  /\ \A d \in Devs : hub[d] \in {"absent", "open"}
  /\ \A h \in Handlers : goneDev[h] = None /\ wait[h] = "none"

\* The device, the pipe and the transfer of the call in progress are there.
CallHolds ==
  /\ pc \in {"ep", "retire", "drop", "claim", "release"} => hub[call.dev] = "open"
  /\ pc \in {"ep", "retire"} =>
       /\ on["call"] = Target /\ pipes[Target].used /\ pipes[Target].xfer = cur
       /\ wait["call"] \in {"waiting", "got", "late"}
  /\ pc = "drop" /\ wait["call"] # "none" => pipes[on["call"]].used

\* A pipe that was handed out keeps its transfer; a semaphore that was given
\* was given by the callback that ended the transfer in flight.
PipesReady ==
  \A q \in Pipes :
    /\ pipes[q].sized => pipes[q].xfer # None
    /\ pipes[q].sem = 1 => ~pipes[q].busy
GotIsDone == pc = "ep" /\ wait["call"] = "got" => ~pipes[Target].busy

Attached == NoneLeaves /\ CallHolds /\ PipesReady /\ GotIsDone /\ MemorySafe

\* A transfer that was given up is not a free block: its count stands until
\* its callback frees it.
TaggedHeld == \A x \in Xfers : xfers[x].tag => xfers[x].st # "free"

\* What a call holds it keeps when nobody takes the device or the pipe away.
LEMMA CallStillHolds ==
  ASSUME CallHolds, WaitsMatch, UNCHANGED <<hub, pc, call, cur, on>>,
         \A q \in Pipes : pipes'[q].used = pipes[q].used /\ pipes'[q].xfer = pipes[q].xfer,
         \/ wait'["call"] = wait["call"]
         \/ wait["call"] = "waiting" /\ wait'["call"] \in {"got", "late"}
  PROVE  CallHolds'
<1>1. pc \in {"ep", "retire"} => Target \in Pipes /\ Target' = Target
  BY DEF WaitsMatch, Target
<1>2. pc = "drop" /\ wait["call"] # "none" => on["call"] \in Pipes
  BY DEF WaitsMatch
<1> QED BY <1>1, <1>2 DEF CallHolds

\* The bus ends a transfer; its callback has yet to run.
LEMMA CompleteSafe ==
  ASSUME TypeOK, WaitsMatch, OwnersSafe, Attached, ClaimsIInv, ~Unplugs, ~AllocFails,
         NEW x \in Xfers, Complete(x)
  PROVE  Attached'
<1>1. NoneLeaves'
  BY DEF Attached, waitVars, goneVars, Complete, NoneLeaves
<1>2. CallHolds'
  BY DEF Attached, callVars, waitVars, tableVars, Complete, CallHolds, Target
<1>3. PipesReady'
  BY DEF Attached, tableVars, Complete, PipesReady
<1>4. GotIsDone'
  BY DEF Attached, callVars, waitVars, tableVars, Complete, GotIsDone, Target
<1>5. MemorySafe'
  BY DEF Attached, Complete, MemorySafe
<1> QED BY <1>1, <1>2, <1>3, <1>4, <1>5 DEF Attached

\* The callback clears busy before it gives the semaphore.
LEMMA CallbackSafe ==
  ASSUME TypeOK, WaitsMatch, OwnersSafe, Attached, ClaimsIInv, ~Unplugs, ~AllocFails,
         NEW x \in Xfers, Callback(x)
  PROVE  Attached'
<1>1. NoneLeaves'
  BY DEF Attached, waitVars, goneVars, Callback, NoneLeaves
<1>2. CallHolds'
  <2>1. \A q \in Pipes : pipes'[q].used = pipes[q].used /\ pipes'[q].xfer = pipes[q].xfer
    BY DEF Callback, CtrlCb, EpCb, TypeOK, PipeType, ctrlVars
  <2> QED BY <2>1, CallStillHolds DEF Callback, callVars, waitVars, Attached
<1>3. PipesReady'
  BY DEF Attached, OwnersSafe, Callback, PipesReady, TypeOK, PipeType, CtrlCb, EpCb, Freed
<1>4. GotIsDone'
  BY DEF Attached, callVars, waitVars, goneVars, Callback, GotIsDone, Target, TypeOK,
     PipeType, WaitsMatch, CtrlCb, EpCb
<1>5. MemorySafe'
  BY DEF Attached, Callback, MemorySafe
<1> QED BY <1>1, <1>2, <1>3, <1>4, <1>5 DEF Attached

\* A device opens; it has no pipe yet.
LEMMA NewDevSafe ==
  ASSUME TypeOK, WaitsMatch, OwnersSafe, Attached, ClaimsIInv, ~Unplugs, ~AllocFails,
         NEW d \in Devs, NewDev(d)
  PROVE  Attached'
<1>1. NoneLeaves'
  BY DEF Attached, waitVars, goneVars, NewDev, NoneLeaves
<1>2. CallHolds'
  BY DEF Attached, callVars, waitVars, tableVars, NewDev, CallHolds, Target
<1>3. PipesReady'
  BY DEF Attached, tableVars, NewDev, PipesReady
<1>4. GotIsDone'
  BY DEF Attached, callVars, waitVars, tableVars, NewDev, GotIsDone, Target
<1>5. MemorySafe'
  BY DEF Attached, NewDev, MemorySafe
<1> QED BY <1>1, <1>2, <1>3, <1>4, <1>5 DEF Attached

\* A wait takes a semaphore that was given: its pipe is not busy.
LEMMA WaitTakeSafe ==
  ASSUME TypeOK, WaitsMatch, OwnersSafe, Attached, ClaimsIInv, ~Unplugs, ~AllocFails,
         NEW w \in Waiters, WaitTake(w)
  PROVE  Attached'
<1>1. NoneLeaves'
  BY DEF Attached, goneVars, WaitTake, NoneLeaves, Waiting
<1>2. CallHolds'
  <2>1. \A q \in Pipes : pipes'[q].used = pipes[q].used /\ pipes'[q].xfer = pipes[q].xfer
    <3>1. UNCHANGED pipes \/ (on[w] \in Pipes /\ pipes' = [pipes EXCEPT ![on[w]].sem = 0])
      BY DEF WaitTake, OnPipe
    <3> QED BY <3>1 DEF TypeOK, PipeType
  <2>2. \/ wait'["call"] = wait["call"]
        \/ wait["call"] = "waiting" /\ wait'["call"] \in {"got", "late"}
    BY DEF WaitTake, Waiting
  <2> QED BY <2>1, <2>2, CallStillHolds DEF WaitTake, callVars, Attached
<1>3. PipesReady'
  BY DEF Attached, WaitTake, PipesReady, TypeOK, PipeType, SemValue
<1>4. GotIsDone'
  <2>1. SUFFICES ASSUME pc = "ep", wait'["call"] = "got" PROVE ~pipes'[Target].busy
    BY DEF GotIsDone, WaitTake, callVars, Target
  <2>2. Target \in Pipes /\ on["call"] = Target /\ ~pipes[Target].busy
    BY <2>1 DEF WaitTake, OnPipe, SemValue, WaitsMatch, Attached, CallHolds, GotIsDone,
       PipesReady
  <2> QED BY <2>2 DEF WaitTake, TypeOK, PipeType
<1>5. MemorySafe'
  BY DEF Attached, WaitTake, MemorySafe
<1> QED BY <1>1, <1>2, <1>3, <1>4, <1>5 DEF Attached

\* A wait's time runs out.
LEMMA WaitExpireSafe ==
  ASSUME TypeOK, WaitsMatch, OwnersSafe, Attached, ClaimsIInv, ~Unplugs, ~AllocFails,
         NEW w \in Waiters, WaitExpire(w)
  PROVE  Attached'
<1>1. NoneLeaves'
  BY DEF Attached, goneVars, WaitExpire, NoneLeaves, Waiting
<1>2. CallHolds'
  BY DEF Attached, callVars, tableVars, WaitExpire, CallHolds, Target, Waiting
<1>3. PipesReady'
  BY DEF Attached, tableVars, WaitExpire, PipesReady
<1>4. GotIsDone'
  BY DEF Attached, callVars, tableVars, WaitExpire, GotIsDone, Target
<1>5. MemorySafe'
  BY DEF Attached, WaitExpire, MemorySafe
<1> QED BY <1>1, <1>2, <1>3, <1>4, <1>5 DEF Attached

\* usbif_xfer_ctrl refuses.
LEMMA CtrlRefusedSafe ==
  ASSUME TypeOK, WaitsMatch, OwnersSafe, Attached, ClaimsIInv, ~Unplugs, ~AllocFails,
         NEW d \in Devs, CtrlRefused(d)
  PROVE  Attached'
<1>1. NoneLeaves'
  BY DEF Attached, waitVars, goneVars, CtrlRefused, NoneLeaves, Refuse
<1>2. CallHolds'
  BY DEF CtrlRefused, CallHolds, Idle, Refuse
<1>3. PipesReady'
  BY DEF Attached, tableVars, CtrlRefused, PipesReady
<1>4. GotIsDone'
  BY DEF CtrlRefused, GotIsDone, Idle, Refuse
<1>5. MemorySafe'
  BY DEF Attached, CtrlRefused, MemorySafe
<1> QED BY <1>1, <1>2, <1>3, <1>4, <1>5 DEF Attached

\* usbif_xfer_ctrl submits on an open device.
LEMMA CtrlSafeStart ==
  ASSUME TypeOK, WaitsMatch, OwnersSafe, Attached, ClaimsIInv, ~Unplugs, ~AllocFails,
         NEW d \in Devs, NEW f, Ctrl(d, f)
  PROVE  Attached'
<1>1. NoneLeaves'
  BY DEF Attached, goneVars, Ctrl, NoneLeaves, Handlers, StartWait
<1>2. CallHolds'
  BY DEF Ctrl, CallHolds
<1>3. PipesReady'
  BY DEF Attached, tableVars, Ctrl, PipesReady
<1>4. GotIsDone'
  BY DEF Ctrl, GotIsDone
<1>5. MemorySafe'
  BY DEF Attached, Ctrl, MemorySafe
<1> QED BY <1>1, <1>2, <1>3, <1>4, <1>5 DEF Attached

\* usbif_xfer_ctrl frees the transfer its callback handed back.
LEMMA CtrlDoneSafe ==
  ASSUME TypeOK, WaitsMatch, OwnersSafe, Attached, ClaimsIInv, ~Unplugs, ~AllocFails,
         CtrlDone
  PROVE  Attached'
<1>1. NoneLeaves'
  BY DEF Attached, goneVars, CtrlDone, NoneLeaves, StopWait
<1>2. CallHolds'
  BY DEF CtrlDone, CallHolds, Return
<1>3. PipesReady'
  BY DEF Attached, tableVars, CtrlDone, PipesReady
<1>4. GotIsDone'
  BY DEF CtrlDone, GotIsDone, Return
<1>5. MemorySafe'
  BY DEF Attached, OwnersSafe, Owned, CtrlDone, MemorySafe, CtrlOwns, FreeFault
<1> QED BY <1>1, <1>2, <1>3, <1>4, <1>5 DEF Attached

\* usbif_host_ctrl_abandon leaves the transfer to its callback.
LEMMA CtrlAbandonSafe ==
  ASSUME TypeOK, WaitsMatch, OwnersSafe, Attached, ClaimsIInv, ~Unplugs, ~AllocFails,
         CtrlAbandon
  PROVE  Attached'
<1>1. NoneLeaves'
  BY DEF Attached, goneVars, CtrlAbandon, NoneLeaves, StopWait
<1>2. CallHolds'
  BY DEF CtrlAbandon, CallHolds, Return
<1>3. PipesReady'
  BY DEF Attached, tableVars, CtrlAbandon, PipesReady
<1>4. GotIsDone'
  BY DEF CtrlAbandon, GotIsDone, StopWait
<1>5. MemorySafe'
  BY DEF Attached, CtrlAbandon, MemorySafe
<1> QED BY <1>1, <1>2, <1>3, <1>4, <1>5 DEF Attached

\* usbif_xfer_ep refuses.
LEMMA EpRefusedSafe ==
  ASSUME TypeOK, WaitsMatch, OwnersSafe, Attached, ClaimsIInv, ~Unplugs, ~AllocFails,
         NEW q \in Pipes, EpRefused(q)
  PROVE  Attached'
<1>1. NoneLeaves'
  BY DEF Attached, waitVars, goneVars, EpRefused, NoneLeaves, Refuse
<1>2. CallHolds'
  BY DEF EpRefused, CallHolds, Idle, Refuse
<1>3. PipesReady'
  BY DEF Attached, tableVars, EpRefused, PipesReady
<1>4. GotIsDone'
  BY DEF EpRefused, GotIsDone, Idle, Refuse
<1>5. MemorySafe'
  BY DEF Attached, EpRefused, MemorySafe
<1> QED BY <1>1, <1>2, <1>3, <1>4, <1>5 DEF Attached

\* A pipe with an mps and no transfer is out of reach: every sized pipe has
\* one, as no allocation failed after it was handed out.
LEMMA EpNullSafe ==
  ASSUME TypeOK, WaitsMatch, OwnersSafe, Attached, ClaimsIInv, ~Unplugs, ~AllocFails,
         NEW q \in Pipes, EpNull(q)
  PROVE  Attached'
<1>1. NoneLeaves'
  BY DEF Attached, waitVars, goneVars, EpNull, NoneLeaves, Refuse
<1>2. CallHolds'
  BY DEF Attached, waitVars, tableVars, EpNull, CallHolds, Target, Refuse
<1>3. PipesReady'
  BY DEF Attached, EpNull, PipesReady, NullXfer
<1>4. GotIsDone'
  BY DEF Attached, EpNull, GotIsDone, PipesReady, NullXfer
<1>5. MemorySafe'
  BY DEF Attached, EpNull, MemorySafe, PipesReady, NullXfer
<1> QED BY <1>1, <1>2, <1>3, <1>4, <1>5 DEF Attached

\* Only a first allocation fails, for want of a free block: the pipe has no
\* transfer to free.
LEMMA EpNoMemorySafe ==
  ASSUME TypeOK, WaitsMatch, OwnersSafe, Attached, ClaimsIInv, ~Unplugs, ~AllocFails,
         NEW q \in Pipes, EpNoMemory(q)
  PROVE  Attached'
<1>1. NoneLeaves'
  BY DEF Attached, waitVars, goneVars, EpNoMemory, NoneLeaves, Refuse
<1>2. CallHolds'
  BY DEF EpNoMemory, CallHolds, EpReady, Refuse, Idle
<1>3. PipesReady'
  BY DEF Attached, EpNoMemory, PipesReady, TypeOK, PipeType
<1>4. GotIsDone'
  BY DEF EpNoMemory, GotIsDone, EpReady, Refuse, Idle
<1>5. MemorySafe'
  <2>1. pipes[q].xfer = None
    BY DEF EpNoMemory, Reusable, OwnersSafe, Owned, PipeOwns, NoPipe
  <2> QED BY <2>1 DEF EpNoMemory, FreeFault, Attached, MemorySafe
<1> QED BY <1>1, <1>2, <1>3, <1>4, <1>5 DEF Attached

\* A submit refused leaves the pipe its transfer, not busy.
LEMMA EpSubmitFailsSafe ==
  ASSUME TypeOK, WaitsMatch, OwnersSafe, Attached, ClaimsIInv, ~Unplugs, ~AllocFails,
         NEW q \in Pipes, EpSubmitFails(q)
  PROVE  Attached'
<1>1. NoneLeaves'
  BY DEF Attached, waitVars, goneVars, EpSubmitFails, NoneLeaves, Refuse
<1>2. CallHolds'
  BY DEF EpSubmitFails, CallHolds, EpReady, Refuse, Idle
<1>3. PipesReady'
  <2>1. PICK x \in EpXfer(q) :
         pipes' = [pipes EXCEPT ![q] = [@ EXCEPT !.used = TRUE, !.xfer = x, !.sized = TRUE,
                                                  !.sem = Drained(@)]]
    BY DEF EpSubmitFails
  <2>2. x # None
    BY ConstantsOK DEF EpXfer, Free, Reusable
  <2>3. pipes'[q].sem = 0 /\ pipes'[q].xfer = x
    BY <2>1 DEF Drained, TypeOK
  <2> QED BY <2>1, <2>2, <2>3 DEF Attached, PipesReady
<1>4. GotIsDone'
  BY DEF EpSubmitFails, GotIsDone, EpReady, Refuse, Idle
<1>5. MemorySafe'
  BY DEF Attached, EpSubmitFails, MemorySafe
<1> QED BY <1>1, <1>2, <1>3, <1>4, <1>5 DEF Attached

\* A kept poll is picked up: its pipe is there and busy.
LEMMA EpPickUpSafe ==
  ASSUME TypeOK, WaitsMatch, OwnersSafe, Attached, ClaimsIInv, ~Unplugs, ~AllocFails,
         NEW q \in Pipes, NEW k, NEW f, EpPickUp(q, k, f)
  PROVE  Attached'
<1>1. NoneLeaves'
  BY DEF Attached, goneVars, EpPickUp, NoneLeaves, Handlers, StartEp, StartWait
<1>2. CallHolds'
  BY DEF Attached, EpPickUp, NoneLeaves, CallHolds, Target, Pipes, Waiters, TypeOK, Kept,
     StartEp, StartWait, Opened, Busy
<1>3. PipesReady'
  BY DEF Attached, EpPickUp, PipesReady
<1>4. GotIsDone'
  BY DEF EpPickUp, GotIsDone, WaitsMatch, Idle, StartEp, StartWait
<1>5. MemorySafe'
  BY DEF Attached, EpPickUp, MemorySafe, StartEp
<1> QED BY <1>1, <1>2, <1>3, <1>4, <1>5 DEF Attached

\* usbif_xfer_ep submits: the pipe has the call's transfer, busy.
LEMMA EpSubmitSafe ==
  ASSUME TypeOK, WaitsMatch, OwnersSafe, Attached, ClaimsIInv, ~Unplugs, ~AllocFails,
         NEW q \in Pipes, NEW k, NEW f, EpSubmit(q, k, f)
  PROVE  Attached'
<1>1. NoneLeaves'
  BY DEF Attached, goneVars, EpSubmit, NoneLeaves, Handlers, StartEp, StartWait
<1>2. CallHolds'
  BY DEF EpSubmit, CallHolds, Target, Pipes, Waiters, TypeOK, StartEp, StartWait
<1>3. PipesReady'
  <2>1. PICK x \in EpXfer(q) :
         pipes' = [pipes EXCEPT ![q] = [used |-> TRUE, xfer |-> x, sem |-> Drained(@.sem),
                                         busy |-> TRUE, kept |-> FALSE, sized |-> TRUE]]
    BY DEF EpSubmit
  <2>2. x # None
    BY ConstantsOK DEF EpXfer, Free, Reusable
  <2> QED BY <2>1, <2>2 DEF Attached, PipesReady, Drained
<1>4. GotIsDone'
  BY DEF EpSubmit, GotIsDone, WaitsMatch, EpReady, Idle, StartEp, StartWait
<1>5. MemorySafe'
  BY DEF Attached, EpSubmit, MemorySafe, StartEp
<1> QED BY <1>1, <1>2, <1>3, <1>4, <1>5 DEF Attached

\* The completion is read from the call's own transfer, still its pipe's.
LEMMA EpDoneSafe ==
  ASSUME TypeOK, WaitsMatch, OwnersSafe, Attached, ClaimsIInv, ~Unplugs, ~AllocFails, EpDone
  PROVE  Attached'
<1>1. NoneLeaves'
  BY DEF Attached, goneVars, EpDone, NoneLeaves, EpResult, StopWait
<1>2. CallHolds'
  BY DEF EpDone, CallHolds, EpResult, Return
<1>3. PipesReady'
  BY DEF Attached, tableVars, EpDone, PipesReady
<1>4. GotIsDone'
  BY DEF EpDone, GotIsDone, EpResult, Return
<1>5. MemorySafe'
  <2>1. Target \in Pipes /\ cur \in Xfers /\ pipes[Target].xfer = cur
    BY DEF EpDone, WaitsMatch, Attached, CallHolds
  <2>2. XferFault = {}
    BY <2>1, ConstantsOK DEF XferFault, OwnersSafe, Owned, PipeOwns
  <2> QED BY <2>2 DEF EpDone, Attached, MemorySafe
<1> QED BY <1>1, <1>2, <1>3, <1>4, <1>5 DEF Attached

\* A poll's time is up, and its pipe stays armed.
LEMMA EpKeepSafe ==
  ASSUME TypeOK, WaitsMatch, OwnersSafe, Attached, ClaimsIInv, ~Unplugs, ~AllocFails, EpKeep
  PROVE  Attached'
<1>1. NoneLeaves'
  BY DEF Attached, goneVars, EpKeep, NoneLeaves, EpResult, StopWait
<1>2. CallHolds'
  BY DEF EpKeep, CallHolds, EpResult, Return
<1>3. PipesReady'
  BY DEF Attached, EpKeep, PipesReady
<1>4. GotIsDone'
  BY DEF EpKeep, GotIsDone, EpResult, StopWait
<1>5. MemorySafe'
  BY DEF Attached, EpKeep, MemorySafe
<1> QED BY <1>1, <1>2, <1>3, <1>4, <1>5 DEF Attached

\* usbif_xfer_retire halts an endpoint of an open device.
LEMMA EpRetireSafe ==
  ASSUME TypeOK, WaitsMatch, OwnersSafe, Attached, ClaimsIInv, ~Unplugs, ~AllocFails,
         EpRetire
  PROVE  Attached'
<1>1. NoneLeaves'
  BY DEF Attached, goneVars, EpRetire, NoneLeaves, Handlers, StartWait
<1>2. CallHolds'
  BY DEF Attached, tableVars, EpRetire, CallHolds, Target, Waiters, TypeOK, StartWait
<1>3. PipesReady'
  BY DEF Attached, tableVars, EpRetire, PipesReady
<1>4. GotIsDone'
  BY DEF EpRetire, GotIsDone
<1>5. MemorySafe'
  BY DEF Attached, EpRetire, MemorySafe, CallHolds, DevFault
<1> QED BY <1>1, <1>2, <1>3, <1>4, <1>5 DEF Attached

\* The data that landed late is read from the call's own transfer.
LEMMA EpRetiredSafe ==
  ASSUME TypeOK, WaitsMatch, OwnersSafe, Attached, ClaimsIInv, ~Unplugs, ~AllocFails,
         EpRetired
  PROVE  Attached'
<1>1. NoneLeaves'
  BY DEF Attached, goneVars, EpRetired, NoneLeaves, EpResult, StopWait
<1>2. CallHolds'
  BY DEF EpRetired, CallHolds, EpResult, Return
<1>3. PipesReady'
  BY DEF Attached, tableVars, EpRetired, PipesReady
<1>4. GotIsDone'
  BY DEF EpRetired, GotIsDone, EpResult, Return
<1>5. MemorySafe'
  <2>1. Target \in Pipes /\ cur \in Xfers /\ pipes[Target].xfer = cur
    BY DEF EpRetired, WaitsMatch, Attached, CallHolds
  <2>2. XferFault = {}
    BY <2>1, ConstantsOK DEF XferFault, OwnersSafe, Owned, PipeOwns
  <2>3. DevFault(call.dev) = {}
    BY DEF EpRetired, DevFault, Attached, CallHolds
  <2> QED BY <2>2, <2>3 DEF EpRetired, Attached, MemorySafe
<1> QED BY <1>1, <1>2, <1>3, <1>4, <1>5 DEF Attached

\* usbif_xfer_claim refuses.
LEMMA ClaimRefusedSafe ==
  ASSUME TypeOK, WaitsMatch, OwnersSafe, Attached, ClaimsIInv, ~Unplugs, ~AllocFails,
         NEW d \in Devs, NEW i \in Itfs, NEW a, ClaimRefused(d, i, a)
  PROVE  Attached'
<1>1. NoneLeaves'
  BY DEF Attached, waitVars, goneVars, ClaimRefused, NoneLeaves, Refuse
<1>2. CallHolds'
  BY DEF ClaimRefused, CallHolds, Idle, Refuse
<1>3. PipesReady'
  BY DEF Attached, tableVars, ClaimRefused, PipesReady
<1>4. GotIsDone'
  BY DEF ClaimRefused, GotIsDone, Idle, Refuse
<1>5. MemorySafe'
  BY DEF Attached, ClaimRefused, MemorySafe
<1> QED BY <1>1, <1>2, <1>3, <1>4, <1>5 DEF Attached

\* usbif_xfer_claim claims an interface with no pipe to drop.
LEMMA ClaimFreshSafe ==
  ASSUME TypeOK, WaitsMatch, OwnersSafe, Attached, ClaimsIInv, ~Unplugs, ~AllocFails,
         NEW d \in Devs, NEW i \in Itfs, NEW a, ClaimFresh(d, i, a)
  PROVE  Attached'
<1>1. NoneLeaves'
  BY DEF Attached, waitVars, goneVars, ClaimFresh, NoneLeaves
<1>2. CallHolds'
  BY DEF ClaimFresh, CallHolds, Idle
<1>3. PipesReady'
  BY DEF Attached, ClaimFresh, PipesReady
<1>4. GotIsDone'
  BY DEF ClaimFresh, GotIsDone, Idle
<1>5. MemorySafe'
  BY DEF Attached, ClaimFresh, MemorySafe
<1> QED BY <1>1, <1>2, <1>3, <1>4, <1>5 DEF Attached

\* usbif_xfer_claim, for another alternate setting, starts to drop pipes.
LEMMA ClaimOtherSafe ==
  ASSUME TypeOK, WaitsMatch, OwnersSafe, Attached, ClaimsIInv, ~Unplugs, ~AllocFails,
         NEW d \in Devs, NEW i \in Itfs, NEW a, ClaimOther(d, i, a)
  PROVE  Attached'
<1>1. NoneLeaves'
  BY DEF Attached, waitVars, goneVars, ClaimOther, NoneLeaves
<1>2. CallHolds'
  BY DEF Attached, waitVars, ClaimOther, NoneLeaves, CallHolds, WaitsMatch, Idle, StartDrop,
     Opened
<1>3. PipesReady'
  BY DEF Attached, tableVars, ClaimOther, PipesReady
<1>4. GotIsDone'
  BY DEF ClaimOther, GotIsDone, StartDrop
<1>5. MemorySafe'
  BY DEF Attached, ClaimOther, MemorySafe
<1> QED BY <1>1, <1>2, <1>3, <1>4, <1>5 DEF Attached

\* usbif_xfer_release has nothing to release.
LEMMA ReleaseNothingSafe ==
  ASSUME TypeOK, WaitsMatch, OwnersSafe, Attached, ClaimsIInv, ~Unplugs, ~AllocFails,
         NEW d \in Devs, NEW i \in Itfs, ReleaseNothing(d, i)
  PROVE  Attached'
<1>1. NoneLeaves'
  BY DEF Attached, waitVars, goneVars, ReleaseNothing, NoneLeaves, Refuse
<1>2. CallHolds'
  BY DEF ReleaseNothing, CallHolds, Idle, Refuse
<1>3. PipesReady'
  BY DEF Attached, tableVars, ReleaseNothing, PipesReady
<1>4. GotIsDone'
  BY DEF ReleaseNothing, GotIsDone, Idle, Refuse
<1>5. MemorySafe'
  BY DEF Attached, ReleaseNothing, MemorySafe
<1> QED BY <1>1, <1>2, <1>3, <1>4, <1>5 DEF Attached

\* usbif_xfer_release starts to drop the pipes of an open device.
LEMMA ReleaseSafe ==
  ASSUME TypeOK, WaitsMatch, OwnersSafe, Attached, ClaimsIInv, ~Unplugs, ~AllocFails,
         NEW d \in Devs, NEW i \in Itfs, Release(d, i)
  PROVE  Attached'
<1>1. NoneLeaves'
  BY DEF Attached, waitVars, goneVars, Release, NoneLeaves
<1>2. CallHolds'
  BY DEF Attached, waitVars, Release, NoneLeaves, CallHolds, WaitsMatch, Idle, StartDrop,
     Opened
<1>3. PipesReady'
  BY DEF Attached, tableVars, Release, PipesReady
<1>4. GotIsDone'
  BY DEF Release, GotIsDone, StartDrop
<1>5. MemorySafe'
  BY DEF Attached, Release, MemorySafe
<1> QED BY <1>1, <1>2, <1>3, <1>4, <1>5 DEF Attached

\* usbif_xfer_close starts.
LEMMA CloseSafe ==
  ASSUME TypeOK, WaitsMatch, OwnersSafe, Attached, ClaimsIInv, ~Unplugs, ~AllocFails, Close
  PROVE  Attached'
<1>1. NoneLeaves'
  BY DEF Attached, waitVars, goneVars, Close, NoneLeaves
<1>2. CallHolds'
  BY DEF Close, CallHolds
<1>3. PipesReady'
  BY DEF Attached, tableVars, Close, PipesReady
<1>4. GotIsDone'
  BY DEF Close, GotIsDone
<1>5. MemorySafe'
  BY DEF Attached, Close, MemorySafe
<1> QED BY <1>1, <1>2, <1>3, <1>4, <1>5 DEF Attached

\* usbif_xfer_close takes the next claim, which is of an open device.
LEMMA CloseNextSafe ==
  ASSUME TypeOK, WaitsMatch, OwnersSafe, Attached, ClaimsIInv, ~Unplugs, ~AllocFails,
         CloseNext
  PROVE  Attached'
<1>1. NoneLeaves'
  BY DEF Attached, waitVars, goneVars, CloseNext, NoneLeaves
<1>2. CallHolds'
  <2>1. CASE Return("ok")
    BY <2>1 DEF Return, CallHolds
  <2>2. ASSUME NEW c \in TableClaims, StartDrop("close", c[1], c[2], None) PROVE CallHolds'
    <3>1. c[1] \in Devs /\ hub[c[1]] = "open"
      BY <2>2 DEF TableClaims, ClaimsIInv, GoneLeavesNoClaim, Attached, NoneLeaves
    <3> QED BY <2>2, <3>1 DEF CloseNext, StartDrop, NoCall, WaitsMatch, CallHolds, callVars,
               waitVars, goneVars, tableVars, ctrlVars
  <2> QED BY <2>1, <2>2 DEF CloseNext
<1>3. PipesReady'
  BY DEF Attached, tableVars, CloseNext, PipesReady
<1>4. GotIsDone'
  BY DEF CloseNext, GotIsDone, Return, StartDrop
<1>5. MemorySafe'
  BY DEF Attached, CloseNext, MemorySafe
<1> QED BY <1>1, <1>2, <1>3, <1>4, <1>5 DEF Attached

\* The next pipe of drop_pipes: halted and awaited, or freed at once.
LEMMA DropNextSafe ==
  ASSUME TypeOK, WaitsMatch, OwnersSafe, Attached, ClaimsIInv, ~Unplugs, ~AllocFails,
         NEW q \in Pipes, DropNext(q)
  PROVE  Attached'
<1>1. NoneLeaves'
  BY DEF Attached, waitVars, goneVars, DropNext, NoneLeaves, Handlers, Waiters, TypeOK,
     StartWait
<1>2. CallHolds'
  <2>1. CASE pipes[q].busy
    <3>1. pipes[q].used
      BY <2>1 DEF OwnersSafe, Owned, PipeOwns, NoPipe
    <3>2. on'["call"] = q /\ pc' = "drop" /\ UNCHANGED <<pipes, call, hub>>
      BY <2>1 DEF DropNext, Dropping, StartWait, TypeOK, Waiters
    <3> QED BY <3>1, <3>2 DEF Attached, CallHolds, DropNext
  <2>2. CASE ~pipes[q].busy
    BY <2>2 DEF DropNext, Dropping, Attached, CallHolds, waitVars
  <2> QED BY <2>1, <2>2
<1>3. PipesReady'
  <2>1. UNCHANGED pipes \/ pipes' = [pipes EXCEPT ![q] = NoPipe]
    BY DEF DropNext, DropUsed, DropOrLeak
  <2> QED BY <2>1 DEF Attached, PipesReady, NoPipe, TypeOK
<1>4. GotIsDone'
  BY DEF DropNext, GotIsDone, Dropping
<1>5. MemorySafe'
  BY DEF Attached, OwnersSafe, Owned, DropNext, MemorySafe, CallHolds, PipeOwns, TypeOK,
     Dropping, DevFault, DropUsed, DropOrLeak, FreeFault
<1> QED BY <1>1, <1>2, <1>3, <1>4, <1>5 DEF Attached

\* The pipe drop_pipes waited for is there still: nobody else drops pipes.
LEMMA DropWaitedSafe ==
  ASSUME TypeOK, WaitsMatch, OwnersSafe, Attached, ClaimsIInv, ~Unplugs, ~AllocFails,
         DropWaited
  PROVE  Attached'
<1>1. NoneLeaves'
  BY DEF Attached, goneVars, DropWaited, NoneLeaves, StopWait
<1>2. CallHolds'
  BY DEF Attached, DropWaited, CallHolds, Waiters, TypeOK, StopWait
<1>3. PipesReady'
  BY DEF Attached, DropWaited, PipesReady, TypeOK, DropOrLeak, NoPipe
<1>4. GotIsDone'
  BY DEF DropWaited, GotIsDone
<1>5. MemorySafe'
  BY DEF Attached, OwnersSafe, Owned, DropWaited, MemorySafe, CallHolds, PipeOwns,
     WaitsMatch, CanResume, DropOrLeak, DevFault, FreeFault
<1> QED BY <1>1, <1>2, <1>3, <1>4, <1>5 DEF Attached

\* usbif_xfer_claim releases the interface once, on an open device.
LEMMA ClaimAgainSafe ==
  ASSUME TypeOK, WaitsMatch, OwnersSafe, Attached, ClaimsIInv, ~Unplugs, ~AllocFails,
         ClaimAgain
  PROVE  Attached'
<1>1. NoneLeaves'
  BY DEF Attached, waitVars, goneVars, ClaimAgain, NoneLeaves
<1>2. CallHolds'
  BY DEF Attached, ClaimAgain, CallHolds, Dropping
<1>3. PipesReady'
  BY DEF Attached, ClaimAgain, PipesReady
<1>4. GotIsDone'
  BY DEF ClaimAgain, GotIsDone
<1>5. MemorySafe'
  BY DEF Attached, ClaimAgain, MemorySafe, CallHolds, Dropping, DevFault
<1> QED BY <1>1, <1>2, <1>3, <1>4, <1>5 DEF Attached

\* usbif_xfer_claim claims again.
LEMMA ClaimEndsSafe ==
  ASSUME TypeOK, WaitsMatch, OwnersSafe, Attached, ClaimsIInv, ~Unplugs, ~AllocFails,
         ClaimEnds
  PROVE  Attached'
<1>1. NoneLeaves'
  BY DEF Attached, waitVars, goneVars, ClaimEnds, NoneLeaves
<1>2. CallHolds'
  BY DEF ClaimEnds, CallHolds
<1>3. PipesReady'
  BY DEF Attached, ClaimEnds, PipesReady
<1>4. GotIsDone'
  BY DEF ClaimEnds, GotIsDone
<1>5. MemorySafe'
  BY DEF Attached, ClaimEnds, MemorySafe
<1> QED BY <1>1, <1>2, <1>3, <1>4, <1>5 DEF Attached

\* usb_host_interface_release, on an open device.
LEMMA ReleaseTrySafe ==
  ASSUME TypeOK, WaitsMatch, OwnersSafe, Attached, ClaimsIInv, ~Unplugs, ~AllocFails,
         ReleaseTry
  PROVE  Attached'
<1>1. NoneLeaves'
  BY DEF Attached, waitVars, goneVars, ReleaseTry, NoneLeaves, Handlers, Waiters, TypeOK
<1>2. CallHolds'
  BY DEF Attached, ReleaseTry, CallHolds, Dropping, Released, Return
<1>3. PipesReady'
  BY DEF Attached, ReleaseTry, PipesReady
<1>4. GotIsDone'
  BY DEF ReleaseTry, GotIsDone, Released, Return
<1>5. MemorySafe'
  BY DEF Attached, ReleaseTry, MemorySafe, CallHolds, Dropping, DevFault
<1> QED BY <1>1, <1>2, <1>3, <1>4, <1>5 DEF Attached

\* One tick later, the second try.
LEMMA ReleaseRetrySafe ==
  ASSUME TypeOK, WaitsMatch, OwnersSafe, Attached, ClaimsIInv, ~Unplugs, ~AllocFails,
         ReleaseRetry
  PROVE  Attached'
<1>1. NoneLeaves'
  BY DEF Attached, goneVars, ReleaseRetry, NoneLeaves, StopWait
<1>2. CallHolds'
  BY DEF Attached, callVars, ReleaseRetry, CallHolds, Released, Return
<1>3. PipesReady'
  BY DEF Attached, ReleaseRetry, PipesReady
<1>4. GotIsDone'
  BY DEF ReleaseRetry, GotIsDone, StopWait
<1>5. MemorySafe'
  BY DEF Attached, ReleaseRetry, MemorySafe
<1> QED BY <1>1, <1>2, <1>3, <1>4, <1>5 DEF Attached

-----------------------------------------------------------------------------

\* The bus, the library and the callbacks.
LEMMA BusSafe ==
  ASSUME TypeOK, WaitsMatch, OwnersSafe, Attached, ClaimsIInv, ~Unplugs, ~AllocFails, BusNext
  PROVE  Attached'
<1>1. ~\E d \in Devs : Unplug(d)
  BY DEF Unplug
<1> QED BY <1>1, CompleteSafe, CallbackSafe, NewDevSafe DEF BusNext

\* No handler starts.
LEMMA NoHandler == ASSUME Attached, GoneNext PROVE FALSE
<1>1. \A d \in Devs : hub[d] # "leaving"
  BY DEF Attached, NoneLeaves
<1>2. \A h \in Handlers : goneDev[h] = None
  BY DEF Attached, NoneLeaves
<1> QED BY <1>1, <1>2 DEF GoneNext, GoneBegin, GoneDrop, GoneWaited, GoneEnd

\* Only a call waits, and the pipe it waits on is there.
LEMMA NoneOnDeleted ==
  ASSUME TypeOK, WaitsMatch, OwnersSafe, Attached, NEW w \in Waiters, WaitOnDeleted(w)
  PROVE  FALSE
<1>1. wait[w] = "waiting" /\ on[w] \in Pipes /\ ~pipes[on[w]].used
  BY DEF WaitOnDeleted, Waiting, SemGone, OnPipe
<1>2. w = "call"
  BY <1>1 DEF Attached, NoneLeaves, Waiters
<1>3. pc \in {"ctrl", "ep", "retire", "drop"}
  BY <1>1, <1>2 DEF WaitsMatch, TypeOK
<1>4. pc # "ctrl"
  BY <1>1, <1>2, KeysDisjoint DEF OwnersSafe, Owned, CtrlOwns
<1> QED BY <1>1, <1>2, <1>3, <1>4 DEF Attached, CallHolds

\* The ends of a wait: no semaphore is deleted under its waiter.
LEMMA WaitSafe ==
  ASSUME TypeOK, WaitsMatch, OwnersSafe, Attached, ClaimsIInv, ~Unplugs, ~AllocFails, WaitNext
  PROVE  Attached'
  BY NoneOnDeleted, WaitTakeSafe, WaitExpireSafe DEF WaitNext

\* usbif_xfer_ctrl.
LEMMA CtrlSafe ==
  ASSUME TypeOK, WaitsMatch, OwnersSafe, Attached, ClaimsIInv, ~Unplugs, ~AllocFails, CtrlNext
  PROVE  Attached'
  BY CtrlRefusedSafe, CtrlSafeStart, CtrlDoneSafe, CtrlAbandonSafe DEF CtrlNext

\* usbif_xfer_ep.
LEMMA EpSafe ==
  ASSUME TypeOK, WaitsMatch, OwnersSafe, Attached, ClaimsIInv, ~Unplugs, ~AllocFails, EpNext
  PROVE  Attached'
<1>1. ASSUME NEW q \in Pipes, EpRefused(q) \/ EpNull(q) \/ EpNoMemory(q) \/ EpSubmitFails(q)
      PROVE  Attached'
  BY <1>1, EpRefusedSafe, EpNullSafe, EpNoMemorySafe, EpSubmitFailsSafe
<1>2. ASSUME NEW q \in Pipes, NEW k, NEW f, EpPickUp(q, k, f) \/ EpSubmit(q, k, f)
      PROVE  Attached'
  BY <1>2, EpPickUpSafe, EpSubmitSafe
<1> QED BY <1>1, <1>2, EpDoneSafe, EpKeepSafe, EpRetireSafe, EpRetiredSafe DEF EpNext

\* claim, release and close.
LEMMA ClaimSafe ==
  ASSUME TypeOK, WaitsMatch, OwnersSafe, Attached, ClaimsIInv, ~Unplugs, ~AllocFails, ClaimNext
  PROVE  Attached'
<1>1. ASSUME NEW d \in Devs, NEW i \in Itfs,
             \/ ReleaseNothing(d, i) \/ Release(d, i)
             \/ \E a \in Alts : ClaimRefused(d, i, a) \/ ClaimFresh(d, i, a) \/ ClaimOther(d, i, a)
      PROVE  Attached'
  BY <1>1, ReleaseNothingSafe, ReleaseSafe, ClaimRefusedSafe, ClaimFreshSafe, ClaimOtherSafe
<1> QED BY <1>1, CloseSafe, CloseNextSafe, DropNextSafe, DropWaitedSafe, ClaimAgainSafe,
           ClaimEndsSafe, ReleaseTrySafe, ReleaseRetrySafe DEF ClaimNext

\* While no device goes and no allocation fails, every step keeps what the
\* calls hold, and none meets a memory error.
LEMMA NextSafe ==
  ASSUME TypeOK, WaitsMatch, OwnersSafe, Attached, ClaimsIInv, ~Unplugs, ~AllocFails,
         [Next]_vars
  PROVE  Attached'
<1>1. CASE UNCHANGED vars
  BY <1>1 DEF vars, callVars, waitVars, goneVars, tableVars, ctrlVars, Attached, NoneLeaves,
              CallHolds, PipesReady, GotIsDone, MemorySafe, Target
<1> QED BY <1>1, BusSafe, NoHandler, WaitSafe, CtrlSafe, EpSafe, ClaimSafe DEF Next

\* At first there is no pipe, no call and no device.
LEMMA InitSafe == ASSUME Init PROVE Attached
  BY ConstantsOK DEF Init, Attached, NoneLeaves, CallHolds, PipesReady, GotIsDone,
     MemorySafe, NoPipe, Handlers, Waiters, NoCall

-----------------------------------------------------------------------------
(* The count of the transfers given up.                                    *)

Tagged == {x \in Xfers : xfers[x].tag}
Counted == TaggedHeld /\ AbandonedCounted

\* A step that gives up no transfer and takes none back leaves the count true.
TagsStay ==
  /\ \A x \in Xfers : (xfers'[x].tag <=> xfers[x].tag)
                      /\ (xfers'[x].tag => xfers'[x].st # "free")
  /\ UNCHANGED abandoned

\* Such a step keeps the count.
LEMMA StayCounted == ASSUME Counted, TagsStay PROVE Counted'
<1>1. Tagged' = Tagged
  BY DEF Tagged, TagsStay
<1> QED BY <1>1 DEF Counted, TaggedHeld, AbandonedCounted, Tagged, TagsStay

\* So does a step that touches neither the transfers nor the count.
LEMMA SameTags == ASSUME Counted, UNCHANGED <<xfers, abandoned>> PROVE TagsStay
  BY DEF Counted, TaggedHeld, TagsStay

\* usbif_xfer_drop_pipes frees a pipe's transfer, which nobody gave up.
LEMMA DropTags ==
  ASSUME TypeOK, Owned, Counted, NEW q \in Pipes, NEW more, DropOrLeak(q, more), UNCHANGED abandoned
  PROVE  TagsStay
<1>1. pipes[q].xfer # None => pipes[q].xfer \in Xfers /\ ~xfers[pipes[q].xfer].tag
  BY DEF TypeOK, PipeType, Owned, PipeOwns
<1>2. xfers' = xfers \/ xfers' = Freed(pipes[q].xfer)
  BY DEF DropOrLeak
<1> QED BY <1>1, <1>2 DEF TagsStay, Counted, TaggedHeld, Freed, FreeXfer, TypeOK, XferType

\* usb_host_endpoint_flush cancels what is queued and tags nothing.
LEMMA FlushTags ==
  ASSUME TypeOK, Counted, NEW q, NEW part, xfers' = Flushed(q, part), UNCHANGED abandoned
  PROVE  TagsStay
<1> SUFFICES ASSUME NEW x \in Xfers
             PROVE  /\ xfers'[x].tag <=> xfers[x].tag
                    /\ xfers'[x].tag => xfers'[x].st # "free"
  BY DEF TagsStay
<1>1. \/ xfers'[x] = xfers[x]
      \/ xfers'[x] = [xfers[x] EXCEPT !.st = "done", !.status = "canceled",
                                        !.unread = part /\ In(q)]
  BY DEF Flushed
<1>2. xfers[x] \in XferType
  BY DEF TypeOK
<1> QED BY <1>1, <1>2 DEF XferType, Counted, TaggedHeld

\* The transfers given up are finitely many, so they can be counted.
LEMMA TaggedFinite == IsFiniteSet(Tagged) /\ IsFiniteSet(Tagged')
<1>1. Tagged \subseteq Xfers /\ Tagged' \subseteq Xfers
  BY DEF Tagged
<1> QED BY <1>1, ConstantsOK, FS_Subset DEF ConstantsOK

\* usbif_host_ctrl_abandon gives up one transfer and counts it.
LEMMA AbandonCounted == ASSUME TypeOK, Owned, Counted, CtrlAbandon PROVE Counted'
<1>1. cur \in Xfers /\ cur \notin Tagged /\ xfers[cur].st # "free"
  BY DEF CtrlAbandon, Owned, CtrlOwns, Tagged
<1>2. xfers' = [xfers EXCEPT ![cur].tag = TRUE] /\ abandoned' = abandoned + 1
  BY DEF CtrlAbandon
<1>3. Tagged' = Tagged \cup {cur} /\ TaggedHeld'
  BY <1>1, <1>2 DEF Tagged, Counted, TaggedHeld, TypeOK, XferType
<1>4. Cardinality(Tagged') = Cardinality(Tagged) + 1
  BY <1>1, <1>3, TaggedFinite, FS_AddElement
<1> QED BY <1>2, <1>3, <1>4 DEF Counted, AbandonedCounted, Tagged

\* Its callback, usbif_host_ctrl_reclaim, frees it and counts it off.
LEMMA CallbackCounted ==
  ASSUME TypeOK, Owned, Counted, NEW x \in Xfers, Callback(x) PROVE Counted'
<1>1. CASE xfers[x].at \in CtrlKeys /\ xfers[x].tag
  <2>1. abandoned' = abandoned - 1 /\ xfers' = Freed(x)
    BY <1>1 DEF Callback, CtrlCb
  <2>2. Tagged' = Tagged \ {x} /\ x \in Tagged /\ TaggedHeld'
    BY <1>1, <2>1, ConstantsOK
       DEF Tagged, Freed, FreeXfer, Counted, TaggedHeld, TypeOK, XferType, ConstantsOK
  <2>3. Cardinality(Tagged') = Cardinality(Tagged) - 1
    BY <2>2, TaggedFinite, FS_RemoveElement
  <2> QED BY <2>1, <2>2, <2>3 DEF Counted, AbandonedCounted, Tagged
<1>2. CASE ~(xfers[x].at \in CtrlKeys /\ xfers[x].tag)
  <2>1. xfers' = [xfers EXCEPT ![x].st = "caller"] /\ UNCHANGED abandoned
    BY <1>2 DEF Callback, CtrlCb, EpCb, ctrlVars
  <2>2. TagsStay
    BY <2>1 DEF TagsStay, Counted, TaggedHeld, TypeOK, XferType
  <2> QED BY <2>2, StayCounted
<1> QED BY <1>1, <1>2

\* A transfer given up may still end on the bus; it is not free for that.
LEMMA CompleteTags == ASSUME TypeOK, Counted, NEW x \in Xfers, Complete(x) PROVE TagsStay
<1>1. UNCHANGED abandoned /\ xfers[x].st = "queued"
  BY DEF Complete, ctrlVars
<1>2. PICK s, u : xfers' = [xfers EXCEPT ![x].st = "done", ![x].status = s, ![x].unread = u]
  BY DEF Complete
<1>3. \A y \in Xfers : (xfers'[y].tag <=> xfers[y].tag)
                       /\ (xfers'[y].st = xfers[y].st \/ xfers'[y].st = "done")
  BY <1>2 DEF TypeOK, XferType
<1> QED BY <1>1, <1>3 DEF TagsStay, Counted, TaggedHeld

\* A device that comes or goes gives up no transfer.
LEMMA DeviceTags ==
  ASSUME TypeOK, Counted, NEW d \in Devs, Unplug(d) \/ NewDev(d) PROVE TagsStay
<1>1. CASE Unplug(d)
  <2>1. UNCHANGED abandoned
    BY <1>1 DEF Unplug, ctrlVars
  <2>2. ASSUME NEW y \in Xfers
        PROVE  /\ xfers'[y].tag <=> xfers[y].tag
               /\ xfers'[y].st = xfers[y].st \/ xfers'[y].st = "done"
    <3>1. xfers'[y] = xfers[y] \/ xfers'[y] = [xfers[y] EXCEPT !.st = "done", !.status = "nodev"]
      BY <1>1 DEF Unplug
    <3>2. xfers[y] \in XferType
      BY DEF TypeOK
    <3> QED BY <3>1, <3>2 DEF XferType
  <2> QED BY <2>1, <2>2 DEF TagsStay, Counted, TaggedHeld
<1>2. CASE NewDev(d)
  BY <1>2, SameTags DEF NewDev, ctrlVars
<1> QED BY <1>1, <1>2

\* A DEV_GONE handler frees only pipes' transfers.
LEMMA GoneTags == ASSUME TypeOK, WaitsMatch, Owned, Counted, GoneNext PROVE TagsStay
<1> USE DEF ctrlVars
<1>1. ASSUME NEW h \in Handlers, NEW d, GoneBegin(h, d) \/ GoneEnd(h) PROVE TagsStay
  BY <1>1, SameTags DEF GoneBegin, GoneEnd
<1>2. ASSUME NEW h \in Handlers, NEW q \in Pipes, GoneDrop(h, q) PROVE TagsStay
  <2>1. UNCHANGED abandoned /\ (DropOrLeak(q, {}) \/ UNCHANGED xfers)
    BY <1>2 DEF GoneDrop, DropUsed
  <2> QED BY <2>1, DropTags, SameTags
<1>3. ASSUME NEW h \in Handlers, GoneWaited(h) PROVE TagsStay
  <2>1. UNCHANGED abandoned /\ on[h] \in Pipes /\ DropOrLeak(on[h], {})
    BY <1>3 DEF GoneWaited, CanResume, WaitsMatch
  <2> QED BY <2>1, DropTags
<1> QED BY <1>1, <1>2, <1>3 DEF GoneNext

\* The end of a wait gives up nothing by itself.
LEMMA WaitTags == ASSUME Counted, WaitNext PROVE TagsStay
  BY SameTags DEF WaitNext, WaitTake, WaitExpire, WaitOnDeleted, ctrlVars

\* usbif_xfer_ctrl, but for the timeout, frees only what it was given.
LEMMA CtrlTags ==
  ASSUME TypeOK, Owned, Counted, CtrlNext, ~CtrlAbandon PROVE TagsStay
<1>1. ASSUME NEW d, CtrlRefused(d) PROVE TagsStay
  BY <1>1, SameTags DEF CtrlRefused
<1>2. ASSUME NEW d, NEW f, Ctrl(d, f) PROVE TagsStay
  <2>1. PICK x \in Free : xfers' = [xfers EXCEPT ![x] = Armed(<<d, Ep0>>)]
    BY <1>2 DEF Ctrl
  <2> QED BY <1>2, <2>1 DEF Ctrl, Free, Armed, FreeXfer, TagsStay, Counted, TaggedHeld,
             TypeOK, XferType
<1>3. CASE CtrlDone
  <2>1. xfers' = Freed(cur) /\ cur \in Xfers /\ ~xfers[cur].tag /\ UNCHANGED abandoned
    BY <1>3 DEF CtrlDone, Owned, CtrlOwns, ctrlVars
  <2> QED BY <2>1, ConstantsOK
          DEF Freed, FreeXfer, TagsStay, Counted, TaggedHeld, TypeOK, XferType, ConstantsOK
<1> QED BY <1>1, <1>2, <1>3 DEF CtrlNext

\* usbif_xfer_ep works on its pipe's transfer or a fresh one: neither is
\* given up.
LEMMA EpTags == ASSUME TypeOK, WaitsMatch, Owned, Counted, EpNext PROVE TagsStay
<1> USE DEF ctrlVars
<1>1. ASSUME NEW q \in Pipes, EpRefused(q) \/ EpNull(q) PROVE TagsStay
  BY <1>1, SameTags DEF EpRefused, EpNull
<1>2. ASSUME NEW q \in Pipes, EpNoMemory(q) PROVE TagsStay
  <2>1. xfers' = Freed(pipes[q].xfer) /\ UNCHANGED abandoned
    BY <1>2 DEF EpNoMemory
  <2>2. pipes[q].xfer # None => pipes[q].xfer \in Xfers /\ ~xfers[pipes[q].xfer].tag
    BY DEF TypeOK, PipeType, Owned, PipeOwns
  <2> QED BY <2>1, <2>2 DEF Freed, FreeXfer, TagsStay, Counted, TaggedHeld, TypeOK, XferType
<1>3. ASSUME NEW q \in Pipes, NEW x \in EpXfer(q) PROVE x \in Xfers /\ ~xfers[x].tag
  BY <1>3 DEF EpXfer, Reusable, Free, Counted, TaggedHeld, TypeOK, PipeType, Owned, PipeOwns
<1>4. ASSUME NEW q \in Pipes, EpSubmitFails(q) PROVE TagsStay
  <2>1. PICK x \in EpXfer(q) : xfers' = [xfers EXCEPT ![x] = [Armed(q) EXCEPT !.st = "caller"]]
    BY <1>4 DEF EpSubmitFails
  <2>2. UNCHANGED abandoned
    BY <1>4 DEF EpSubmitFails
  <2> QED BY <1>3, <2>1, <2>2 DEF Armed, FreeXfer, TagsStay, Counted, TaggedHeld, TypeOK,
             XferType
<1>5. ASSUME NEW q \in Pipes, NEW k, NEW f, EpSubmit(q, k, f) PROVE TagsStay
  <2>1. PICK x \in EpXfer(q) : xfers' = [xfers EXCEPT ![x] = Armed(q)]
    BY <1>5 DEF EpSubmit
  <2>2. UNCHANGED abandoned
    BY <1>5 DEF EpSubmit, StartEp
  <2> QED BY <1>3, <2>1, <2>2 DEF Armed, FreeXfer, TagsStay, Counted, TaggedHeld, TypeOK,
             XferType
<1>6. ASSUME NEW q \in Pipes, NEW k, NEW f, EpPickUp(q, k, f) PROVE TagsStay
  BY <1>6, SameTags DEF EpPickUp, StartEp
<1>7. ASSUME NEW r, EpResult(r), UNCHANGED abandoned, cur \in Xfers PROVE TagsStay
  BY <1>7 DEF EpResult, TagsStay, Counted, TaggedHeld, TypeOK, XferType
<1>8. CASE EpDone \/ EpKeep \/ EpRetired
  <2>1. cur \in Xfers /\ UNCHANGED abandoned /\ \E r : EpResult(r)
    BY <1>8 DEF EpDone, EpKeep, EpRetired, WaitsMatch
  <2> QED BY <2>1, <1>7
<1>9. CASE EpRetire
  BY <1>9, FlushTags DEF EpRetire
<1> QED BY <1>1, <1>2, <1>4, <1>5, <1>6, <1>8, <1>9 DEF EpNext

\* claim, release and close free only pipes' transfers.
LEMMA ClaimTags == ASSUME TypeOK, WaitsMatch, Owned, Counted, ClaimNext PROVE TagsStay
<1> USE DEF ctrlVars
<1>1. ASSUME NEW q \in Pipes, DropNext(q) PROVE TagsStay
  <2>1. UNCHANGED abandoned
    BY <1>1 DEF DropNext
  <2>2. (\E part : xfers' = Flushed(q, part)) \/ DropOrLeak(q, {}) \/ UNCHANGED xfers
    BY <1>1 DEF DropNext, DropUsed
  <2> QED BY <2>1, <2>2, FlushTags, DropTags, SameTags
<1>2. CASE DropWaited
  <2>1. on["call"] \in Pipes /\ UNCHANGED abandoned /\ DropOrLeak(on["call"], DevFault(call.dev))
    BY <1>2 DEF DropWaited, CanResume, WaitsMatch
  <2> QED BY <2>1, DropTags
<1>3. CASE UNCHANGED <<xfers, abandoned>>
  BY <1>3, SameTags
<1>4. ASSUME NEW d, NEW i, ReleaseNothing(d, i) \/ Release(d, i) PROVE TagsStay
  BY <1>4, <1>3 DEF ReleaseNothing, Release
<1>5. ASSUME NEW d, NEW i, NEW a,
             ClaimRefused(d, i, a) \/ ClaimFresh(d, i, a) \/ ClaimOther(d, i, a)
      PROVE  TagsStay
  BY <1>5, <1>3 DEF ClaimRefused, ClaimFresh, ClaimOther
<1>6. CASE Close \/ CloseNext \/ ClaimAgain \/ ClaimEnds \/ ReleaseTry \/ ReleaseRetry
  BY <1>6, <1>3 DEF Close, CloseNext, ClaimAgain, ClaimEnds, ReleaseTry, ReleaseRetry
<1> QED BY <1>1, <1>2, <1>4, <1>5, <1>6 DEF ClaimNext

\* Every step keeps the count.
LEMMA NextCounted == ASSUME TypeOK, WaitsMatch, Owned, Counted, [Next]_vars PROVE Counted'
<1>1. CASE BusNext
  BY <1>1, CompleteTags, DeviceTags, StayCounted, CallbackCounted DEF BusNext
<1>2. CASE CtrlNext
  BY <1>2, CtrlTags, StayCounted, AbandonCounted
<1>3. CASE UNCHANGED vars
  BY <1>3, SameTags, StayCounted DEF vars, ctrlVars
<1> QED BY <1>1, <1>2, <1>3, GoneTags, WaitTags, EpTags, ClaimTags, StayCounted DEF Next

\* At first nothing is given up.
LEMMA InitCounted == ASSUME Init PROVE Counted
<1>1. Tagged = {} /\ TaggedHeld /\ abandoned = 0
  BY DEF Init, Tagged, TaggedHeld, FreeXfer
<1> QED BY <1>1, FS_EmptySet DEF Counted, AbandonedCounted, Tagged

-----------------------------------------------------------------------------
(* The theorems.                                                           *)

\* The count that teardown waits on (usbif_host_stop) is the number of
\* transfers given up whose callback has not freed them, devices unplugged
\* and allocations failing as they may.
THEOREM TeardownCountTrue == Spec => []AbandonedCounted
<1>1. IInv /\ Counted /\ [Next]_vars => Counted'
  BY NextCounted DEF IInv, OwnersSafe
<1>2. Counted => AbandonedCounted
  BY DEF Counted
<1> QED BY <1>1, <1>2, InitCounted, Inductive, PTL DEF Spec

\* No waiter is told of a completion that is not its transfer's.
LEMMA AttachedIsOwn == ASSUME IInv, Attached PROVE CompletionIsOwn
<1>1. ASSUME NEW w \in Waiters, wait[w] = "waiting", OnPipe(w), SemValue(w) = 1
      PROVE  ~pipes[on[w]].busy
  BY <1>1 DEF OnPipe, SemValue, Attached, PipesReady
<1>2. ASSUME pc = "ctrl",
             \/ wait["call"] = "got"
             \/ wait["call"] = "waiting" /\ ~SemGone("call") /\ SemValue("call") = 1
      PROVE  ~InLibrary(cur)
  <2>1. on["call"] \notin Pipes /\ (ctrlSem = 1 \/ wait["call"] = "got" => xfers[cur].st = "caller")
    BY <1>2, KeysDisjoint DEF IInv, OwnersSafe, Owned, CtrlOwns
  <2> QED BY <1>2, <2>1 DEF SemValue, OnPipe, InLibrary
<1>3. ASSUME pc = "ep",
             \/ wait["call"] = "got"
             \/ wait["call"] = "waiting" /\ ~SemGone("call") /\ SemValue("call") = 1
      PROVE  ~InLibrary(cur)
  <2>1. Target \in Pipes /\ cur \in Xfers /\ on["call"] = Target /\ pipes[Target].xfer = cur
    BY <1>3 DEF IInv, WaitsMatch, Attached, CallHolds
  <2>2. ~pipes[Target].busy
    BY <1>3, <2>1 DEF SemValue, OnPipe, Attached, PipesReady, GotIsDone
  <2>3. xfers[cur].st = "caller"
    BY <2>1, <2>2, ConstantsOK DEF IInv, OwnersSafe, Owned, PipeOwns, ConstantsOK
  <2> QED BY <2>3 DEF InLibrary
<1> QED BY <1>1, <1>2, <1>3 DEF CompletionIsOwn

\* As long as no device is unplugged and no allocation of a larger buffer fails
\* (the heap may run out of blocks), usbif_xfer uses nothing that was freed,
\* deleted or closed.  (With either, it does: a pump inside a wait can delete the
\* semaphore waited on, and a pipe whose second allocation failed is asked for
\* its buffer.)
THEOREM SafeWhileAttached == ASSUME ~Unplugs, ~AllocFails PROVE Spec => []Safe
<1>1. IInv /\ ClaimsIInv /\ Attached /\ [Next]_vars => Attached'
  BY NextSafe DEF IInv
<1>2. IInv /\ Attached => CompletionIsOwn /\ MemorySafe /\ TypeOK
  BY AttachedIsOwn DEF Attached, IInv
<1>3. TypeOK /\ MemorySafe /\ CompletionIsOwn
      /\ BusyMeansInFlight /\ ClaimsAgree /\ AbandonedCounted => Safe
  BY DEF Safe, BooksAgree
<1> QED BY <1>1, <1>2, <1>3, InitSafe, Inductive, ClaimsInductive, BusyIsInFlight,
           TableAgrees, TeardownCountTrue, PTL DEF Spec

-----------------------------------------------------------------------------
(* No report is lost.                                                      *)

\* A call that waits on a pipe does so for its own transfer, or that is gone.
CallPolls ==
  /\ call.keep = FALSE
  /\ pc \in {"ep", "retire"} =>
       /\ on["call"] = Target /\ wait["call"] \in {"waiting", "got", "late"}
       /\ pipes[Target].xfer = cur \/ xfers[cur].st = "free"
SemIsDone == \A q \in Pipes : pipes[q].sem = 1 => ~pipes[q].busy
CallDone ==
  /\ pc \in {"ep", "retire"} /\ wait["call"] = "got" => ~InLibrary(cur)
  /\ pc = "retire" /\ wait["call"] = "late" => ~InLibrary(cur)

\* Data comes with its report only: from an IN pipe, with a good status until
\* the call halts the endpoint.
UnreadIsData ==
  \A x \in Xfers : xfers[x].unread =>
    /\ xfers[x].st \in {"done", "caller"} /\ xfers[x].at \in Pipes /\ In(xfers[x].at)
    /\ pc = "ep" => xfers[x].status = "ok"

\* Between calls nothing is in flight on a pipe, and nothing is left unread.
OnlyTheCalls ==
  \A x \in Xfers : xfers[x].at \in Pipes /\ (InLibrary(x) \/ xfers[x].unread) =>
    pc \in {"ep", "retire"} /\ cur = x

Reports == CallPolls /\ SemIsDone /\ CallDone /\ UnreadIsData /\ OnlyTheCalls

\* What a step outside the call may do: free a transfer, or bring it one step
\* nearer to the call, its data as they were.
Nearer(x) ==
  \/ xfers'[x] = xfers[x] \/ xfers'[x] = FreeXfer
  \/ /\ InLibrary(x) /\ xfers'[x].st \in {"done", "caller"}
     /\ xfers'[x].at = xfers[x].at /\ xfers'[x].unread = xfers[x].unread
     /\ xfers[x].unread => xfers'[x].status = xfers[x].status
CallStays ==
  /\ UNCHANGED <<pc, call, cur>>
  /\ pc \in {"ep", "retire"} => on'["call"] = on["call"] /\ wait'["call"] = wait["call"]
  /\ \A q \in Pipes : pipes[q].xfer \in Xfers =>
       pipes'[q].xfer = pipes[q].xfer \/ xfers'[pipes[q].xfer].st = "free"

\* A step outside the call that does no more keeps what is known of reports.
LEMMA StaysReports ==
  ASSUME TypeOK, WaitsMatch, Reports, CallStays, SemIsDone', \A x \in Xfers : Nearer(x)
  PROVE  Reports'
<1>1. \A x \in Xfers : xfers[x].st = "free" => xfers'[x].st = "free"
  BY DEF Nearer, FreeXfer, InLibrary
<1>2. pc \in {"ep", "retire"} => Target \in Pipes /\ cur \in Xfers
  BY DEF WaitsMatch
<1>3. CallPolls'
  BY <1>1, <1>2 DEF CallStays, Reports, CallPolls, Target
<1>4. CallDone'
  BY <1>2 DEF CallStays, Reports, CallDone, Nearer, FreeXfer, InLibrary
<1>5. UnreadIsData'
  BY DEF CallStays, Reports, UnreadIsData, Nearer, FreeXfer
<1>6. OnlyTheCalls'
  BY DEF CallStays, Reports, OnlyTheCalls, Nearer, FreeXfer, InLibrary
<1> QED BY <1>3, <1>4, <1>5, <1>6 DEF Reports

\* drop_pipes' free.
LEMMA DropReports ==
  ASSUME TypeOK, Owned, Reports, NEW q \in Pipes, NEW more, DropOrLeak(q, more)
  PROVE  /\ SemIsDone' /\ \A x \in Xfers : Nearer(x)
         /\ \A p \in Pipes : pipes[p].xfer \in Xfers =>
              pipes'[p].xfer = pipes[p].xfer \/ xfers'[pipes[p].xfer].st = "free"
<1>1. \/ UNCHANGED <<pipes, xfers>>
      \/ pipes' = [pipes EXCEPT ![q] = NoPipe] /\ xfers' = Freed(pipes[q].xfer)
  BY DEF DropOrLeak
<1>2. ASSUME NEW x \in Xfers PROVE xfers'[x] = xfers[x] \/ xfers'[x] = FreeXfer
  BY <1>1 DEF Freed, TypeOK
<1>3. SemIsDone'
  <2>1. \A p \in Pipes : pipes'[p] = pipes[p] \/ pipes'[p] = NoPipe
    BY <1>1 DEF TypeOK
  <2> QED BY <2>1 DEF Reports, SemIsDone, NoPipe
<1>4. ASSUME NEW p \in Pipes, pipes[p].xfer \in Xfers
      PROVE  pipes'[p].xfer = pipes[p].xfer \/ xfers'[pipes[p].xfer].st = "free"
  BY <1>1, <1>4, ConstantsOK DEF Freed, FreeXfer, TypeOK
<1> QED BY <1>2, <1>3, <1>4 DEF Nearer

\* With no call on a pipe, no pipe is busy.
LEMMA NoneBusy ==
  ASSUME TypeOK, Owned, Reports, pc \notin {"ep", "retire"}, NEW q \in Pipes
  PROVE  ~pipes[q].busy
<1> SUFFICES ASSUME pipes[q].busy PROVE FALSE
  OBVIOUS
<1>1. pipes[q].xfer \in Xfers
  BY DEF Owned, PipeOwns, TypeOK, PipeType
<1>2. PICK x \in Xfers : x = pipes[q].xfer
  BY <1>1
<1>3. xfers[x].at = q /\ xfers[x].st \in {"queued", "done"}
  BY <1>2 DEF Owned, PipeOwns, TypeOK, XferType, XferStates
<1> QED BY <1>3 DEF Reports, OnlyTheCalls, InLibrary

\* A pipe that is not busy, or is gone, has no transfer of the call in flight.
LEMMA NotInFlight ==
  ASSUME WaitsMatch, Owned, Reports, pc \in {"ep", "retire"},
         ~pipes[Target].used \/ ~pipes[Target].busy
  PROVE  ~InLibrary(cur)
<1>1. Target \in Pipes /\ cur \in Xfers
  BY DEF WaitsMatch
<1>2. CASE xfers[cur].st = "free"
  BY <1>2 DEF InLibrary
<1>3. CASE pipes[Target].xfer = cur
  BY <1>1, <1>3, ConstantsOK DEF Owned, PipeOwns, NoPipe, InLibrary
<1> QED BY <1>2, <1>3 DEF Reports, CallPolls

\* Data arrives with a good status, on the transfer of the call in progress.
LEMMA CompleteReports ==
  ASSUME TypeOK, WaitsMatch, Owned, Reports, Prompt, TRUE \notin Keeps,
         NEW x \in Xfers, Complete(x)
  PROVE  Reports'
<1>1. CallPolls'
  BY DEF Reports, callVars, waitVars, goneVars, tableVars, ctrlVars, Complete, CallPolls,
     WaitsMatch, Target, TypeOK
<1>2. SemIsDone'
  BY DEF Reports, tableVars, Complete, SemIsDone
<1>3. CallDone'
  BY DEF Reports, callVars, waitVars, Complete, CallDone, InLibrary, Target, TypeOK,
     WaitsMatch
<1>4. UnreadIsData'
  BY DEF Reports, callVars, Complete, UnreadIsData, TypeOK, XferType
<1>5. OnlyTheCalls'
  BY DEF Reports, callVars, Complete, OnlyTheCalls, InLibrary, TypeOK
<1> QED BY <1>1, <1>2, <1>3, <1>4, <1>5 DEF Reports

\* The callback moves a transfer on to the call, and its pipe with it.
LEMMA CallbackReports ==
  ASSUME TypeOK, WaitsMatch, Owned, Reports, Prompt, TRUE \notin Keeps,
         NEW x \in Xfers, Callback(x)
  PROVE  Reports'
<1>1. CASE xfers[x].at \in CtrlKeys
  <2>1. xfers' = Freed(x) \/ xfers' = [xfers EXCEPT ![x].st = "caller"]
    BY <1>1 DEF Callback, CtrlCb
  <2>2. \A y \in Xfers : Nearer(y)
    BY <2>1 DEF Callback, Freed, Nearer, InLibrary, TypeOK, XferType
  <2>3. CallStays /\ UNCHANGED pipes
    BY <1>1 DEF Callback, CtrlCb, CallStays, callVars, waitVars
  <2> QED BY <2>2, <2>3, StaysReports DEF Reports, SemIsDone
<1>2. CASE xfers[x].at \notin CtrlKeys
  <2>1. xfers' = [xfers EXCEPT ![x].st = "caller"] /\ xfers[x].at \in Pipes
        /\ pipes' = [pipes EXCEPT ![xfers[x].at].busy = FALSE, ![xfers[x].at].sem = 1]
    BY <1>2 DEF Callback, EpCb, Owned, LibraryOwns, InLibrary
  <2>2. \A y \in Xfers : Nearer(y)
    BY <2>1 DEF Callback, Nearer, InLibrary
  <2>3. \A q \in Pipes : pipes'[q].xfer = pipes[q].xfer
    BY <2>1 DEF TypeOK
  <2>4. CallStays
    BY <2>3 DEF Callback, CallStays, callVars, waitVars
  <2>5. SemIsDone'
    BY <2>1 DEF Reports, SemIsDone, TypeOK
  <2> QED BY <2>2, <2>4, <2>5, StaysReports
<1> QED BY <1>1, <1>2

\* A transfer still queued brought nothing; what arrived before stays.
LEMMA UnplugReports ==
  ASSUME TypeOK, WaitsMatch, Owned, Reports, Prompt, TRUE \notin Keeps,
         NEW d \in Devs, Unplug(d)
  PROVE  Reports'
<1>1. ASSUME NEW y \in Xfers PROVE Nearer(y)
  <2>1. \/ xfers'[y] = xfers[y]
        \/ /\ xfers[y].st = "queued"
           /\ xfers'[y] = [xfers[y] EXCEPT !.st = "done", !.status = "nodev"]
    BY DEF Unplug
  <2>2. xfers[y] \in XferType /\ (xfers[y].st = "queued" => ~xfers[y].unread)
    BY DEF TypeOK, Reports, UnreadIsData
  <2> QED BY <2>1, <2>2 DEF Nearer, InLibrary, XferType
<1>2. CallStays /\ UNCHANGED pipes
  BY DEF Unplug, CallStays, callVars, waitVars, tableVars
<1> QED BY <1>1, <1>2, StaysReports DEF Reports, SemIsDone

\* A device opens.
LEMMA NewDevReports ==
  ASSUME TypeOK, WaitsMatch, Owned, Reports, Prompt, TRUE \notin Keeps,
         NEW d \in Devs, NewDev(d)
  PROVE  Reports'
<1>1. CallPolls'
  BY DEF Reports, callVars, waitVars, tableVars, NewDev, CallPolls, Target
<1>2. SemIsDone'
  BY DEF Reports, tableVars, NewDev, SemIsDone
<1>3. CallDone'
  BY DEF Reports, callVars, waitVars, NewDev, CallDone, InLibrary
<1>4. UnreadIsData'
  BY DEF Reports, callVars, NewDev, UnreadIsData
<1>5. OnlyTheCalls'
  BY DEF Reports, callVars, NewDev, OnlyTheCalls, InLibrary
<1> QED BY <1>1, <1>2, <1>3, <1>4, <1>5 DEF Reports

\* DEV_GONE: the handler starts.
LEMMA GoneBeginReports ==
  ASSUME TypeOK, WaitsMatch, Owned, Reports, Prompt, TRUE \notin Keeps,
         NEW h \in Handlers, NEW d, GoneBegin(h, d)
  PROVE  Reports'
<1>1. CallPolls'
  BY DEF Reports, callVars, waitVars, tableVars, GoneBegin, CallPolls, Target
<1>2. SemIsDone'
  BY DEF Reports, tableVars, GoneBegin, SemIsDone
<1>3. CallDone'
  BY DEF Reports, callVars, waitVars, GoneBegin, CallDone, InLibrary
<1>4. UnreadIsData'
  BY DEF Reports, callVars, GoneBegin, UnreadIsData
<1>5. OnlyTheCalls'
  BY DEF Reports, callVars, GoneBegin, OnlyTheCalls, InLibrary
<1> QED BY <1>1, <1>2, <1>3, <1>4, <1>5 DEF Reports

\* DEV_GONE: a pipe goes, or its callback is waited for.
LEMMA GoneDropReports ==
  ASSUME TypeOK, WaitsMatch, Owned, Reports, Prompt, TRUE \notin Keeps,
         NEW h \in Handlers, NEW q \in Pipes, GoneDrop(h, q)
  PROVE  Reports'
<1>1. h # "call" /\ UNCHANGED <<pc, call, cur>>
  BY DEF GoneDrop, Handlers, callVars
<1>2. on'["call"] = on["call"] /\ wait'["call"] = wait["call"]
  BY <1>1 DEF GoneDrop, StartWait, TypeOK, Waiters, waitVars
<1>3. CASE DropOrLeak(q, {})
  BY <1>1, <1>2, <1>3, DropReports, StaysReports DEF CallStays
<1>4. CASE UNCHANGED <<pipes, xfers>>
  BY <1>1, <1>2, <1>4, StaysReports DEF CallStays, Nearer, Reports, SemIsDone
<1> QED BY <1>3, <1>4 DEF GoneDrop, DropUsed

\* DEV_GONE: the pipe that was waited for goes.
LEMMA GoneWaitedReports ==
  ASSUME TypeOK, WaitsMatch, Owned, Reports, Prompt, TRUE \notin Keeps,
         NEW h \in Handlers, GoneWaited(h)
  PROVE  Reports'
<1>1. h # "call" /\ UNCHANGED <<pc, call, cur>> /\ on[h] \in Pipes
  BY DEF GoneWaited, Handlers, callVars, CanResume, WaitsMatch
<1>2. on'["call"] = on["call"] /\ wait'["call"] = wait["call"]
  BY <1>1 DEF GoneWaited, StopWait
<1>3. DropOrLeak(on[h], {})
  BY DEF GoneWaited
<1> QED BY <1>1, <1>2, <1>3, DropReports, StaysReports DEF CallStays

\* DEV_GONE: the claims go.
LEMMA GoneEndReports ==
  ASSUME TypeOK, WaitsMatch, Owned, Reports, Prompt, TRUE \notin Keeps,
         NEW h \in Handlers, GoneEnd(h)
  PROVE  Reports'
<1>1. CallPolls'
  BY DEF Reports, callVars, waitVars, GoneEnd, CallPolls, Target
<1>2. SemIsDone'
  BY DEF Reports, GoneEnd, SemIsDone
<1>3. CallDone'
  BY DEF Reports, callVars, waitVars, GoneEnd, CallDone, InLibrary
<1>4. UnreadIsData'
  BY DEF Reports, callVars, GoneEnd, UnreadIsData
<1>5. OnlyTheCalls'
  BY DEF Reports, callVars, GoneEnd, OnlyTheCalls, InLibrary
<1> QED BY <1>1, <1>2, <1>3, <1>4, <1>5 DEF Reports

\* The call takes its pipe's semaphore: its transfer is back.
LEMMA WaitTakeReports ==
  ASSUME TypeOK, WaitsMatch, Owned, Reports, Prompt, TRUE \notin Keeps,
         NEW w \in Waiters, WaitTake(w)
  PROVE  Reports'
<1>1. UNCHANGED pipes \/ (on[w] \in Pipes /\ pipes' = [pipes EXCEPT ![on[w]].sem = 0])
  BY DEF WaitTake, OnPipe
<1>2. UNCHANGED <<pc, call, cur, on, xfers>> /\ wait' = [wait EXCEPT ![w] = "got"]
  BY DEF WaitTake, callVars
<1>3. \A q \in Pipes : pipes'[q].xfer = pipes[q].xfer /\ pipes'[q].busy = pipes[q].busy
                       /\ (pipes'[q].sem = 1 => pipes[q].sem = 1)
  BY <1>1 DEF TypeOK, PipeType
<1>4. CallPolls'
  <2>1. wait'["call"] = wait["call"] \/ wait'["call"] = "got"
    BY <1>2
  <2>2. pc \in {"ep", "retire"} => Target \in Pipes
    BY DEF WaitsMatch
  <2> QED BY <1>2, <1>3, <2>1, <2>2 DEF Reports, CallPolls, Target
<1>5. SemIsDone'
  BY <1>3 DEF Reports, SemIsDone
<1>6. CallDone'
  <2>1. CASE w = "call" /\ pc \in {"ep", "retire"}
    <3>1. on[w] = Target /\ Target \in Pipes
      BY <2>1 DEF Reports, CallPolls, WaitsMatch
    <3>2. ~pipes[Target].busy
      BY <3>1 DEF WaitTake, OnPipe, SemValue, Reports, SemIsDone
    <3>3. ~InLibrary(cur)
      BY <2>1, <3>2, NotInFlight
    <3> QED BY <1>2, <3>3 DEF CallDone, InLibrary
  <2>2. CASE ~(w = "call" /\ pc \in {"ep", "retire"})
    <3>1. pc \in {"ep", "retire"} => wait'["call"] = wait["call"]
      BY <1>2, <2>2
    <3> QED BY <1>2, <3>1 DEF Reports, CallDone, InLibrary
  <2> QED BY <2>1, <2>2
<1>7. UnreadIsData' /\ OnlyTheCalls'
  BY <1>2 DEF Reports, UnreadIsData, OnlyTheCalls, InLibrary
<1> QED BY <1>4, <1>5, <1>6, <1>7 DEF Reports

\* Prompt: usbif_xfer_retire's wait ends with the callback.
LEMMA WaitExpireReports ==
  ASSUME TypeOK, WaitsMatch, Owned, Reports, Prompt, TRUE \notin Keeps,
         NEW w \in Waiters, WaitExpire(w)
  PROVE  Reports'
<1>1. CallPolls'
  BY DEF Reports, callVars, tableVars, WaitExpire, CallPolls, Target
<1>2. SemIsDone'
  BY DEF Reports, tableVars, WaitExpire, SemIsDone
<1>3. CallDone'
  <2>1. UNCHANGED <<pc, cur, xfers>> /\ wait' = [wait EXCEPT ![w] = "late"]
    BY DEF WaitExpire, callVars
  <2>2. CASE w = "call" /\ pc = "retire"
    <3>1. on[w] = Target /\ ~pipes[Target].busy
      BY <2>2 DEF WaitExpire, Reports, CallPolls
    <3>2. ~InLibrary(cur)
      BY <2>2, <3>1, NotInFlight
    <3> QED BY <2>1, <3>2 DEF CallDone, InLibrary
  <2>3. CASE ~(w = "call" /\ pc = "retire")
    <3>1. wait'["call"] = "got" \/ pc = "retire" => wait'["call"] = wait["call"]
      BY <2>1, <2>3
    <3> QED BY <2>1, <3>1 DEF Reports, CallDone, InLibrary
  <2> QED BY <2>2, <2>3
<1>4. UnreadIsData'
  BY DEF Reports, callVars, WaitExpire, UnreadIsData
<1>5. OnlyTheCalls'
  BY DEF Reports, callVars, WaitExpire, OnlyTheCalls, InLibrary
<1> QED BY <1>1, <1>2, <1>3, <1>4, <1>5 DEF Reports

\* The semaphore is deleted with its pipe: the call's transfer is free.
LEMMA WaitOnDeletedReports ==
  ASSUME TypeOK, WaitsMatch, Owned, Reports, Prompt, TRUE \notin Keeps,
         NEW w \in Waiters, WaitOnDeleted(w)
  PROVE  Reports'
<1>1. CallPolls'
  BY DEF Reports, callVars, tableVars, WaitOnDeleted, CallPolls, Target
<1>2. SemIsDone'
  BY DEF Reports, tableVars, WaitOnDeleted, SemIsDone
<1>3. CallDone'
  <2>1. UNCHANGED <<pc, cur, xfers>> /\ \E r \in {"got", "late"} : wait' = [wait EXCEPT ![w] = r]
    BY DEF WaitOnDeleted, callVars
  <2>2. CASE w = "call" /\ pc \in {"ep", "retire"}
    <3>1. on[w] = Target /\ ~pipes[Target].used
      BY <2>2 DEF WaitOnDeleted, SemGone, Reports, CallPolls
    <3>2. ~InLibrary(cur)
      BY <2>2, <3>1, NotInFlight
    <3> QED BY <2>1, <3>2 DEF CallDone, InLibrary
  <2>3. CASE ~(w = "call" /\ pc \in {"ep", "retire"})
    <3>1. pc \in {"ep", "retire"} => wait'["call"] = wait["call"]
      BY <2>1, <2>3
    <3> QED BY <2>1, <3>1 DEF Reports, CallDone, InLibrary
  <2> QED BY <2>2, <2>3
<1>4. UnreadIsData'
  BY DEF Reports, callVars, WaitOnDeleted, UnreadIsData
<1>5. OnlyTheCalls'
  BY DEF Reports, callVars, WaitOnDeleted, OnlyTheCalls, InLibrary
<1> QED BY <1>1, <1>2, <1>3, <1>4, <1>5 DEF Reports

\* usbif_xfer_ctrl refuses.
LEMMA CtrlRefusedReports ==
  ASSUME TypeOK, WaitsMatch, Owned, Reports, Prompt, TRUE \notin Keeps,
         NEW d \in Devs, CtrlRefused(d)
  PROVE  Reports'
<1>1. CallPolls'
  BY DEF Reports, CtrlRefused, CallPolls, Idle, Refuse
<1>2. SemIsDone'
  BY DEF Reports, tableVars, CtrlRefused, SemIsDone
<1>3. CallDone'
  BY DEF CtrlRefused, CallDone, Idle, Refuse
<1>4. UnreadIsData'
  BY DEF Reports, CtrlRefused, UnreadIsData, Refuse
<1>5. OnlyTheCalls'
  BY DEF Reports, CtrlRefused, OnlyTheCalls, InLibrary, Refuse
<1> QED BY <1>1, <1>2, <1>3, <1>4, <1>5 DEF Reports

\* usbif_xfer_ctrl submits: no pipe's transfer.
LEMMA CtrlReports ==
  ASSUME TypeOK, WaitsMatch, Owned, Reports, Prompt, TRUE \notin Keeps,
         NEW d \in Devs, NEW f, Ctrl(d, f)
  PROVE  Reports'
<1>1. CallPolls'
  BY DEF Ctrl, CallPolls, NoCall
<1>2. SemIsDone'
  BY DEF Reports, tableVars, Ctrl, SemIsDone
<1>3. CallDone'
  BY DEF Ctrl, CallDone
<1>4. UnreadIsData'
  BY DEF Reports, Ctrl, UnreadIsData, Armed, FreeXfer
<1>5. OnlyTheCalls'
  <2>1. PICK x \in Free : xfers' = [xfers EXCEPT ![x] = Armed(<<d, Ep0>>)]
    BY DEF Ctrl
  <2>2. <<d, Ep0>> \notin Pipes
    BY KeysDisjoint DEF CtrlKeys
  <2>3. \A y \in Xfers : y = x \/ xfers'[y] = xfers[y]
    BY <2>1
  <2>4. xfers'[x].at = <<d, Ep0>>
    BY <2>1 DEF Free, Armed, TypeOK
  <2>5. pc = "idle"
    BY DEF Ctrl, Idle
  <2> QED BY <2>2, <2>3, <2>4, <2>5 DEF Reports, OnlyTheCalls, InLibrary
<1> QED BY <1>1, <1>2, <1>3, <1>4, <1>5 DEF Reports

\* usbif_xfer_ctrl frees its own transfer.
LEMMA CtrlDoneReports ==
  ASSUME TypeOK, WaitsMatch, Owned, Reports, Prompt, TRUE \notin Keeps, CtrlDone
  PROVE  Reports'
<1>1. CallPolls'
  BY DEF CtrlDone, CallPolls, Return, NoCall
<1>2. SemIsDone'
  BY DEF Reports, tableVars, CtrlDone, SemIsDone
<1>3. CallDone'
  BY DEF CtrlDone, CallDone, Return
<1>4. UnreadIsData'
  BY DEF Reports, CtrlDone, UnreadIsData, Return, Freed, FreeXfer
<1>5. OnlyTheCalls'
  BY DEF Reports, CtrlDone, OnlyTheCalls, InLibrary, Freed, FreeXfer
<1> QED BY <1>1, <1>2, <1>3, <1>4, <1>5 DEF Reports

\* usbif_host_ctrl_abandon leaves its own to the callback.
LEMMA CtrlAbandonReports ==
  ASSUME TypeOK, WaitsMatch, Owned, Reports, Prompt, TRUE \notin Keeps, CtrlAbandon
  PROVE  Reports'
<1>1. CallPolls'
  BY DEF CtrlAbandon, CallPolls, Return, NoCall
<1>2. SemIsDone'
  BY DEF Reports, tableVars, CtrlAbandon, SemIsDone
<1>3. CallDone'
  BY DEF CtrlAbandon, CallDone, Return
<1>4. UnreadIsData'
  BY DEF Reports, CtrlAbandon, UnreadIsData, Return
<1>5. OnlyTheCalls'
  BY DEF Reports, CtrlAbandon, OnlyTheCalls, InLibrary
<1> QED BY <1>1, <1>2, <1>3, <1>4, <1>5 DEF Reports

\* usbif_xfer_ep refuses.
LEMMA EpRefusedReports ==
  ASSUME TypeOK, WaitsMatch, Owned, Reports, Prompt, TRUE \notin Keeps,
         NEW q \in Pipes, EpRefused(q)
  PROVE  Reports'
<1>1. CallPolls'
  BY DEF Reports, EpRefused, CallPolls, Idle, Refuse
<1>2. SemIsDone'
  BY DEF Reports, tableVars, EpRefused, SemIsDone
<1>3. CallDone'
  BY DEF EpRefused, CallDone, Idle, Refuse
<1>4. UnreadIsData'
  BY DEF Reports, EpRefused, UnreadIsData, Refuse
<1>5. OnlyTheCalls'
  BY DEF Reports, EpRefused, OnlyTheCalls, InLibrary, Refuse
<1> QED BY <1>1, <1>2, <1>3, <1>4, <1>5 DEF Reports

\* A pipe without its transfer holds no data.
LEMMA EpNullReports ==
  ASSUME TypeOK, WaitsMatch, Owned, Reports, Prompt, TRUE \notin Keeps,
         NEW q \in Pipes, EpNull(q)
  PROVE  Reports'
<1>1. CallPolls'
  BY DEF Reports, waitVars, tableVars, EpNull, CallPolls, Target, Refuse
<1>2. SemIsDone'
  BY DEF Reports, tableVars, EpNull, SemIsDone
<1>3. CallDone'
  BY DEF Reports, waitVars, EpNull, CallDone, InLibrary, Refuse
<1>4. UnreadIsData'
  BY DEF Reports, EpNull, UnreadIsData, Refuse
<1>5. OnlyTheCalls'
  BY DEF Reports, EpNull, OnlyTheCalls, InLibrary, Refuse
<1> QED BY <1>1, <1>2, <1>3, <1>4, <1>5 DEF Reports

\* The transfer freed for a larger one has been read.
LEMMA EpNoMemoryReports ==
  ASSUME TypeOK, WaitsMatch, Owned, Reports, Prompt, TRUE \notin Keeps,
         NEW q \in Pipes, EpNoMemory(q)
  PROVE  Reports'
<1>1. CallPolls'
  BY DEF Reports, EpNoMemory, CallPolls, EpReady, Refuse, Idle
<1>2. SemIsDone'
  BY DEF Reports, EpNoMemory, SemIsDone, TypeOK
<1>3. CallDone'
  BY DEF EpNoMemory, CallDone, EpReady, Refuse, Idle
<1>4. UnreadIsData'
  <2>1. \A y \in Xfers : xfers'[y] = xfers[y] \/ xfers'[y] = FreeXfer
    BY DEF EpNoMemory, Freed
  <2> QED BY <2>1 DEF EpNoMemory, Refuse, Reports, UnreadIsData, FreeXfer
<1>5. OnlyTheCalls'
  BY DEF Reports, EpNoMemory, OnlyTheCalls, InLibrary, TypeOK, PipeType, Refuse, Freed
<1> QED BY <1>1, <1>2, <1>3, <1>4, <1>5 DEF Reports

\* A submit refused leaves the pipe an empty transfer.
LEMMA EpSubmitFailsReports ==
  ASSUME TypeOK, WaitsMatch, Owned, Reports, Prompt, TRUE \notin Keeps,
         NEW q \in Pipes, EpSubmitFails(q)
  PROVE  Reports'
<1>1. CallPolls'
  BY DEF Reports, EpSubmitFails, CallPolls, EpReady, Refuse, Idle
<1>2. SemIsDone'
  BY DEF Reports, EpSubmitFails, SemIsDone, Drained
<1>3. CallDone'
  BY DEF EpSubmitFails, CallDone, EpReady, Refuse, Idle
<1>4. UnreadIsData'
  BY DEF Reports, EpSubmitFails, UnreadIsData, Refuse, Armed, FreeXfer
<1>5. OnlyTheCalls'
  BY DEF Reports, EpSubmitFails, OnlyTheCalls, InLibrary, Refuse, Armed, FreeXfer
<1> QED BY <1>1, <1>2, <1>3, <1>4, <1>5 DEF Reports

\* With no kept poll there is none to pick up.
LEMMA EpPickUpReports ==
  ASSUME TypeOK, WaitsMatch, Owned, Reports, Prompt, TRUE \notin Keeps,
         NEW q \in Pipes, NEW k \in Keeps, NEW f, EpPickUp(q, k, f)
  PROVE  Reports'
<1>1. pc = "idle" /\ pipes[q].busy
  BY DEF EpPickUp, Idle, Kept, Busy
<1> QED BY <1>1, NoneBusy

\* usbif_xfer_ep submits: the transfer in flight is the call's.
LEMMA EpSubmitReports ==
  ASSUME TypeOK, WaitsMatch, Owned, Reports, Prompt, TRUE \notin Keeps,
         NEW q \in Pipes, NEW k \in Keeps, NEW f, EpSubmit(q, k, f)
  PROVE  Reports'
<1>1. CallPolls'
  <2>1. /\ call' = [NoCall EXCEPT !.op = "ep", !.dev = q[1], !.ep = q[2], !.keep = k, !.forever = f]
        /\ on' = [on EXCEPT !["call"] = q] /\ wait' = [wait EXCEPT !["call"] = "waiting"]
        /\ k = FALSE
    BY ConstantsOK DEF EpSubmit, StartEp, StartWait, ConstantsOK
  <2>2. pipes'[q].xfer = cur'
    BY DEF EpSubmit, TypeOK
  <2>3. Target' = q /\ call'.keep = FALSE
    BY <2>1 DEF Target, Pipes
  <2>4. on'["call"] = q /\ wait'["call"] = "waiting"
    BY <2>1 DEF TypeOK, Waiters
  <2> QED BY <2>2, <2>3, <2>4 DEF CallPolls
<1>2. SemIsDone'
  BY DEF Reports, EpSubmit, SemIsDone, Drained
<1>3. CallDone'
  BY DEF EpSubmit, CallDone, WaitsMatch, EpReady, Idle, StartEp, StartWait
<1>4. UnreadIsData'
  BY DEF Reports, EpSubmit, UnreadIsData, OnlyTheCalls, EpReady, Armed, FreeXfer, Idle
<1>5. OnlyTheCalls'
  BY DEF Reports, EpSubmit, OnlyTheCalls, InLibrary, EpReady, Idle, StartEp
<1> QED BY <1>1, <1>2, <1>3, <1>4, <1>5 DEF Reports

\* The call is told of its own completion, and hands the data over.
LEMMA EpDoneReports ==
  ASSUME TypeOK, WaitsMatch, Owned, Reports, Prompt, TRUE \notin Keeps, EpDone
  PROVE  Reports'
<1>1. CallPolls'
  BY DEF EpDone, CallPolls, EpResult, Return, NoCall
<1>2. SemIsDone'
  BY DEF Reports, tableVars, EpDone, SemIsDone
<1>3. CallDone'
  BY DEF EpDone, CallDone, EpResult, Return
<1>4. UnreadIsData'
  BY DEF Reports, EpDone, UnreadIsData, TypeOK, XferType, EpResult
<1>5. OnlyTheCalls'
  <2>1. cur \in Xfers /\ pc \in {"ep", "retire"} /\ ~InLibrary(cur)
    BY DEF EpDone, WaitsMatch, Reports, CallDone
  <2>2. PICK r : EpResult(r) /\ (xfers[cur].unread => r = "data")
    <3>1. PICK s \in IF xfers[cur].st = "free" THEN Statuses ELSE {xfers[cur].status} :
            EpResult(StatusResult(s))
      BY DEF EpDone
    <3>2. xfers[cur].unread => s = "ok" /\ In(xfers[cur].at) /\ xfers[cur].at \in Pipes
                               /\ xfers[cur].st # "free"
      BY <2>1, <3>1 DEF EpDone, Reports, UnreadIsData
    <3>3. xfers[cur].unread => In(Target)
      <4>1. xfers[cur].unread => pipes[Target].xfer = cur /\ Target \in Pipes
        BY <2>1, <3>2 DEF Reports, CallPolls, WaitsMatch
      <4>2. xfers[cur].unread => xfers[cur].at = Target
        BY <2>1, <4>1, ConstantsOK DEF Owned, PipeOwns
      <4> QED BY <3>2, <4>2
    <3>4. xfers[cur].unread => StatusResult(s) = "data"
      BY <3>2, <3>3 DEF StatusResult
    <3> QED BY <3>1, <3>4
  <2>3. /\ ~xfers'[cur].unread /\ xfers'[cur].st = xfers[cur].st
        /\ \A y \in Xfers : y # cur => xfers'[y] = xfers[y]
    <3>1. PICK u : u = (xfers[cur].unread /\ r # "data")
      OBVIOUS
    <3>2. ~u
      BY <2>2, <3>1
    <3>3. xfers' = [xfers EXCEPT ![cur].unread = u, ![cur].status = "ok"]
      BY <2>2, <3>1 DEF EpResult
    <3> QED BY <2>1, <3>2, <3>3 DEF TypeOK
  <2> QED BY <2>1, <2>3 DEF Reports, OnlyTheCalls, InLibrary
<1> QED BY <1>1, <1>2, <1>3, <1>4, <1>5 DEF Reports

\* With no kept poll there is none to leave.
LEMMA EpKeepReports ==
  ASSUME TypeOK, WaitsMatch, Owned, Reports, Prompt, TRUE \notin Keeps, EpKeep
  PROVE  Reports'
<1>1. CallPolls'
  BY DEF EpKeep, CallPolls, EpResult, Return, NoCall
<1>2. SemIsDone'
  BY DEF Reports, EpKeep, SemIsDone
<1>3. CallDone'
  BY DEF EpKeep, CallDone, EpResult, Return
<1>4. UnreadIsData'
  BY DEF Reports, EpKeep, UnreadIsData, TypeOK, XferType, EpResult
<1>5. OnlyTheCalls'
  BY DEF Reports, EpKeep, OnlyTheCalls, CallPolls
<1> QED BY <1>1, <1>2, <1>3, <1>4, <1>5 DEF Reports

\* Halted and flushed, the transfer may still bring what had arrived.
LEMMA EpRetireReports ==
  ASSUME TypeOK, WaitsMatch, Owned, Reports, Prompt, TRUE \notin Keeps, EpRetire
  PROVE  Reports'
<1>1. CallPolls'
  <2>1. /\ UNCHANGED <<call, cur, pipes>> /\ pc = "ep" /\ pc' = "retire"
        /\ on' = [on EXCEPT !["call"] = Target] /\ wait' = [wait EXCEPT !["call"] = "waiting"]
    BY DEF EpRetire, StartWait, tableVars
  <2>2. on'["call"] = Target /\ wait'["call"] = "waiting"
    BY <2>1 DEF TypeOK, Waiters
  <2>3. xfers[cur].st = "free" => xfers'[cur].st = "free"
    BY DEF EpRetire, Flushed, WaitsMatch
  <2> QED BY <2>1, <2>2, <2>3 DEF Reports, CallPolls, Target
<1>2. SemIsDone'
  BY DEF Reports, tableVars, EpRetire, SemIsDone
<1>3. CallDone'
  BY DEF EpRetire, CallDone, TypeOK, Waiters, StartWait
<1>4. UnreadIsData'
  <2>1. PICK part \in BOOLEAN : xfers' = Flushed(Target, part)
    BY DEF EpRetire
  <2>2. ASSUME NEW y \in Xfers
        PROVE  \/ xfers'[y] = xfers[y]
               \/ /\ xfers[y].st = "queued" /\ xfers[y].at = Target
                  /\ xfers'[y] = [xfers[y] EXCEPT !.st = "done", !.status = "canceled",
                                                  !.unread = part /\ In(Target)]
    BY <2>1 DEF Flushed
  <2>3. ASSUME NEW y \in Xfers, xfers'[y] # xfers[y]
        PROVE  /\ InLibrary(y) /\ xfers[y].at = Target /\ xfers'[y].st = "done"
               /\ xfers'[y].at = Target /\ (xfers'[y].unread => In(Target))
    <3>1. xfers[y] \in XferType
      BY DEF TypeOK
    <3> QED BY <2>2, <2>3, <3>1 DEF XferType, InLibrary
  <2>4. pc = "ep" /\ pc' = "retire" /\ cur' = cur /\ Target \in Pipes
    BY DEF EpRetire, WaitsMatch
  <2> QED BY <2>3, <2>4 DEF Reports, UnreadIsData
<1>5. OnlyTheCalls'
  <2>1. PICK part \in BOOLEAN : xfers' = Flushed(Target, part)
    BY DEF EpRetire
  <2>2. ASSUME NEW y \in Xfers
        PROVE  \/ xfers'[y] = xfers[y]
               \/ /\ xfers[y].st = "queued" /\ xfers[y].at = Target
                  /\ xfers'[y] = [xfers[y] EXCEPT !.st = "done", !.status = "canceled",
                                                  !.unread = part /\ In(Target)]
    BY <2>1 DEF Flushed
  <2>3. ASSUME NEW y \in Xfers, xfers'[y] # xfers[y]
        PROVE  /\ InLibrary(y) /\ xfers[y].at = Target /\ xfers'[y].st = "done"
               /\ xfers'[y].at = Target /\ (xfers'[y].unread => In(Target))
    <3>1. xfers[y] \in XferType
      BY DEF TypeOK
    <3> QED BY <2>2, <2>3, <3>1 DEF XferType, InLibrary
  <2>4. pc = "ep" /\ pc' = "retire" /\ cur' = cur /\ Target \in Pipes
    BY DEF EpRetire, WaitsMatch
  <2> QED BY <2>3, <2>4 DEF Reports, OnlyTheCalls, InLibrary
<1> QED BY <1>1, <1>2, <1>3, <1>4, <1>5 DEF Reports

\* Data that landed between the timeout and the halt is handed over.
LEMMA EpRetiredReports ==
  ASSUME TypeOK, WaitsMatch, Owned, Reports, Prompt, TRUE \notin Keeps, EpRetired
  PROVE  Reports'
<1>1. CallPolls'
  BY DEF EpRetired, CallPolls, EpResult, Return, NoCall
<1>2. SemIsDone'
  BY DEF Reports, tableVars, EpRetired, SemIsDone
<1>3. CallDone'
  BY DEF EpRetired, CallDone, EpResult, Return
<1>4. UnreadIsData'
  BY DEF Reports, EpRetired, UnreadIsData, TypeOK, XferType, EpResult, Return
<1>5. OnlyTheCalls'
  <2>1. cur \in Xfers /\ pc \in {"ep", "retire"} /\ ~InLibrary(cur)
    BY DEF EpRetired, WaitsMatch, Reports, CallDone, CanResume
  <2>2. PICK r : EpResult(r) /\ (xfers[cur].unread => r = "data")
    <3>1. xfers[cur].unread =>
            In(xfers[cur].at) /\ xfers[cur].at \in Pipes /\ xfers[cur].st # "free"
      BY <2>1 DEF Reports, UnreadIsData
    <3>2. xfers[cur].unread => In(Target) /\ pipes[Target].xfer = cur /\ Target \in Pipes
      <4>1. xfers[cur].unread => pipes[Target].xfer = cur /\ Target \in Pipes
        BY <2>1, <3>1 DEF Reports, CallPolls, WaitsMatch
      <4>2. xfers[cur].unread => xfers[cur].at = Target
        BY <2>1, <4>1, ConstantsOK DEF Owned, PipeOwns
      <4> QED BY <3>1, <4>1, <4>2
    <3>3. xfers[cur].unread => ~Busy(Target)
      BY <2>1, <3>1, <3>2 DEF Busy, Owned, PipeOwns, InLibrary, TypeOK, XferType, XferStates
    <3> QED BY <3>2, <3>3 DEF EpRetired
  <2>3. /\ ~xfers'[cur].unread /\ xfers'[cur].st = xfers[cur].st
        /\ \A y \in Xfers : y # cur => xfers'[y] = xfers[y]
    <3>1. PICK u : u = (xfers[cur].unread /\ r # "data")
      OBVIOUS
    <3>2. ~u
      BY <2>2, <3>1
    <3>3. xfers' = [xfers EXCEPT ![cur].unread = u, ![cur].status = "ok"]
      BY <2>2, <3>1 DEF EpResult
    <3> QED BY <2>1, <3>2, <3>3 DEF TypeOK
  <2> QED BY <2>1, <2>3 DEF Reports, OnlyTheCalls, InLibrary
<1> QED BY <1>1, <1>2, <1>3, <1>4, <1>5 DEF Reports

\* usbif_xfer_claim refuses.
LEMMA ClaimRefusedReports ==
  ASSUME TypeOK, WaitsMatch, Owned, Reports, Prompt, TRUE \notin Keeps,
         NEW d \in Devs, NEW i \in Itfs, NEW a, ClaimRefused(d, i, a)
  PROVE  Reports'
<1>1. CallPolls'
  BY DEF Reports, ClaimRefused, CallPolls, Idle, Refuse
<1>2. SemIsDone'
  BY DEF Reports, tableVars, ClaimRefused, SemIsDone
<1>3. CallDone'
  BY DEF ClaimRefused, CallDone, Idle, Refuse
<1>4. UnreadIsData'
  BY DEF Reports, ClaimRefused, UnreadIsData, Refuse
<1>5. OnlyTheCalls'
  BY DEF Reports, ClaimRefused, OnlyTheCalls, InLibrary, Refuse
<1> QED BY <1>1, <1>2, <1>3, <1>4, <1>5 DEF Reports

\* usbif_xfer_claim, with no pipe to drop.
LEMMA ClaimFreshReports ==
  ASSUME TypeOK, WaitsMatch, Owned, Reports, Prompt, TRUE \notin Keeps,
         NEW d \in Devs, NEW i \in Itfs, NEW a, ClaimFresh(d, i, a)
  PROVE  Reports'
<1>1. CallPolls'
  BY DEF Reports, ClaimFresh, CallPolls, Idle
<1>2. SemIsDone'
  BY DEF Reports, ClaimFresh, SemIsDone
<1>3. CallDone'
  BY DEF ClaimFresh, CallDone, Idle
<1>4. UnreadIsData'
  BY DEF Reports, ClaimFresh, UnreadIsData
<1>5. OnlyTheCalls'
  BY DEF Reports, ClaimFresh, OnlyTheCalls, InLibrary
<1> QED BY <1>1, <1>2, <1>3, <1>4, <1>5 DEF Reports

\* usbif_xfer_claim starts to drop pipes.
LEMMA ClaimOtherReports ==
  ASSUME TypeOK, WaitsMatch, Owned, Reports, Prompt, TRUE \notin Keeps,
         NEW d \in Devs, NEW i \in Itfs, NEW a, ClaimOther(d, i, a)
  PROVE  Reports'
<1>1. CallPolls'
  BY DEF ClaimOther, CallPolls, StartDrop, NoCall
<1>2. SemIsDone'
  BY DEF Reports, tableVars, ClaimOther, SemIsDone
<1>3. CallDone'
  BY DEF ClaimOther, CallDone, StartDrop
<1>4. UnreadIsData'
  BY DEF Reports, ClaimOther, UnreadIsData, StartDrop
<1>5. OnlyTheCalls'
  BY DEF Reports, ClaimOther, OnlyTheCalls, InLibrary, Idle
<1> QED BY <1>1, <1>2, <1>3, <1>4, <1>5 DEF Reports

\* usbif_xfer_release has nothing to release.
LEMMA ReleaseNothingReports ==
  ASSUME TypeOK, WaitsMatch, Owned, Reports, Prompt, TRUE \notin Keeps,
         NEW d \in Devs, NEW i \in Itfs, ReleaseNothing(d, i)
  PROVE  Reports'
<1>1. CallPolls'
  BY DEF Reports, ReleaseNothing, CallPolls, Idle, Refuse
<1>2. SemIsDone'
  BY DEF Reports, tableVars, ReleaseNothing, SemIsDone
<1>3. CallDone'
  BY DEF ReleaseNothing, CallDone, Idle, Refuse
<1>4. UnreadIsData'
  BY DEF Reports, ReleaseNothing, UnreadIsData, Refuse
<1>5. OnlyTheCalls'
  BY DEF Reports, ReleaseNothing, OnlyTheCalls, InLibrary, Refuse
<1> QED BY <1>1, <1>2, <1>3, <1>4, <1>5 DEF Reports

\* usbif_xfer_release starts to drop pipes.
LEMMA ReleaseReports ==
  ASSUME TypeOK, WaitsMatch, Owned, Reports, Prompt, TRUE \notin Keeps,
         NEW d \in Devs, NEW i \in Itfs, Release(d, i)
  PROVE  Reports'
<1>1. CallPolls'
  BY DEF Release, CallPolls, StartDrop, NoCall
<1>2. SemIsDone'
  BY DEF Reports, tableVars, Release, SemIsDone
<1>3. CallDone'
  BY DEF Release, CallDone, StartDrop
<1>4. UnreadIsData'
  BY DEF Reports, Release, UnreadIsData, StartDrop
<1>5. OnlyTheCalls'
  BY DEF Reports, Release, OnlyTheCalls, InLibrary, Idle
<1> QED BY <1>1, <1>2, <1>3, <1>4, <1>5 DEF Reports

\* usbif_xfer_close starts.
LEMMA CloseReports ==
  ASSUME TypeOK, WaitsMatch, Owned, Reports, Prompt, TRUE \notin Keeps, Close
  PROVE  Reports'
<1>1. CallPolls'
  BY DEF Close, CallPolls, CloseCall, NoCall
<1>2. SemIsDone'
  BY DEF Reports, tableVars, Close, SemIsDone
<1>3. CallDone'
  BY DEF Close, CallDone
<1>4. UnreadIsData'
  BY DEF Reports, Close, UnreadIsData
<1>5. OnlyTheCalls'
  BY DEF Reports, Close, OnlyTheCalls, InLibrary, Idle
<1> QED BY <1>1, <1>2, <1>3, <1>4, <1>5 DEF Reports

\* usbif_xfer_close takes the next claim, or ends.
LEMMA CloseNextReports ==
  ASSUME TypeOK, WaitsMatch, Owned, Reports, Prompt, TRUE \notin Keeps, CloseNext
  PROVE  Reports'
<1>1. CallPolls'
  <2>1. pc' \notin {"ep", "retire"} /\ call'.keep = FALSE
    <3>1. CASE Return("ok")
      BY <3>1 DEF Return, NoCall
    <3>2. ASSUME NEW c, StartDrop("close", c[1], c[2], None)
          PROVE  pc' = "drop" /\ call'.keep = FALSE
      BY <3>2 DEF StartDrop, NoCall
    <3> QED BY <3>1, <3>2 DEF CloseNext
  <2> QED BY <2>1 DEF CallPolls
<1>2. SemIsDone'
  BY DEF Reports, tableVars, CloseNext, SemIsDone
<1>3. CallDone'
  BY DEF CloseNext, CallDone, Return, StartDrop
<1>4. UnreadIsData'
  BY DEF Reports, CloseNext, UnreadIsData, Return, StartDrop
<1>5. OnlyTheCalls'
  BY DEF Reports, CloseNext, OnlyTheCalls, InLibrary
<1> QED BY <1>1, <1>2, <1>3, <1>4, <1>5 DEF Reports

\* No pipe is in flight outside a call on it, so drop_pipes waits for none.
LEMMA DropNextReports ==
  ASSUME TypeOK, WaitsMatch, Owned, Reports, Prompt, TRUE \notin Keeps,
         NEW q \in Pipes, DropNext(q)
  PROVE  Reports'
<1>1. pc = "drop" /\ UNCHANGED <<pc, call, cur>> /\ ~pipes[q].busy
  BY NoneBusy DEF DropNext, Dropping
<1>2. CASE DropOrLeak(q, {})
  BY <1>1, <1>2, DropReports, StaysReports DEF CallStays
<1>3. CASE UNCHANGED <<pipes, xfers>>
  BY <1>1, <1>3, StaysReports DEF CallStays, Nearer, Reports, SemIsDone
<1> QED BY <1>1, <1>2, <1>3 DEF DropNext, DropUsed

\* The pipe that drop_pipes waited for goes.
LEMMA DropWaitedReports ==
  ASSUME TypeOK, WaitsMatch, Owned, Reports, Prompt, TRUE \notin Keeps, DropWaited
  PROVE  Reports'
<1>1. pc = "drop" /\ UNCHANGED <<pc, call, cur>> /\ on["call"] \in Pipes
  BY DEF DropWaited, CanResume, WaitsMatch
<1>2. DropOrLeak(on["call"], DevFault(call.dev))
  BY DEF DropWaited
<1> QED BY <1>1, <1>2, DropReports, StaysReports DEF CallStays

\* usbif_xfer_claim releases the interface.
LEMMA ClaimAgainReports ==
  ASSUME TypeOK, WaitsMatch, Owned, Reports, Prompt, TRUE \notin Keeps, ClaimAgain
  PROVE  Reports'
<1>1. CallPolls'
  BY DEF Reports, ClaimAgain, CallPolls
<1>2. SemIsDone'
  BY DEF Reports, ClaimAgain, SemIsDone
<1>3. CallDone'
  BY DEF ClaimAgain, CallDone
<1>4. UnreadIsData'
  BY DEF Reports, ClaimAgain, UnreadIsData
<1>5. OnlyTheCalls'
  BY DEF Reports, ClaimAgain, OnlyTheCalls, InLibrary, Dropping
<1> QED BY <1>1, <1>2, <1>3, <1>4, <1>5 DEF Reports

\* usbif_xfer_claim claims again.
LEMMA ClaimEndsReports ==
  ASSUME TypeOK, WaitsMatch, Owned, Reports, Prompt, TRUE \notin Keeps, ClaimEnds
  PROVE  Reports'
<1>1. CallPolls'
  BY DEF ClaimEnds, CallPolls, NoCall
<1>2. SemIsDone'
  BY DEF Reports, ClaimEnds, SemIsDone
<1>3. CallDone'
  BY DEF ClaimEnds, CallDone
<1>4. UnreadIsData'
  BY DEF Reports, ClaimEnds, UnreadIsData
<1>5. OnlyTheCalls'
  BY DEF Reports, ClaimEnds, OnlyTheCalls, InLibrary
<1> QED BY <1>1, <1>2, <1>3, <1>4, <1>5 DEF Reports

\* usb_host_interface_release, the first try.
LEMMA ReleaseTryReports ==
  ASSUME TypeOK, WaitsMatch, Owned, Reports, Prompt, TRUE \notin Keeps, ReleaseTry
  PROVE  Reports'
<1>1. CallPolls'
  <2>1. pc' \notin {"ep", "retire"} /\ call'.keep = FALSE
    BY DEF ReleaseTry, Released, Return, CloseCall, NoCall, Reports, CallPolls
  <2> QED BY <2>1 DEF CallPolls
<1>2. SemIsDone'
  BY DEF Reports, ReleaseTry, SemIsDone
<1>3. CallDone'
  BY DEF ReleaseTry, CallDone, Released, Return
<1>4. UnreadIsData'
  BY DEF Reports, ReleaseTry, UnreadIsData, Released, Return
<1>5. OnlyTheCalls'
  BY DEF Reports, ReleaseTry, OnlyTheCalls, InLibrary, Dropping
<1> QED BY <1>1, <1>2, <1>3, <1>4, <1>5 DEF Reports

\* And the second.
LEMMA ReleaseRetryReports ==
  ASSUME TypeOK, WaitsMatch, Owned, Reports, Prompt, TRUE \notin Keeps, ReleaseRetry
  PROVE  Reports'
<1>1. CallPolls'
  <2>1. pc' \notin {"ep", "retire"} /\ call'.keep = FALSE
    BY DEF ReleaseRetry, Released, Return, CloseCall, NoCall, Reports, CallPolls, callVars
  <2> QED BY <2>1 DEF CallPolls
<1>2. SemIsDone'
  BY DEF Reports, ReleaseRetry, SemIsDone
<1>3. CallDone'
  BY DEF ReleaseRetry, CallDone, StopWait
<1>4. UnreadIsData'
  BY DEF Reports, ReleaseRetry, UnreadIsData, OnlyTheCalls
<1>5. OnlyTheCalls'
  BY DEF Reports, ReleaseRetry, OnlyTheCalls, InLibrary
<1> QED BY <1>1, <1>2, <1>3, <1>4, <1>5 DEF Reports

\* Every step keeps what is known of reports.
LEMMA NextReports ==
  ASSUME TypeOK, WaitsMatch, Owned, Reports, Prompt, TRUE \notin Keeps, [Next]_vars
  PROVE  Reports'
<1>1. CASE BusNext
  BY <1>1, CompleteReports, CallbackReports, UnplugReports, NewDevReports DEF BusNext
<1>2. CASE GoneNext
  BY <1>2, GoneBeginReports, GoneDropReports, GoneWaitedReports, GoneEndReports DEF GoneNext
<1>3. CASE WaitNext
  BY <1>3, WaitTakeReports, WaitExpireReports, WaitOnDeletedReports DEF WaitNext
<1>4. CASE CtrlNext
  BY <1>4, CtrlRefusedReports, CtrlReports, CtrlDoneReports, CtrlAbandonReports DEF CtrlNext
<1>5. CASE EpNext
  <2>1. ASSUME NEW q \in Pipes, EpRefused(q) \/ EpNull(q) \/ EpNoMemory(q) \/ EpSubmitFails(q)
        PROVE  Reports'
    BY <2>1, EpRefusedReports, EpNullReports, EpNoMemoryReports, EpSubmitFailsReports
  <2>2. ASSUME NEW q \in Pipes, NEW k \in Keeps, NEW f, EpPickUp(q, k, f) \/ EpSubmit(q, k, f)
        PROVE  Reports'
    BY <2>2, EpPickUpReports, EpSubmitReports
  <2> QED BY <1>5, <2>1, <2>2, EpDoneReports, EpKeepReports, EpRetireReports,
             EpRetiredReports
          DEF EpNext
<1>6. CASE ClaimNext
  <2>1. ASSUME NEW d \in Devs, NEW i \in Itfs,
               \/ ReleaseNothing(d, i) \/ Release(d, i)
               \/ \E a \in Alts : ClaimRefused(d, i, a) \/ ClaimFresh(d, i, a) \/ ClaimOther(d, i, a)
        PROVE  Reports'
    BY <2>1, ReleaseNothingReports, ReleaseReports, ClaimRefusedReports, ClaimFreshReports,
       ClaimOtherReports
  <2> QED BY <1>6, <2>1, CloseReports, CloseNextReports, DropNextReports, DropWaitedReports,
             ClaimAgainReports, ClaimEndsReports, ReleaseTryReports, ReleaseRetryReports
          DEF ClaimNext
<1>7. CASE UNCHANGED vars
  BY <1>7 DEF vars, callVars, waitVars, goneVars, tableVars, ctrlVars, Reports, CallPolls,
     SemIsDone, CallDone, UnreadIsData, OnlyTheCalls, Target, InLibrary, In
<1> QED BY <1>1, <1>2, <1>3, <1>4, <1>5, <1>6, <1>7 DEF Next

\* At first nothing is in flight.
LEMMA InitReports == ASSUME Init PROVE Reports
  BY DEF Init, Reports, CallPolls, SemIsDone, CallDone, UnreadIsData, OnlyTheCalls, NoPipe,
     NoCall, FreeXfer, InLibrary

\* Where a step may leave a transfer's data.
Handed(x) ==
  xfers[x].st = "caller" /\ xfers[x].unread /\ ~xfers'[x].unread =>
    \/ ret' = "data" /\ cur = x
    \/ xfers'[x].st = "free" /\ (pc = "drop" \/ lock' # "none")

\* drop_pipes frees what its pipe holds, data and all.
LEMMA DropHands ==
  ASSUME TypeOK, NEW q, NEW more, DropOrLeak(q, more), NEW x \in Xfers
  PROVE  xfers'[x] = xfers[x] \/ xfers'[x].st = "free"
  BY DEF DropOrLeak, Freed, FreeXfer, TypeOK

\* Between calls there is nothing to hand over.
LEMMA NothingUnread ==
  ASSUME Reports, pc \notin {"ep", "retire"}, NEW x \in Xfers
  PROVE  ~xfers[x].unread
  BY DEF Reports, OnlyTheCalls, UnreadIsData

\* A step loses no report: in a call only its answer takes the data, elsewhere only
\* a drop does.
LEMMA StepHands ==
  ASSUME TypeOK, WaitsMatch, Owned, Reports, [Next]_vars, NEW x \in Xfers PROVE Handed(x)
<1> USE DEF callVars, waitVars, goneVars, tableVars, ctrlVars
<1> SUFFICES ASSUME xfers[x].st = "caller", xfers[x].unread, ~xfers'[x].unread
             PROVE  \/ ret' = "data" /\ cur = x
                    \/ xfers'[x].st = "free" /\ (pc = "drop" \/ lock' # "none")
  BY DEF Handed
<1>1. pc \in {"ep", "retire"} /\ xfers[x].at \in Pipes /\ cur = x
  BY DEF Reports, OnlyTheCalls, UnreadIsData
<1>2. xfers'[x] # xfers[x]
  OBVIOUS
<1>3. ASSUME NEW y \in Xfers, Complete(y) PROVE FALSE
  BY <1>2, <1>3 DEF Complete, TypeOK
<1>4. ASSUME NEW y \in Xfers, Callback(y) PROVE FALSE
  <2>1. xfers[y].st = "done" /\ y # x
    BY <1>4 DEF Callback
  <2> QED BY <1>2, <1>4, <2>1 DEF Callback, CtrlCb, EpCb, Freed, TypeOK
<1>5. ASSUME NEW d \in Devs, Unplug(d) \/ NewDev(d) PROVE FALSE
  BY <1>2, <1>5 DEF Unplug, NewDev
<1>6. ASSUME NEW h \in Handlers, NEW d, GoneBegin(h, d) \/ GoneEnd(h) PROVE FALSE
  BY <1>2, <1>6 DEF GoneBegin, GoneEnd
<1>7. ASSUME NEW h \in Handlers, NEW q \in Pipes, GoneDrop(h, q)
      PROVE  xfers'[x].st = "free" /\ lock' # "none"
  <2>1. DropOrLeak(q, {}) /\ lock' = Task(h)
    BY <1>2, <1>7 DEF GoneDrop, DropUsed
  <2> QED BY <1>2, <2>1, DropHands DEF Task
<1>8. ASSUME NEW h \in Handlers, GoneWaited(h) PROVE xfers'[x].st = "free" /\ lock' # "none"
  BY <1>2, <1>8, DropHands DEF GoneWaited, Task
<1>9. CASE WaitNext
  BY <1>2, <1>9 DEF WaitNext, WaitTake, WaitExpire, WaitOnDeleted
<1>10. CASE CtrlNext
  BY <1>1, <1>2, <1>10 DEF CtrlNext, CtrlRefused, Ctrl, CtrlDone, CtrlAbandon, Idle
<1>11. CASE EpNext
  <2>1. ASSUME NEW q, EpRefused(q) \/ EpNull(q) \/ EpNoMemory(q) \/ EpSubmitFails(q) PROVE FALSE
    BY <1>1, <2>1 DEF EpRefused, EpNull, EpNoMemory, EpSubmitFails, EpReady, Idle
  <2>2. ASSUME NEW q, NEW k, NEW f, EpPickUp(q, k, f) \/ EpSubmit(q, k, f) PROVE FALSE
    BY <1>1, <2>2 DEF EpPickUp, EpSubmit, EpReady, Idle
  <2>3. ASSUME NEW r, EpResult(r) PROVE ret' = "data" /\ cur = x
    <3>1. CASE r # "data"
      <4>1. xfers'[x].unread = (xfers[x].unread /\ r # "data")
        BY <1>1, <2>3 DEF EpResult, TypeOK
      <4> QED BY <3>1, <4>1
    <3>2. CASE r = "data"
      BY <1>1, <2>3, <3>2 DEF EpResult, Return
    <3> QED BY <3>1, <3>2
  <2>4. CASE EpRetire
    BY <1>2, <2>4 DEF EpRetire, Flushed
  <2> QED BY <1>11, <2>1, <2>2, <2>3, <2>4 DEF EpNext, EpDone, EpKeep, EpRetired
<1>12. CASE ClaimNext
  <2>1. ASSUME NEW d, NEW i, NEW a,
               \/ ReleaseNothing(d, i) \/ Release(d, i) \/ ClaimRefused(d, i, a)
               \/ ClaimFresh(d, i, a) \/ ClaimOther(d, i, a)
        PROVE  FALSE
    BY <1>1, <2>1 DEF ReleaseNothing, Release, ClaimRefused, ClaimFresh, ClaimOther
  <2>2. ASSUME NEW q, DropNext(q) PROVE FALSE
    BY <1>1, <2>2 DEF DropNext, Dropping
  <2>3. CASE Close \/ CloseNext \/ DropWaited \/ ClaimAgain \/ ClaimEnds
    BY <1>1, <2>3 DEF Close, CloseNext, DropWaited, ClaimAgain, ClaimEnds
  <2>4. CASE ReleaseTry \/ ReleaseRetry
    BY <1>1, <2>4 DEF ReleaseTry, ReleaseRetry
  <2> QED BY <1>12, <2>1, <2>2, <2>3, <2>4 DEF ClaimNext
<1>13. CASE UNCHANGED vars
  BY <1>2, <1>13 DEF vars
<1>14. CASE BusNext
  BY <1>3, <1>4, <1>5, <1>14 DEF BusNext
<1>15. CASE GoneNext
  BY <1>6, <1>7, <1>8, <1>15 DEF GoneNext
<1> QED BY <1>9, <1>10, <1>11, <1>12, <1>13, <1>14, <1>15 DEF Next

\* For any devices and pipes, unplugged and out of memory as they may be: what a
\* read's transfer brought is handed to that read, or goes away with its interface,
\* as long as nobody polls (a kept poll that ended by itself is submitted afresh) and
\* a canceled transfer's callback comes within usbif_xfer_retire's 100 ms.
THEOREM ReportsDelivered == ASSUME Prompt, TRUE \notin Keeps PROVE Spec => NoReportLost
<1>1. IInv /\ Reports /\ [Next]_vars => Reports'
  BY NextReports DEF IInv, OwnersSafe
<1>2. IInv /\ Reports /\ [Next]_vars =>
        [\A x \in Xfers :
           xfers[x].st = "caller" /\ xfers[x].unread /\ ~xfers'[x].unread =>
             \/ ret' = "data" /\ cur = x
             \/ xfers'[x].st = "free" /\ (pc = "drop" \/ lock' # "none")]_vars
  BY StepHands DEF Handed, IInv, OwnersSafe
<1> QED BY <1>1, <1>2, InitReports, Inductive, PTL DEF Spec, NoReportLost
=============================================================================
