----------------------------- MODULE HostEvents -----------------------------
(***************************************************************************)
(* How the interpreter learns of devices: the slots and the events of      *)
(* src/src/usbif_host.c (on_new_dev, on_dev_gone, snapshot), the lock-free *)
(* ring of src/src/shared/usbif_ringbuf.c between them, and host_start,    *)
(* host_stop, host_drain and host_devices of src/src/mod_usbif.c.          *)
(*                                                                         *)
(* The host task produces (tp), the interpreter consumes (vm), on two      *)
(* cores and without a lock: an action reads or writes the shared state    *)
(* once.  Records carry the device's address only; what else is in one is  *)
(* written with it.  The program keeps in `known' what the records told it.*)
(***************************************************************************)
EXTENDS Naturals, Sequences, FiniteSets

CONSTANTS
  Devs, NoDev,    \* device addresses, and a slot's before its first device
  MaxSlots,       \* USBIF_HOST_MAX_DEVS
  Capacity,       \* USBIF_EVENT_CAPACITY; the ring holds one record less
  MaxDropped      \* bound: `dropped' stays there (only zero or not is ever told)

ASSUME DevsAssumption == IsFiniteSet(Devs) /\ NoDev \notin Devs
ASSUME SizesAssumption == MaxSlots \in Nat \ {0} /\ Capacity \in Nat \ {0, 1}
ASSUME BoundAssumption == MaxDropped \in Nat \ {0}

VARIABLES
  opened,                       \* the devices the client has open
  slots,                        \* usbif_host_devs
  tp, cur, ci, event, count,    \* the host task: where it is, and its locals
  head, tail, recs, dropped,    \* usbif_events
  running,                      \* usbif_host_running, of mod_usbif.c
  vm, popped, taken, row, rows, \* the interpreter: where it is, and its locals
  known,                        \* the devices the records drained told of
  missed, owed,                 \* a record was dropped in this session; since
                                \* the last drain that said so
  quiet                         \* no slot was written since the snapshot began, nor
                                \* was one in use then and yet to be filled in

ring == <<head, tail, recs, dropped>>
task == <<tp, cur, ci, event, count>>
interp == <<vm, popped, taken, row, rows>>
history == <<known, missed, owed, quiet>>
vars == <<opened, slots, task, ring, running, interp, history>>

SlotNos == 1..MaxSlots
Places == 0..(Capacity - 1)
Ev(k, d) == [kind |-> k, dev |-> d]
NoEvent == Ev("none", NoDev)
Events == [kind : {"attach", "detach"}, dev : Devs]
UsedSlots == {i \in SlotNos : slots[i].used}
Attached == {slots[i].dev : i \in UsedSlots}

\* Dead locals are reset, so that equal states are equal.
SlotWritten == quiet' = (vm \notin {"look", "copy", "rows"})

NoSlots == [i \in SlotNos |-> [used |-> FALSE, dev |-> NoDev]]
EmptyRing == head = 0 /\ tail = 0 /\ dropped = 0

Init ==
  /\ opened = {} /\ slots = NoSlots
  /\ tp = "none" /\ cur = NoDev /\ ci = 1 /\ event = NoEvent /\ count = 0
  /\ EmptyRing /\ recs = [i \in Places |-> NoEvent]
  /\ running = FALSE
  /\ vm = "idle" /\ popped = NoEvent /\ taken = 0 /\ row = 1 /\ rows = {}
  /\ known = {} /\ missed = FALSE /\ owed = FALSE /\ quiet = TRUE

----------------------------------------------------------------------------
\* usbif_host_on_new_dev, of a device it keeps: the first free slot is in use,
\* then filled in, then told of.  (One that finds no slot, cannot be opened or is
\* outside the class filter changes nothing here.)
NewDevTaken(d) ==
  /\ tp = "pump" /\ d \notin opened
  /\ \E i \in SlotNos \ UsedSlots :
       /\ \A j \in 1..(i - 1) : j \in UsedSlots
       /\ slots' = [slots EXCEPT ![i].used = TRUE] /\ ci' = i
  /\ opened' = opened \cup {d} /\ cur' = d /\ tp' = "fields" /\ SlotWritten
  /\ UNCHANGED <<event, count, ring, running, interp, known, missed, owed>>

NewDevFields ==
  /\ tp = "fields" /\ tp' = "push"
  /\ slots' = [slots EXCEPT ![ci].dev = cur] /\ event' = Ev("attach", cur)
  /\ SlotWritten
  /\ UNCHANGED <<opened, cur, ci, count, ring, running, interp, known, missed, owed>>

\* usbif_host_on_dev_gone: told of, then closed and the slot freed.
DevGone(i) ==
  /\ tp = "pump" /\ i \in UsedSlots /\ tp' = "push"
  /\ cur' = slots[i].dev /\ ci' = i /\ event' = Ev("detach", slots[i].dev)
  /\ UNCHANGED <<opened, slots, count, ring, running, interp, history>>

\* Mutant: the slot stays in use.
MutDevClosed ==
  /\ tp = "close" /\ tp' = "pump"
  /\ opened' = opened \ {cur} /\ cur' = NoDev /\ ci' = 1
  /\ UNCHANGED <<slots, event, count, ring, running, interp, history>>

DevClosed ==
  /\ tp = "close" /\ tp' = "pump"
  /\ opened' = opened \ {cur} /\ slots' = [slots EXCEPT ![ci].used = FALSE]
  /\ cur' = NoDev /\ ci' = 1 /\ SlotWritten
  /\ UNCHANGED <<event, count, ring, running, interp, known, missed, owed>>

\* usbif_rb_push, by nobody but the host task.
NextIndex(i) == IF i + 1 = Capacity THEN 0 ELSE i + 1

Pushed ==
  /\ event' = NoEvent
  /\ IF event.kind = "attach"
       THEN tp' = "pump" /\ cur' = NoDev /\ ci' = 1
       ELSE tp' = "close" /\ UNCHANGED <<cur, ci>>

\* Mutant: the record goes to the slot after the one published.
MutPushSlot ==
  /\ tp = "push" /\ NextIndex(head) # tail /\ tp' = "publish"
  /\ recs' = [recs EXCEPT ![NextIndex(head)] = event]
  /\ UNCHANGED <<opened, slots, cur, ci, event, count, head, tail, dropped, running, interp, history>>

\* The record's slot is written first and head published after it.
PushSlot ==
  /\ tp = "push" /\ NextIndex(head) # tail /\ tp' = "publish"
  /\ recs' = [recs EXCEPT ![head] = event]
  /\ UNCHANGED <<opened, slots, cur, ci, event, count, head, tail, dropped, running, interp, history>>

PushHead ==
  /\ tp = "publish" /\ head' = NextIndex(head) /\ Pushed
  /\ UNCHANGED <<opened, slots, count, tail, recs, dropped, running, interp, history>>

\* dropped++ on a volatile: a load and a store.
PushFull ==
  /\ tp = "push" /\ NextIndex(head) = tail /\ tp' = "drop"
  /\ count' = dropped
  /\ UNCHANGED <<opened, slots, cur, ci, event, ring, running, interp, history>>

PushDrop ==
  /\ tp = "drop" /\ Pushed
  /\ dropped' = IF count < MaxDropped THEN count + 1 ELSE count
  /\ missed' = TRUE /\ owed' = TRUE /\ count' = 0
  /\ UNCHANGED <<opened, slots, head, tail, recs, running, interp, known, quiet>>

----------------------------------------------------------------------------
\* host_drain: records up to the limit, then whether any was dropped.

Replay(devs, e) == IF e.kind = "attach" THEN devs \cup {e.dev} ELSE devs \ {e.dev}

DrainBegin ==
  /\ vm = "idle" /\ vm' = "pop"
  /\ UNCHANGED <<opened, slots, task, ring, running, popped, taken, row, rows, history>>

PopEnds ==
  /\ vm = "pop" /\ vm' = "take"        \* the ring is empty, or the limit reached
  /\ UNCHANGED <<opened, slots, task, ring, running, popped, taken, row, rows, history>>

PopCopy ==
  /\ vm = "pop" /\ tail # head /\ vm' = "popped" /\ popped' = recs[tail]
  /\ UNCHANGED <<opened, slots, task, ring, running, taken, row, rows, history>>

PopStore ==
  /\ vm = "popped" /\ vm' = "pop" /\ tail' = NextIndex(tail)
  /\ popped' = NoEvent /\ known' = Replay(known, popped)
  /\ UNCHANGED <<opened, slots, task, head, recs, dropped, running, taken, row, rows,
                 missed, owed, quiet>>

\* usbif_rb_take_dropped: a load, and a store of zero.
TakeLoad ==
  /\ vm = "take" /\ vm' = "taken" /\ taken' = dropped
  /\ UNCHANGED <<opened, slots, task, ring, running, popped, row, rows, history>>

\* Mutant: the count is read and not cleared.
MutTakeStore ==
  /\ vm = "taken" /\ vm' = "idle" /\ owed' = (owed /\ taken = 0)
  /\ UNCHANGED <<opened, slots, task, ring, running, popped, taken, row, rows, known,
                 missed, quiet>>

TakeStore ==
  /\ vm = "taken" /\ vm' = "idle" /\ dropped' = 0
  /\ owed' = (owed /\ taken = 0) /\ taken' = 0
  /\ UNCHANGED <<opened, slots, task, head, tail, recs, running, popped, row, rows,
                 known, missed, quiet>>

\* host_devices: usbif_host_snapshot looks at each slot and copies those in use.
SnapshotBegin ==
  /\ vm = "idle" /\ vm' = "look" /\ row' = 1 /\ rows' = {} /\ quiet' = (tp # "fields")
  /\ UNCHANGED <<opened, slots, task, ring, running, popped, taken, known, missed, owed>>

RowDone ==
  IF row < MaxSlots THEN row' = row + 1 /\ vm' = "look" ELSE vm' = "rows" /\ UNCHANGED row

\* Mutant: a slot not in use ends the snapshot.
MutSnapshotSkip ==
  /\ vm = "look" /\ row \notin UsedSlots /\ vm' = "rows"
  /\ UNCHANGED <<opened, slots, task, ring, running, popped, taken, row, rows, history>>

SnapshotSkip ==
  /\ vm = "look" /\ row \notin UsedSlots /\ RowDone
  /\ UNCHANGED <<opened, slots, task, ring, running, popped, taken, rows, history>>

SnapshotLook ==
  /\ vm = "look" /\ row \in UsedSlots /\ vm' = "copy"
  /\ UNCHANGED <<opened, slots, task, ring, running, popped, taken, row, rows, history>>

SnapshotCopy ==
  /\ vm = "copy" /\ rows' = rows \cup {slots[row].dev} /\ RowDone
  /\ UNCHANGED <<opened, slots, task, ring, running, popped, taken, history>>

SnapshotEnds ==
  /\ vm = "rows" /\ vm' = "idle" /\ rows' = {} /\ row' = 1 /\ quiet' = TRUE
  /\ UNCHANGED <<opened, slots, task, ring, running, popped, taken, known, missed, owed>>

----------------------------------------------------------------------------
\* Mutant: every host_start initialises the ring.
MutHostStart ==
  /\ vm = "idle" /\ running' = TRUE
  /\ head' = 0 /\ tail' = 0 /\ dropped' = 0
  /\ IF running
       THEN UNCHANGED <<tp, known, missed, owed>>
       ELSE tp' = "pump" /\ known' = {} /\ missed' = FALSE /\ owed' = FALSE
  /\ UNCHANGED <<opened, slots, cur, ci, event, count, recs, interp, quiet>>

\* host_start: the ring is initialised by a genuine start only.
\* (usbif_host_start_c's own part is in HostLife.)
HostStart ==
  /\ vm = "idle" /\ running' = TRUE
  /\ IF running
       THEN UNCHANGED <<tp, head, tail, dropped, known, missed, owed>>
       ELSE /\ tp' = "pump" /\ head' = 0 /\ tail' = 0 /\ dropped' = 0
            /\ known' = {} /\ missed' = FALSE /\ owed' = FALSE
  /\ UNCHANGED <<opened, slots, cur, ci, event, count, recs, interp, quiet>>

\* host_stop: the task finishes what it is at and closes every device; no
\* records tell of it.
HostStop ==
  /\ vm = "idle" /\ tp = "pump" /\ tp' = "none" /\ running' = FALSE
  /\ opened' = {} /\ slots' = [i \in SlotNos |-> [slots[i] EXCEPT !.used = FALSE]]
  /\ SlotWritten
  /\ UNCHANGED <<cur, ci, event, count, ring, interp, known, missed, owed>>

----------------------------------------------------------------------------
Next ==
  \/ NewDevFields \/ DevClosed \/ PushSlot \/ PushHead \/ PushFull \/ PushDrop
  \/ DrainBegin \/ PopEnds \/ PopCopy \/ PopStore \/ TakeLoad \/ TakeStore
  \/ SnapshotBegin \/ SnapshotSkip \/ SnapshotLook \/ SnapshotCopy \/ SnapshotEnds
  \/ HostStart \/ HostStop
  \/ \E d \in Devs : NewDevTaken(d)
  \/ \E i \in SlotNos : DevGone(i)

Spec == Init /\ [][Next]_vars

----------------------------------------------------------------------------
\* Every variable has its type.
TypeOK ==
  /\ opened \subseteq Devs /\ slots \in [SlotNos -> [used : BOOLEAN, dev : Devs \cup {NoDev}]]
  /\ tp \in {"none", "pump", "fields", "push", "publish", "drop", "close"}
  /\ cur \in Devs \cup {NoDev} /\ ci \in SlotNos /\ event \in Events \cup {NoEvent}
  /\ count \in Nat /\ head \in Places /\ tail \in Places /\ dropped \in Nat
  /\ recs \in [Places -> Events \cup {NoEvent}] /\ running \in BOOLEAN
  /\ vm \in {"idle", "pop", "popped", "take", "taken", "look", "copy", "rows"}
  /\ popped \in Events \cup {NoEvent} /\ taken \in Nat
  /\ row \in SlotNos /\ rows \subseteq Devs \cup {NoDev} /\ known \subseteq Devs
  /\ missed \in BOOLEAN /\ owed \in BOOLEAN /\ quiet \in BOOLEAN

\* The records in the ring, oldest first (usbif_rb_count of them).
Waiting == IF head >= tail THEN head - tail ELSE Capacity - tail + head
Queue == [i \in 1..Waiting |-> recs[(tail + i - 1) % Capacity]]

\* The ring implements the queue, though its two ends are moved from two cores.
Contract == INSTANCE EventContract
  WITH q <- Queue, got <- popped, Records <- Events, Nothing <- NoEvent, Depth <- Capacity - 1
KeepsQueue == Contract!Spec

\* What the records say of a device: the last one that waits for it has the last
\* word, and if none does, what the records drained told (Replay).
Told(d) ==
  \/ \E i \in 1..Waiting : /\ Queue[i] = Ev("attach", d)
                           /\ \A j \in (i + 1)..Waiting : Queue[j].dev # d
  \/ d \in known /\ \A i \in 1..Waiting : Queue[i].dev # d

\* While nothing was dropped, what the program was told and what waits in the
\* ring together give the devices attached, also over a host_start() repeated
\* on a running host and over a restart.
EventsTellAll == running /\ tp = "pump" /\ ~missed => {d \in Devs : Told(d)} = Attached

\* Between callbacks the slots in use are the devices the client has open, one
\* slot each: nothing is left open that no slot tells teardown to close.
SlotsAreOpen ==
  tp = "pump" => /\ Attached = opened
                 /\ \A i, j \in UsedSlots : slots[i].dev = slots[j].dev => i = j

\* The state is well formed, the slots tell the teardown all there is to close, and
\* the records tell the program all there is to know.
Consistent == TypeOK /\ SlotsAreOpen /\ EventsTellAll

\* A snapshot that no callback writing a slot overlaps gives exactly the devices the
\* client has open.  (One that begins between on_new_dev's in_use and its fields is
\* overlapped, though nothing more be written: RowsExplained.)
SnapshotIsTrue == vm = "rows" /\ quiet => rows = opened

\* host_drain() says that records were lost only when one was since it last said
\* so: a loss is learnt of once ("exactly once", usbif_ringbuf.h).
ReportedOnce == [][vm = "taken" /\ vm' = "idle" /\ taken > 0 => owed]_vars

\* "Overflow is recorded, never silent" (usbif_ringbuf.h): a loss not yet told
\* is in the count the next drain reads.
NeverSilent == owed /\ vm = "idle" /\ tp # "drop" => dropped > 0

\* "Each field is written before in_use is set and after it is cleared, so a torn
\* row is bounded to a device changing state mid-snapshot -- which the next poll()'s
\* events describe anyway" (usbif_host.c): a row names a device that is attached, or
\* of which a record is still to come.
RowsExplained ==
  vm = "rows" /\ running /\ ~missed =>
    \A d \in rows \cap Devs :
      \/ d \in opened
      \/ tp \in {"push", "publish"} /\ event.dev = d
      \/ \E i \in 1..Waiting : Queue[i].dev = d
=============================================================================
