------------------------------ MODULE PcmSink ------------------------------
(***************************************************************************)
(* The lifetime gate behind a playback stream's ring                       *)
(* (src/src/shared/usbif_pcm_sink.c), the byte ring it guards              *)
(* (src/src/shared/usbif_byte_ring.c) and the stream's use of both         *)
(* (src/src/usbif_host_stream.c), one atomic operation of the C code a     *)
(* step.  Every gate operation but the last decrement is sequentially      *)
(* consistent, so steps interleave in one order.                           *)
(*                                                                         *)
(* The actors are the interpreter, the tasks of other native modules that  *)
(* hold a copy of a C sink, and the host task, which takes bytes for the   *)
(* bus and closes the stream of a device that went away.  The interpreter  *)
(* never lets go of the GIL in these calls, so it is in one of them at a   *)
(* time.  Closing, and taking bytes, happen under the host lock, so they   *)
(* exclude each other; nothing excludes the writers.                       *)
(***************************************************************************)
EXTENDS Integers, Sequences, FiniteSets

CONSTANTS
  Tasks,        \* tasks that write through a C sink
  Interp,       \* the interpreter, which writes through host_stream_write
  Size,         \* bytes in the ring
  Frames,       \* the frame sizes a stream may have
  Lens,         \* the lengths a caller may offer
  MaxOpens,     \* bound: the streams opened in the slot
  SinkGenMax    \* the last generation a C sink's ctx can carry (2^30 - 1)

Callers == Tasks \cup {Interp}

ASSUME CallersAssumption == Interp \notin Tasks /\ IsFiniteSet(Tasks)
ASSUME SizeAssumption == Size \in Nat \ {0} /\ Lens \subseteq Nat
ASSUME FramesAssumption == Frames \subseteq 1..Size
ASSUME BoundAssumption == MaxOpens \in Nat /\ SinkGenMax \in Nat

VARIABLES
  live,         \* the open stream's generation, 0 while closed
  users,        \* write and space calls in progress
  busy,         \* a producer holds the try-lock
  lastGen,      \* the latest generation handed out
  frame,        \* bytes of a frame, what writes are cut to
  held,         \* the ring's storage exists
  buf,          \* its bytes
  head, tail,   \* its indices, over two laps
  owner,        \* where the stream's owner is
  closer,       \* who is closing it
  pc,           \* where each caller is
  op,           \* the call it is in
  gen,          \* the generation it calls with
  n,            \* the bytes it has settled on
  at,           \* the head index it loaded
  sink,         \* the generation in the C sink a task holds, 0 for none
  taking        \* bytes the host task has copied out and not yet released

gate == <<live, users, busy, lastGen, frame>>
ring == <<held, buf, head, tail>>
calls == <<pc, op, gen, n, at, sink>>
vars == <<gate, ring, calls, owner, closer, taking>>

----------------------------------------------------------------------------
\* The byte ring.

NoByte == <<>>
Index == 0..(2 * Size - 1)
LeastOf(a, b) == IF a < b THEN a ELSE b

\* Bytes between two indices: the second lap tells full from empty.
Span(h, t) == IF h >= t THEN h - t ELSE h + 2 * Size - t
\* Mutant: off by one at the end of the second lap.
MutAdvance(i, k) == IF i + k > 2 * Size THEN i + k - 2 * Size ELSE i + k
Advance(i, k) == IF i + k >= 2 * Size THEN i + k - 2 * Size ELSE i + k

\* Where the k-th byte after index i is stored; the copy is in two pieces
\* when it passes the end.
Place(i, k) == (i + k) % Size

Room == Size - Span(head, tail)
Cut(k) == k - (k % frame)

\* What a reader finds between the indices, oldest first.
Contents == [i \in 1..Span(head, tail) |-> buf[Place(tail, i - 1)]]

Init ==
  /\ live = 0 /\ users = 0 /\ busy = FALSE /\ lastGen = 0 /\ frame = 1
  /\ held = FALSE /\ buf = [i \in 0..(Size - 1) |-> NoByte]
  /\ head = 0 /\ tail = 0
  /\ owner = "none" /\ closer = "none" /\ taking = 0
  /\ pc = [c \in Callers |-> "out"] /\ op = [c \in Callers |-> "write"]
  /\ gen = [c \in Callers |-> 0] /\ sink = [c \in Tasks |-> 0]
  /\ n = [c \in Callers |-> 0] /\ at = [c \in Callers |-> 0]

----------------------------------------------------------------------------
\* The owner: usbif_stream_open, usbif_stream_stop_locked.

FreshRing == head' = 0 /\ tail' = 0 /\ buf' = [i \in 0..(Size - 1) |-> NoByte]

InterpFree == pc[Interp] = "out" /\ closer # "interp"

\* usbif_pcm_sink_open up to the store that publishes it, after the owner put
\* an empty ring in the slot.  Opened at most MaxOpens times: 2^32 - 1 opens
\* take the generation back to 1, which is out of this model's bounds.
OpenBegin ==
  /\ owner = "none" /\ InterpFree /\ lastGen < MaxOpens
  /\ owner' = "opening"
  /\ lastGen' = lastGen + 1
  /\ frame' \in Frames
  /\ held' = TRUE /\ FreshRing
  /\ UNCHANGED <<live, users, busy, calls, closer, taking>>

OpenPublish ==
  /\ owner = "opening"
  /\ owner' = "open" /\ live' = lastGen
  /\ UNCHANGED <<users, busy, lastGen, frame, ring, calls, closer, taking>>

\* usbif_pcm_sink_close, from the interpreter or, when the device went away,
\* from the host task.  A stream whose transfers did not come back is closed
\* again by the next stop.
CloseStore(who) ==
  /\ owner \in {"open", "closed"} /\ closer = "none" /\ taking = 0
  /\ who = "interp" => pc[Interp] = "out"
  /\ live' = 0 /\ owner' = "closing" /\ closer' = who
  /\ UNCHANGED <<users, busy, lastGen, frame, ring, calls, taking>>

\* Mutant: close does not wait (USBIF_PCM_SINK_PLANT_NO_WAIT).
MutCloseReturn ==
  /\ owner = "closing"
  /\ owner' = "closed" /\ closer' = "none"
  /\ UNCHANGED <<gate, ring, calls, taking>>

\* The loop's load of `users`; anything but zero is another turn of wait().
CloseReturn ==
  /\ owner = "closing" /\ users = 0
  /\ owner' = "closed" /\ closer' = "none"
  /\ UNCHANGED <<gate, ring, calls, taking>>

\* The owner frees the ring the moment close has returned.
FreeRing ==
  /\ owner = "closed" /\ InterpFree
  /\ owner' = "none" /\ held' = FALSE /\ FreshRing
  /\ UNCHANGED <<gate, calls, closer, taking>>

----------------------------------------------------------------------------
\* usbif_stream_fill: the host task takes whole frames for a packet.

TakeLoad ==
  /\ owner = "open" /\ taking = 0
  /\ taking' \in {k \in 1..Span(head, tail) : k % frame = 0}
  /\ UNCHANGED <<gate, ring, calls, owner, closer>>

TakeStore ==
  /\ taking > 0
  /\ tail' = Advance(tail, taking) /\ taking' = 0
  /\ UNCHANGED <<gate, held, buf, head, calls, owner, closer>>

----------------------------------------------------------------------------
\* The callers.

Goes(c, from, to) == pc[c] = from /\ pc' = [pc EXCEPT ![c] = to]

\* A call that returned has no locals left.
Forget(c) ==
  /\ op' = [op EXCEPT ![c] = "write"] /\ gen' = [gen EXCEPT ![c] = 0]
  /\ n' = [n EXCEPT ![c] = 0] /\ at' = [at EXCEPT ![c] = 0]

\* usbif_stream_c_sink: the interpreter issues a sink and a task copies it.
CSink(t) ==
  /\ owner = "open" /\ InterpFree /\ pc[t] = "out"
  /\ live \in 1..SinkGenMax
  /\ sink' = [sink EXCEPT ![t] = live]
  /\ UNCHANGED <<gate, ring, pc, op, gen, n, at, owner, closer, taking>>

\* enter's fetch_add, under the generation the C sink names.
CallSink(t) ==
  /\ sink[t] # 0 /\ Goes(t, "out", "added")
  /\ op' \in {[op EXCEPT ![t] = o] : o \in {"write", "space"}}
  /\ n' \in {[n EXCEPT ![t] = k] : k \in Lens}
  /\ gen' = [gen EXCEPT ![t] = sink[t]]
  /\ users' = users + 1
  /\ UNCHANGED <<live, busy, lastGen, frame, ring, at, sink, owner, closer, taking>>

\* usbif_stream_out, without the lock: the slot is in use and open.
CallInterp ==
  /\ owner = "open" /\ InterpFree /\ Goes(Interp, "out", "found")
  /\ op' \in {[op EXCEPT ![Interp] = o] : o \in {"write", "space"}}
  /\ n' \in {[n EXCEPT ![Interp] = k] : k \in Lens}
  /\ UNCHANGED <<gate, ring, gen, at, sink, owner, closer, taking>>

\* usbif_pcm_sink_current, then enter's fetch_add with what it read.
Current ==
  /\ Goes(Interp, "found", "current")
  /\ gen' = [gen EXCEPT ![Interp] = live]
  /\ UNCHANGED <<gate, ring, op, n, at, sink, owner, closer, taking>>

AddInterp ==
  /\ Goes(Interp, "current", "added") /\ users' = users + 1
  /\ UNCHANGED <<live, busy, lastGen, frame, ring, op, gen, n, at, sink, owner, closer, taking>>

\* enter's load of `live`.
Enter(c) ==
  /\ gen[c] # 0 /\ live = gen[c] /\ Goes(c, "added", "in")
  /\ UNCHANGED <<gate, ring, op, gen, n, at, sink, owner, closer, taking>>

Refuse(c) ==
  /\ gen[c] = 0 \/ live # gen[c]
  /\ Goes(c, "added", "refused")
  /\ UNCHANGED <<gate, ring, op, gen, n, at, sink, owner, closer, taking>>

\* Mutant: the early return forgets the decrement.
MutRefusedLeave(c) ==
  /\ Goes(c, "refused", "out")
  /\ sink' = IF c \in Tasks THEN [sink EXCEPT ![c] = 0] ELSE sink
  /\ Forget(c) /\ UNCHANGED <<gate, ring, owner, closer, taking>>

\* A refused call answers -1, which means: stop and forget this sink.
RefusedLeave(c) ==
  /\ Goes(c, "refused", "out") /\ users' = users - 1
  /\ sink' = IF c \in Tasks THEN [sink EXCEPT ![c] = 0] ELSE sink
  /\ Forget(c) /\ UNCHANGED <<live, busy, lastGen, frame, ring, owner, closer, taking>>

\* Mutant: no try-lock (USBIF_PCM_SINK_PLANT_NO_TRYLOCK).
MutTryLock(c) ==
  /\ op[c] = "write" /\ Goes(c, "in", "room") /\ busy' = TRUE
  /\ UNCHANGED <<live, users, lastGen, frame, ring, op, gen, n, at, sink, owner, closer, taking>>

\* The exchange on `busy`: the loser takes nothing.
TryLock(c) ==
  /\ op[c] = "write" /\ ~busy /\ Goes(c, "in", "room") /\ busy' = TRUE
  /\ UNCHANGED <<live, users, lastGen, frame, ring, op, gen, n, at, sink, owner, closer, taking>>

LoseLock(c) ==
  /\ op[c] = "write" /\ busy /\ Goes(c, "in", "leave")
  /\ UNCHANGED <<gate, ring, op, gen, n, at, sink, owner, closer, taking>>

\* usbif_pcm_sink_space reads the ring's indices and its frame, nothing else.  (Its two
\* loads are one step: what it tells is only how much a later write may find room for.)
SpaceRead(c) ==
  /\ op[c] = "space" /\ Goes(c, "in", "leave")
  /\ n' = [n EXCEPT ![c] = Cut(Room)]
  /\ UNCHANGED <<gate, ring, op, gen, at, sink, owner, closer, taking>>

\* Mutant: what fits is taken, whole frames or not.
MutReadRoom(c) ==
  /\ pc[c] = "room"
  /\ LET k == LeastOf(n[c], Room) IN
       /\ n' = [n EXCEPT ![c] = k]
       /\ pc' = [pc EXCEPT ![c] = IF k = 0 THEN "unlock" ELSE "push"]
  /\ UNCHANGED <<gate, ring, op, gen, at, sink, owner, closer, taking>>

\* ops->room, and the cut to whole frames.
ReadRoom(c) ==
  /\ pc[c] = "room"
  /\ LET k == Cut(LeastOf(n[c], Room)) IN
       /\ n' = [n EXCEPT ![c] = k]
       /\ pc' = [pc EXCEPT ![c] = IF k = 0 THEN "unlock" ELSE "push"]
  /\ UNCHANGED <<gate, ring, op, gen, at, sink, owner, closer, taking>>

\* usbif_byte_ring_push: the loads, the copy, the store of head.
PushLoad(c) ==
  /\ pc[c] = "push"
  /\ LET k == LeastOf(n[c], Room) IN
       /\ n' = [n EXCEPT ![c] = k]
       /\ pc' = [pc EXCEPT ![c] = IF k = 0 THEN "unlock" ELSE "copy"]
  /\ at' = [at EXCEPT ![c] = head]
  /\ UNCHANGED <<gate, ring, op, gen, sink, owner, closer, taking>>

PushCopy(c) ==
  /\ Goes(c, "copy", "store")
  /\ buf' = [i \in DOMAIN buf |->
               IF \E k \in 0..(n[c] - 1) : i = Place(at[c], k)
               THEN <<c, ((i - at[c]) % Size) % frame>> ELSE buf[i]]
  /\ UNCHANGED <<gate, held, head, tail, op, gen, n, at, sink, owner, closer, taking>>

PushStore(c) ==
  /\ Goes(c, "store", "unlock") /\ head' = Advance(at[c], n[c])
  /\ UNCHANGED <<gate, held, buf, tail, op, gen, n, at, sink, owner, closer, taking>>

Unlock(c) ==
  /\ Goes(c, "unlock", "leave") /\ busy' = FALSE
  /\ UNCHANGED <<live, users, lastGen, frame, ring, op, gen, n, at, sink, owner, closer, taking>>

Leave(c) ==
  /\ Goes(c, "leave", "out") /\ users' = users - 1
  /\ Forget(c) /\ UNCHANGED <<live, busy, lastGen, frame, ring, sink, owner, closer, taking>>

\* A call under way, to its next step.
Step(c) ==
  \/ Enter(c) \/ Refuse(c) \/ RefusedLeave(c)
  \/ TryLock(c) \/ LoseLock(c) \/ SpaceRead(c)
  \/ ReadRoom(c) \/ PushLoad(c) \/ PushCopy(c) \/ PushStore(c)
  \/ Unlock(c) \/ Leave(c)

Next ==
  \/ OpenBegin \/ OpenPublish \/ CloseReturn \/ FreeRing
  \/ \E who \in {"interp", "host"} : CloseStore(who)
  \/ TakeLoad \/ TakeStore
  \/ \E t \in Tasks : CSink(t) \/ CallSink(t)
  \/ CallInterp \/ Current \/ AddInterp
  \/ \E c \in Callers : Step(c)

\* A call under way is a few instructions on a task that is ready to run, and
\* close's wait() sleeps a tick, which lets even a lower priority task on its
\* core run; close loads `users` again after every tick.
Fairness ==
  /\ WF_vars(CloseReturn) /\ WF_vars(Current) /\ WF_vars(AddInterp)
  /\ \A c \in Callers : WF_vars(Step(c))

Spec == Init /\ [][Next]_vars
FairSpec == Spec /\ Fairness

----------------------------------------------------------------------------
Points == {"out", "found", "current", "added", "refused", "in", "room", "push",
           "copy", "store", "unlock", "leave"}
InCall == {"added", "refused", "in", "room", "push", "copy", "store", "unlock", "leave"}
InRing == {"in", "room", "push", "copy", "store", "unlock", "leave"}
Locked == {"room", "push", "copy", "store", "unlock"}

TypeOK ==
  /\ live \in Nat /\ users \in Nat /\ busy \in BOOLEAN
  /\ lastGen \in Nat /\ frame \in 1..Size
  /\ held \in BOOLEAN /\ head \in Index /\ tail \in Index
  /\ DOMAIN buf = 0..(Size - 1)
  /\ owner \in {"none", "opening", "open", "closing", "closed"}
  /\ closer \in {"none", "interp", "host"}
  /\ pc \in [Callers -> Points] /\ op \in [Callers -> {"write", "space"}]
  /\ gen \in [Callers -> Nat] /\ sink \in [Tasks -> Nat]
  /\ n \in [Callers -> Nat] /\ at \in [Callers -> Index]
  /\ taking \in 0..Size

\* Closing never frees memory a call is still inside (pcm_c_sink.h, point 4),
\* and a call is inside under the generation of the stream whose ring it is.
InsideIsHeld ==
  \A c \in Callers : pc[c] \in InRing => held /\ gen[c] = lastGen

\* Two producers are never in the ring's push together: the loser of the
\* try-lock stays out.
OneProducer ==
  \A c, d \in Callers : pc[c] \in Locked /\ pc[d] \in Locked => c = d

\* A producer's copy never reaches a byte the host task has yet to take: what
\* it settled on still fits when it is copied and when head is stored, though
\* the reader moved its index meanwhile.
NoOverrun ==
  /\ taking <= Span(head, tail) /\ Span(head, tail) <= Size
  /\ \A c \in Callers : pc[c] \in {"copy", "store"} => at[c] = head /\ n[c] <= Room

\* The count close waits on is the number of calls in progress, so a close
\* that reads zero has waited for every one of them.
UsersCount == users = Cardinality({c \in Callers : pc[c] \in InCall})

\* A close returns: the callers inside leave, and a caller that is refused
\* does not come back.
CloseReturns == owner = "closing" ~> owner # "closing"

\* The gate and the ring keep the contract: frames of one caller whole and in
\* order, whatever the interleaving.
Inside == [c \in Callers |-> IF pc[c] \in InRing THEN gen[c] ELSE 0]
Past == 1..(IF owner = "opening" THEN lastGen - 1 ELSE lastGen)
Contract == INSTANCE SinkContract WITH
  stream <- live, past <- Past, inside <- Inside, queue <- IF held THEN Contents ELSE <<>>
KeepsContract == Contract!Spec
=============================================================================
