--------------------------- MODULE HostEventsProofs ---------------------------
(***************************************************************************)
(* Proofs about HostEvents, for any devices, slots and capacity: the ring  *)
(* implements the queue of EventContract, and the records, the slots and   *)
(* the snapshots say what is attached.                                     *)
(***************************************************************************)
EXTENDS Integers, HostEvents, SequenceTheorems, TLAPS

----------------------------------------------------------------------------
(* The inductive invariant.                                                *)

Telling == {"push", "publish", "drop"}
Handling == Telling \cup {"fields", "close"}

\* The device the host task is at is open and has a slot; the record it tells of
\* it with is about that device.
TaskOK ==
  /\ running <=> tp # "none"
  /\ tp = "none" => opened = {} /\ UsedSlots = {}
  /\ tp \in Telling => event \in Events /\ event.dev = cur
  /\ tp \notin Telling => event = NoEvent
  /\ tp \in Handling => cur \in opened /\ ci \in UsedSlots
  /\ tp \in Handling \ {"fields"} => slots[ci].dev = cur

\* The slots are the open devices, but for one not yet filled in.
Filled == IF tp = "fields" THEN UsedSlots \ {ci} ELSE UsedSlots
SlotsOK ==
  /\ {slots[i].dev : i \in Filled} = (IF tp = "fields" THEN opened \ {cur} ELSE opened)
  /\ \A i, j \in Filled : slots[i].dev = slots[j].dev => i = j

\* The two ends of the ring: a record not yet published is behind it, one that
\* is being read is at its front.
RingOK ==
  /\ tp = "publish" => recs[head] = event /\ NextIndex(head) # tail
  /\ vm = "popped" => tail # head /\ popped = recs[tail]
  /\ vm # "popped" => popped = NoEvent
  /\ \A i \in 1..Waiting : Queue[i] \in Events

\* The records tell of every open device, but for the one being handled from
\* before its attachment is told of, and from its detachment on.
Expected ==
  IF tp \in {"fields", "close"} \/ (tp \in Telling /\ event.kind = "attach")
  THEN opened \ {cur} ELSE opened
TellsOK == running /\ ~missed => \A d \in Devs : Told(d) <=> d \in Expected

\* A snapshot that no slot was written or half filled in during has the slots it has
\* passed.
Passed == {slots[i].dev : i \in {j \in UsedSlots : j < row}}
SnapOK ==
  quiet => /\ vm \in {"look", "copy", "rows"} => tp # "fields"
           /\ vm = "look" => rows = Passed
           /\ vm = "copy" => rows = Passed /\ row \in UsedSlots
           /\ vm = "rows" => rows = Attached

\* A loss that is counted, or that a drain is about to tell, is owed.
LossOK ==
  /\ dropped > 0 => owed
  /\ vm = "taken" /\ taken > 0 => owed

IInv == TypeOK /\ TaskOK /\ SlotsOK /\ RingOK /\ TellsOK /\ SnapOK /\ LossOK

----------------------------------------------------------------------------
(* The ring.                                                               *)

\* Where the i-th record waiting is, and what stepping an end does to it.
Place(h, t, i) == IF t + i - 1 < Capacity THEN t + i - 1 ELSE t + i - 1 - Capacity
Count(h, t) == IF h >= t THEN h - t ELSE Capacity - t + h

\* The records waiting have places of their own, none of them where head writes.
LEMMA RingPlaces ==
  ASSUME NEW h \in Places, NEW t \in Places
  PROVE  /\ Count(h, t) \in 0..(Capacity - 1) /\ NextIndex(h) \in Places
         /\ Count(h, t) = 0 <=> h = t
         /\ \A i \in 1..Count(h, t) :
              Place(h, t, i) \in Places /\ Place(h, t, i) # h /\ (t + i - 1) % Capacity = Place(h, t, i)
BY SizesAssumption DEF Places, Count, Place, NextIndex

\* What publishing a record does to the count and the places...
LEMMA HeadSteps ==
  ASSUME NEW h \in Places, NEW t \in Places, NextIndex(h) # t
  PROVE  /\ Count(NextIndex(h), t) = Count(h, t) + 1 /\ Count(h, t) < Capacity - 1
         /\ Place(NextIndex(h), t, Count(h, t) + 1) = h
         /\ \A i \in 1..Count(h, t) : Place(NextIndex(h), t, i) = Place(h, t, i)
BY SizesAssumption DEF Places, Count, Place, NextIndex

\* ... and what taking one does.
LEMMA TailSteps ==
  ASSUME NEW h \in Places, NEW t \in Places, h # t
  PROVE  /\ Count(h, t) = Count(h, NextIndex(t)) + 1 /\ Place(h, t, 1) = t
         /\ \A i \in 1..Count(h, NextIndex(t)) : Place(h, NextIndex(t), i) = Place(h, t, i + 1)
BY SizesAssumption DEF Places, Count, Place, NextIndex

\* The records between two ends.
Records == [Places -> Events \cup {NoEvent}]
Between(h, t, r) == [i \in 1..Count(h, t) |-> r[Place(h, t, i)]]

\* Queue and Waiting are what lies between the ends, before and after a step.
LEMMA QueueBetween ==
  /\ TypeOK => Queue = Between(head, tail, recs) /\ Waiting = Count(head, tail)
  /\ TypeOK' => Queue' = Between(head', tail', recs') /\ Waiting' = Count(head', tail')
<1>1. ASSUME NEW h \in Places, NEW t \in Places, NEW r,
             NEW w, w = IF h >= t THEN h - t ELSE Capacity - t + h
      PROVE  /\ w = Count(h, t)
             /\ [i \in 1..w |-> r[(t + i - 1) % Capacity]] = Between(h, t, r)
  <2>1. w = Count(h, t)
    BY <1>1 DEF Count
  <2>2. \A i \in 1..Count(h, t) : (t + i - 1) % Capacity = Place(h, t, i)
    BY RingPlaces
  <2> QED BY <2>1, <2>2 DEF Between
<1>2. TypeOK => head \in Places /\ tail \in Places
  BY DEF TypeOK
<1>3. TypeOK' => head' \in Places /\ tail' \in Places
  BY DEF TypeOK
<1>4. TypeOK => Queue = Between(head, tail, recs) /\ Waiting = Count(head, tail)
  BY <1>1, <1>2 DEF Queue, Waiting
<1>5. TypeOK' => Queue' = Between(head', tail', recs') /\ Waiting' = Count(head', tail')
  BY <1>1, <1>3 DEF Queue, Waiting
<1> QED BY <1>4, <1>5

\* The place a record is written to before it is published is in no one's way.
LEMMA WrittenBehind ==
  ASSUME NEW h \in Places, NEW t \in Places, NEW r \in Records, NEW e
  PROVE  Between(h, t, [r EXCEPT ![h] = e]) = Between(h, t, r)
<1>1. \A i \in 1..Count(h, t) : Place(h, t, i) \in Places /\ Place(h, t, i) # h
  BY RingPlaces
<1>2. \A p \in Places : p # h => [r EXCEPT ![h] = e][p] = r[p]
  BY DEF Records
<1> QED BY <1>1, <1>2 DEF Between

\* Publishing it appends it.
LEMMA Appended ==
  ASSUME NEW h \in Places, NEW t \in Places, NEW r \in Records, NextIndex(h) # t,
         Between(h, t, r) \in Seq(Events), r[h] \in Events
  PROVE  Between(NextIndex(h), t, r) = Append(Between(h, t, r), r[h])
<1> DEFINE a == Between(h, t, r)
           b == Between(NextIndex(h), t, r)
           n == Count(h, t)
<1>1. /\ n \in Nat /\ Count(NextIndex(h), t) = n + 1
      /\ Place(NextIndex(h), t, n + 1) = h
      /\ \A i \in 1..n : Place(NextIndex(h), t, i) = Place(h, t, i)
  BY RingPlaces, HeadSteps
<1>2. a = [i \in 1..n |-> r[Place(h, t, i)]] /\ Len(a) = n
  BY <1>1, LenProperties DEF Between
<1>3. b = [i \in 1..(n + 1) |-> r[Place(NextIndex(h), t, i)]]
  BY <1>1 DEF Between
<1> HIDE DEF n, b, a
<1>4. \A i \in 1..(n + 1) : b[i] = IF i <= n THEN a[i] ELSE r[h]
  BY <1>1, <1>2, <1>3
<1>5. Append(a, r[h]) = [i \in 1..(n + 1) |-> IF i <= n THEN a[i] ELSE r[h]]
  BY <1>1, <1>2, AppendProperties DEF a
<1> QED BY <1>3, <1>4, <1>5 DEF a, b

\* What the tail of a sequence has at its places.
LEMMA TailAt ==
  ASSUME NEW q \in Seq(Events), q # <<>>, NEW n \in Nat, Len(q) = n + 1
  PROVE  \A i \in 1..n : Tail(q)[i] = q[i + 1] /\ q[i + 1] \in Events
OBVIOUS

\* Taking a record takes the queue's head; what is behind it moves up.
LEMMA Taken ==
  ASSUME NEW h \in Places, NEW t \in Places, NEW r \in Records, h # t,
         Between(h, t, r) \in Seq(Events)
  PROVE  /\ Between(h, t, r) # <<>> /\ Head(Between(h, t, r)) = r[t]
         /\ Between(h, NextIndex(t), r) = Tail(Between(h, t, r))
<1> DEFINE a == Between(h, t, r)
           b == Between(h, NextIndex(t), r)
           n == Count(h, NextIndex(t))
<1>1. /\ n \in Nat /\ Count(h, t) = n + 1 /\ Place(h, t, 1) = t
      /\ \A i \in 1..n : Place(h, NextIndex(t), i) = Place(h, t, i + 1)
  BY RingPlaces, TailSteps
<1>2. a = [i \in 1..(n + 1) |-> r[Place(h, t, i)]] /\ Len(a) = n + 1
  BY <1>1, LenProperties DEF Between
<1>3. b = [i \in 1..n |-> r[Place(h, NextIndex(t), i)]]
  BY <1>1 DEF Between
<1>4. a \in Seq(Events)
  OBVIOUS
<1> HIDE DEF n, b, a
<1>5. \A i \in 1..n : b[i] = a[i + 1]
  BY <1>1, <1>2, <1>3
<1>6. a # <<>> /\ Head(a) = a[1]
  BY <1>1, <1>2, <1>4
<1>7. Tail(a) = [i \in 1..n |-> a[i + 1]]
  BY <1>1, <1>2, <1>4 
<1>8. a[1] = r[t]
  BY <1>1, <1>2
<1> QED BY <1>3, <1>5, <1>6, <1>7, <1>8 DEF a, b

----------------------------------------------------------------------------
(* What the records say.                                                   *)

\* A record appended has the last word on its device, and on no other.
LEMMA ToldAppended ==
  ASSUME NEW e \in Events, UNCHANGED known, NEW n \in Nat, Waiting = n, Waiting' = n + 1,
         \A i \in 1..n : Queue'[i] = Queue[i], Queue'[n + 1] = e,
         NEW d \in Devs
  PROVE  Told(d)' <=> IF e.dev = d THEN e.kind = "attach" ELSE Told(d)
<1>1. e = Ev("attach", d) <=> e.dev = d /\ e.kind = "attach"
  BY DEF Events, Ev
<1>2. CASE e.dev = d
  <2>1. \A i \in 1..(n + 1) : (\A j \in (i + 1)..(n + 1) : Queue'[j].dev # d) => i = n + 1
    BY <1>2
  <2>2. (n + 1) \in 1..(n + 1) /\ ((n + 1) + 1)..(n + 1) = {}
    OBVIOUS
  <2> QED BY <1>1, <1>2, <2>1, <2>2 DEF Told
<1>3. CASE e.dev # d
  <2>1. Queue'[n + 1] # Ev("attach", d) /\ Queue'[n + 1].dev # d
    BY <1>1, <1>3
  <2>2. \A i \in 1..(n + 1) : i \in 1..n \/ i = n + 1
    OBVIOUS
  <2>3. \A i \in 1..n : /\ i \in 1..(n + 1)
                        /\ \A j \in (i + 1)..(n + 1) : j \in (i + 1)..n \/ j = n + 1
                        /\ \A j \in (i + 1)..n : j \in (i + 1)..(n + 1) /\ j \in 1..n
    OBVIOUS
  <2>4. (\A i \in 1..(n + 1) : Queue'[i].dev # d) <=> \A i \in 1..n : Queue[i].dev # d
    BY <2>1, <2>2, <2>3
  <2>5. \A i \in 1..n :
          (\A j \in (i + 1)..(n + 1) : Queue'[j].dev # d) <=> \A j \in (i + 1)..n : Queue[j].dev # d
    BY <2>1, <2>3
  <2> QED BY <1>3, <2>1, <2>2, <2>3, <2>4, <2>5 DEF Told
<1> QED BY <1>2, <1>3

\* A record that is read takes its word along.
LEMMA ToldTaken ==
  ASSUME NEW e \in Events, known' = Replay(known, e), NEW n \in Nat, Waiting = n + 1,
         Waiting' = n, Queue[1] = e, \A i \in 1..n : Queue'[i] = Queue[i + 1],
         NEW d \in Devs
  PROVE  Told(d)' <=> Told(d)
<1>1. /\ e = Ev("attach", d) <=> e.dev = d /\ e.kind = "attach"
      /\ e.kind \in {"attach", "detach"}
  BY DEF Events, Ev
<1>2. d \in known' <=> IF e.dev = d THEN e.kind = "attach" ELSE d \in known
  BY <1>1 DEF Replay
<1>3. \A i \in 1..(n + 1) : i = 1 \/ (i - 1 \in 1..n /\ (i - 1) + 1 = i)
  OBVIOUS
<1>4. \A i \in 1..n : i + 1 \in 1..(n + 1)
  OBVIOUS
<1>5. 1 \in 1..(n + 1)
  OBVIOUS
<1>6. (\A i \in 1..(n + 1) : Queue[i].dev # d) <=> e.dev # d /\ \A i \in 1..n : Queue'[i].dev # d
  BY <1>3, <1>4, <1>5
<1>7. ASSUME NEW i \in 1..n
      PROVE  (\A j \in (i + 1)..n : Queue'[j].dev # d)
                <=> \A j \in ((i + 1) + 1)..(n + 1) : Queue[j].dev # d
  <2>1. \A j \in (i + 1)..n : j + 1 \in ((i + 1) + 1)..(n + 1) /\ j \in 1..n
    OBVIOUS
  <2>2. \A j \in ((i + 1) + 1)..(n + 1) : j - 1 \in (i + 1)..n /\ (j - 1) + 1 = j
    OBVIOUS
  <2> QED BY <2>1, <2>2
<1>8. (\A j \in (1 + 1)..(n + 1) : Queue[j].dev # d) <=> \A i \in 1..n : Queue'[i].dev # d
  <2>1. \A j \in (1 + 1)..(n + 1) : j - 1 \in 1..n /\ (j - 1) + 1 = j
    OBVIOUS
  <2>2. \A i \in 1..n : i + 1 \in (1 + 1)..(n + 1)
    OBVIOUS
  <2> QED BY <2>1, <2>2
<1>9. ASSUME Told(d) PROVE Told(d)'
  <2>1. CASE d \in known /\ \A i \in 1..(n + 1) : Queue[i].dev # d
    BY <1>2, <1>6, <2>1 DEF Told
  <2>2. ASSUME NEW i \in 1..(n + 1), Queue[i] = Ev("attach", d),
               \A j \in (i + 1)..(n + 1) : Queue[j].dev # d
        PROVE  Told(d)'
    <3>1. CASE i = 1
      BY <1>1, <1>2, <1>8, <2>2, <3>1 DEF Told
    <3>2. ASSUME NEW k \in 1..n, i = k + 1 PROVE Told(d)'
      <4>1. Queue'[k] = Ev("attach", d)
        BY <2>2, <3>2
      <4>2. \A j \in (k + 1)..n : Queue'[j].dev # d
        BY <1>7, <2>2, <3>2
      <4> QED BY <4>1, <4>2 DEF Told
    <3> QED BY <1>3, <3>1, <3>2
  <2> QED BY <1>9, <2>1, <2>2 DEF Told
<1>10. ASSUME Told(d)' PROVE Told(d)
  <2>1. CASE d \in known' /\ \A i \in 1..n : Queue'[i].dev # d
    <3>1. CASE e.dev = d
      BY <1>1, <1>2, <1>5, <1>8, <2>1, <3>1 DEF Told
    <3>2. CASE e.dev # d
      BY <1>2, <1>6, <2>1, <3>2 DEF Told
    <3> QED BY <3>1, <3>2
  <2>2. ASSUME NEW i \in 1..n, Queue'[i] = Ev("attach", d),
               \A j \in (i + 1)..n : Queue'[j].dev # d
        PROVE  Told(d)
    <3>1. Queue[i + 1] = Ev("attach", d) /\ i + 1 \in 1..(n + 1)
      BY <1>4, <2>2
    <3>2. \A j \in ((i + 1) + 1)..(n + 1) : Queue[j].dev # d
      BY <1>7, <2>2
    <3> QED BY <3>1, <3>2 DEF Told
  <2> QED BY <1>10, <2>1, <2>2 DEF Told
<1> QED BY <1>9, <1>10

\* The records still say the same.
LEMMA TellsSame ==
  ASSUME TellsOK, UNCHANGED <<Waiting, Queue, known, running, missed, Expected>>
  PROVE  TellsOK'
<1>1. \A d \in Devs : Told(d)' <=> Told(d)
  BY DEF Told
<1> QED BY <1>1 DEF TellsOK

\* What an interpreter's step leaves alone.
LEMMA InterpOnly ==
  ASSUME IInv, UNCHANGED <<opened, slots, task, head, tail, recs, running, known, missed>>
  PROVE  TaskOK' /\ SlotsOK' /\ TellsOK'
<1>1. UNCHANGED <<tp, cur, ci, event>>
  BY DEF task
<1>2. TaskOK' /\ SlotsOK'
  BY <1>1 DEF IInv, TaskOK, SlotsOK, Filled, UsedSlots
<1>3. Waiting' = Waiting /\ Queue' = Queue /\ Expected' = Expected
  BY <1>1 DEF Waiting, Queue, Expected
<1> QED BY <1>2, <1>3, TellsSame DEF IInv

\* The record being read is the first that waits, the one written is not among
\* them, and the ends of the ring are among its places.
LEMMA RingFacts ==
  ASSUME IInv
  PROVE  /\ head \in Places /\ tail \in Places /\ recs \in Records
         /\ Waiting = Count(head, tail) /\ Waiting \in Nat
         /\ Queue = Between(head, tail, recs) /\ Queue \in Seq(Events) /\ Len(Queue) = Waiting
         /\ vm = "popped" => Queue # <<>> /\ popped = Queue[1] /\ popped \in Events
<1>1. /\ head \in Places /\ tail \in Places /\ recs \in Records
      /\ Waiting = Count(head, tail) /\ Queue = Between(head, tail, recs)
  BY QueueBetween DEF IInv, TypeOK, Records
<1>2. Waiting \in Nat
  BY <1>1, RingPlaces
<1>3. Queue \in [1..Waiting -> Events]
  BY DEF Queue, IInv, RingOK
<1>4. Queue \in Seq(Events) /\ Len(Queue) = Waiting
  BY <1>2, <1>3
<1>5. ASSUME vm = "popped" PROVE Queue # <<>> /\ popped = Queue[1] /\ popped \in Events
  <2>1. head # tail /\ popped = recs[tail]
    BY <1>5 DEF IInv, RingOK
  <2>2. Waiting = Count(head, NextIndex(tail)) + 1 /\ Place(head, tail, 1) = tail
        /\ Count(head, NextIndex(tail)) \in Nat
    BY <1>1, <2>1, TailSteps, RingPlaces
  <2>3. 1 \in 1..Waiting
    BY <2>2
  <2>4. Queue[1] = recs[tail]
    BY <1>1, <2>2, <2>3 DEF Between
  <2> QED BY <1>3, <1>4, <2>1, <2>3, <2>4
<1> QED BY <1>1, <1>2, <1>4, <1>5

----------------------------------------------------------------------------
(* The steps.                                                              *)

\* A slot is taken for a device not yet in it: nothing tells of it so far.
LEMMA NewDevTakenKeeps == ASSUME IInv, NEW d \in Devs, NewDevTaken(d) PROVE IInv'
<1>1. TypeOK'
  <2>1. PICK i \in SlotNos : slots' = [slots EXCEPT ![i].used = TRUE] /\ ci' = i
    BY DEF NewDevTaken
  <2>2. slots' \in [SlotNos -> [used : BOOLEAN, dev : Devs \cup {NoDev}]]
    BY <2>1 DEF IInv, TypeOK
  <2> QED BY <2>1, <2>2 DEF IInv, TypeOK, NewDevTaken, ring, interp, SlotWritten
<1>2. TaskOK'
  BY DEF IInv, TypeOK, TaskOK, UsedSlots, Telling, NewDevTaken
<1>3. SlotsOK'
  BY DEF IInv, SlotsOK, Filled, UsedSlots, NewDevTaken
<1>4. RingOK'
  BY DEF IInv, RingOK, Waiting, Queue, NewDevTaken, ring, interp
<1>5. TellsOK'
  <2>1. Waiting' = Waiting /\ Queue' = Queue
    BY DEF Waiting, Queue, NewDevTaken, ring
  <2>2. UNCHANGED <<known, running, missed>>
    BY DEF NewDevTaken
  <2>3. Expected' = Expected
    BY DEF Expected, Telling, IInv, NewDevTaken
  <2> QED BY <2>1, <2>2, <2>3, TellsSame DEF IInv
<1>6. SnapOK'
  BY DEF IInv, TypeOK, SnapOK, UsedSlots, NewDevTaken, SlotWritten, interp
<1>7. LossOK'
  BY DEF IInv, LossOK, NewDevTaken, ring, interp
<1> QED BY <1>1, <1>2, <1>3, <1>4, <1>5, <1>6, <1>7 DEF IInv

\* The slot has its device; the record that tells of it is to be pushed.
LEMMA NewDevFieldsKeeps == ASSUME IInv, NewDevFields PROVE IInv'
<1>1. TypeOK'
  BY DEF IInv, TypeOK, TaskOK, Handling, NewDevFields, SlotWritten, Ev, Events, ring, interp
<1>2. TaskOK'
  BY DEF IInv, TypeOK, TaskOK, UsedSlots, Telling, Handling, NewDevFields, Ev, Events
<1>3. SlotsOK'
  BY DEF IInv, TypeOK, TaskOK, SlotsOK, Filled, UsedSlots, Handling, NewDevFields
<1>4. RingOK'
  BY DEF IInv, RingOK, Waiting, Queue, NewDevFields, ring, interp
<1>5. TellsOK'
  <2>1. Waiting' = Waiting /\ Queue' = Queue
    BY DEF Waiting, Queue, NewDevFields, ring
  <2>2. UNCHANGED <<known, running, missed>>
    BY DEF NewDevFields
  <2>3. Expected' = Expected
    BY DEF Expected, Telling, IInv, NewDevFields, Ev
  <2> QED BY <2>1, <2>2, <2>3, TellsSame DEF IInv
<1>6. SnapOK'
  BY DEF IInv, TypeOK, SnapOK, Passed, Attached, UsedSlots, NewDevFields, SlotWritten, Ev,
     Events, task, ring, interp, history
<1>7. LossOK'
  BY DEF IInv, LossOK, NewDevFields, ring, interp
<1> QED BY <1>1, <1>2, <1>3, <1>4, <1>5, <1>6, <1>7 DEF IInv

\* From here on the device is no longer expected to be told of as attached.
LEMMA DevGoneKeeps == ASSUME IInv, NEW i \in SlotNos, DevGone(i) PROVE IInv'
<1>1. TypeOK'
  <2>1. slots[i].dev \in Devs
    BY DEF DevGone, IInv, TypeOK, SlotsOK, Filled
  <2>2. event' \in Events
    BY <2>1 DEF DevGone, Ev, Events
  <2> QED BY <2>1, <2>2 DEF IInv, TypeOK, DevGone, ring, interp, history
<1>2. TaskOK'
  BY DEF IInv, TypeOK, TaskOK, SlotsOK, Filled, UsedSlots, Telling, DevGone, Ev, Events
<1>3. SlotsOK'
  BY DEF IInv, SlotsOK, Filled, UsedSlots, DevGone
<1>4. RingOK'
  BY DEF IInv, RingOK, Waiting, Queue, DevGone, Events, ring, interp, history
<1>5. TellsOK'
  <2>1. Waiting' = Waiting /\ Queue' = Queue
    BY DEF Waiting, Queue, DevGone, ring
  <2>2. UNCHANGED <<known, running, missed>>
    BY DEF DevGone, history
  <2>3. Expected' = Expected
    BY DEF Expected, Telling, IInv, DevGone, Ev
  <2> QED BY <2>1, <2>2, <2>3, TellsSame DEF IInv
<1>6. SnapOK'
  BY DEF IInv, SnapOK, Passed, Attached, UsedSlots, DevGone, interp, history
<1>7. LossOK'
  BY DEF IInv, LossOK, DevGone, ring, interp, history
<1> QED BY <1>1, <1>2, <1>3, <1>4, <1>5, <1>6, <1>7 DEF IInv

\* The device and its slot go together; that it went was told before.
LEMMA DevClosedKeeps == ASSUME IInv, DevClosed PROVE IInv'
<1>1. TypeOK'
  <2>1. slots' \in [SlotNos -> [used : BOOLEAN, dev : Devs \cup {NoDev}]]
    BY DEF DevClosed, IInv, TypeOK
  <2>2. 1 \in SlotNos
    BY SizesAssumption DEF SlotNos
  <2> QED BY <2>1, <2>2 DEF IInv, TypeOK, DevClosed, ring, interp, SlotWritten
<1>2. TaskOK'
  BY DEF IInv, TaskOK, Telling, Handling, DevClosed
<1>3. SlotsOK'
  BY DEF IInv, TypeOK, TaskOK, SlotsOK, Filled, UsedSlots, Handling, DevClosed
<1>4. RingOK'
  BY DEF IInv, RingOK, Waiting, Queue, DevClosed, ring, interp
<1>5. TellsOK'
  <2>1. Waiting' = Waiting /\ Queue' = Queue
    BY DEF Waiting, Queue, DevClosed, ring
  <2>2. UNCHANGED <<known, running, missed>>
    BY DEF DevClosed
  <2>3. Expected' = Expected
    BY DEF Expected, Telling, IInv, DevClosed
  <2> QED BY <2>1, <2>2, <2>3, TellsSame DEF IInv
<1>6. SnapOK'
  BY DEF IInv, TypeOK, SnapOK, Passed, Attached, UsedSlots, DevClosed, SlotWritten, task,
     ring, interp, history
<1>7. LossOK'
  BY DEF IInv, LossOK, DevClosed, ring, interp
<1> QED BY <1>1, <1>2, <1>3, <1>4, <1>5, <1>6, <1>7 DEF IInv

\* The record is written behind those that wait: they stay what they are.
LEMMA PushSlotKeeps == ASSUME IInv, PushSlot PROVE IInv'
<1>1. TypeOK'
  BY DEF IInv, TypeOK, PushSlot, interp, history
<1>2. TaskOK'
  BY DEF IInv, TaskOK, UsedSlots, Telling, Handling, PushSlot
<1>3. SlotsOK'
  BY DEF IInv, SlotsOK, Filled, UsedSlots, PushSlot
<1>q. recs' = [recs EXCEPT ![head] = event] /\ UNCHANGED <<head, tail, event, vm, popped>>
  BY DEF PushSlot, interp
<1>s. Queue' = Queue /\ Waiting' = Waiting
  <2>1. Between(head, tail, recs') = Between(head, tail, recs)
    BY <1>q, RingFacts, WrittenBehind
  <2> QED BY <1>1, <1>q, <2>1, RingFacts, QueueBetween
<1>4. RingOK'
  <2>1. recs'[head] = event /\ NextIndex(head) # tail
    BY <1>q DEF PushSlot, IInv, TypeOK
  <2>2. vm = "popped" => recs'[tail] = recs[tail]
    BY <1>q DEF IInv, RingOK
  <2> QED BY <1>q, <1>s, <2>1, <2>2 DEF IInv, RingOK
<1>5. TellsOK'
  <2>1. UNCHANGED <<known, running, missed>>
    BY DEF PushSlot, history
  <2>2. Expected' = Expected
    BY DEF Expected, Telling, IInv, PushSlot
  <2> QED BY <1>s, <2>1, <2>2, TellsSame DEF IInv
<1>6. SnapOK'
  BY DEF IInv, SnapOK, Passed, Attached, UsedSlots, PushSlot, interp, history
<1>7. LossOK'
  BY DEF IInv, LossOK, PushSlot, interp, history
<1> QED BY <1>1, <1>2, <1>3, <1>4, <1>5, <1>6, <1>7 DEF IInv

\* The record published has the last word on its device.
LEMMA PushHeadKeeps == ASSUME IInv, PushHead PROVE IInv'
<1>1. TypeOK'
  <2>1. head' \in Places
    BY RingFacts, RingPlaces DEF PushHead
  <2>2. event' = NoEvent /\ 1 \in SlotNos
    BY SizesAssumption DEF PushHead, Pushed, SlotNos
  <2> QED BY <2>1, <2>2 DEF IInv, TypeOK, PushHead, Pushed, interp, history
<1>q. /\ event \in Events /\ event.dev = cur /\ cur \in opened /\ recs[head] = event
      /\ NextIndex(head) # tail /\ UNCHANGED <<known, running, missed, opened>>
  BY DEF PushHead, IInv, TaskOK, RingOK, Telling, Handling, history
<1>a. Queue' = Append(Queue, event)
  <2>1. Between(NextIndex(head), tail, recs) = Append(Between(head, tail, recs), recs[head])
    BY <1>q, RingFacts, Appended
  <2> QED BY <1>1, <1>q, <2>1, RingFacts, QueueBetween DEF PushHead
<1>w. /\ Waiting' = Waiting + 1 /\ Queue'[Waiting + 1] = event
      /\ \A i \in 1..Waiting : Queue'[i] = Queue[i]
  <2>1. Waiting' = Waiting + 1
    BY <1>1, <1>q, RingFacts, QueueBetween, HeadSteps DEF PushHead
  <2> QED BY <1>a, <2>1, RingFacts
<1>2. TaskOK'
  BY DEF IInv, TaskOK, UsedSlots, Telling, Handling, PushHead, Pushed
<1>3. SlotsOK'
  BY DEF IInv, SlotsOK, Filled, UsedSlots, PushHead, Pushed
<1>4. RingOK'
  <2>1. \A i \in 1..Waiting' : Queue'[i] \in Events
    BY <1>q, <1>w, RingFacts
  <2>2. tp' # "publish"
    BY DEF PushHead, Pushed
  <2>3. vm = "popped" => tail # head'
    BY <1>q DEF PushHead
  <2> QED BY <2>1, <2>2, <2>3 DEF IInv, RingOK, PushHead, interp
<1>5. TellsOK'
  <2> SUFFICES ASSUME running, ~missed, NEW d \in Devs
               PROVE  Told(d)' <=> d \in Expected'
    BY <1>q DEF TellsOK
  <2>1. Told(d) <=> d \in Expected
    BY DEF IInv, TellsOK
  <2>2. Told(d)' <=> IF event.dev = d THEN event.kind = "attach" ELSE Told(d)
    <3> PICK n \in Nat : n = Waiting
      BY RingFacts
    <3> QED BY <1>q, <1>w, ToldAppended
  <2>3. CASE event.kind = "attach"
    <3>1. Expected = opened \ {cur} /\ Expected' = opened
      BY <1>q, <2>3 DEF Expected, PushHead, Pushed, Telling
    <3> QED BY <1>q, <2>1, <2>2, <2>3, <3>1
  <2>4. CASE event.kind # "attach"
    <3>1. Expected = opened /\ Expected' = opened \ {cur}
      BY <1>q, <2>4 DEF Expected, PushHead, Pushed
    <3> QED BY <1>q, <2>1, <2>2, <2>4, <3>1
  <2> QED BY <2>3, <2>4
<1>6. SnapOK'
  BY DEF IInv, SnapOK, Passed, Attached, UsedSlots, PushHead, Pushed, interp,
     history
<1>7. LossOK'
  BY DEF IInv, LossOK, PushHead, interp, history
<1> QED BY <1>1, <1>2, <1>3, <1>4, <1>5, <1>6, <1>7 DEF IInv

\* The ring is full: nothing is written.
LEMMA PushFullKeeps == ASSUME IInv, PushFull PROVE IInv'
<1>1. TypeOK'
  BY DEF IInv, TypeOK, PushFull, ring, interp, history
<1>2. TaskOK'
  BY DEF IInv, TaskOK, UsedSlots, Telling, Handling, PushFull
<1>3. SlotsOK'
  BY DEF IInv, SlotsOK, Filled, UsedSlots, PushFull
<1>4. RingOK'
  BY DEF IInv, RingOK, Waiting, Queue, PushFull, ring, interp, history
<1>5. TellsOK'
  <2>1. Waiting' = Waiting /\ Queue' = Queue
    BY DEF Waiting, Queue, PushFull, ring
  <2>2. UNCHANGED <<known, running, missed>>
    BY DEF PushFull, history
  <2>3. Expected' = Expected
    BY DEF Expected, Telling, IInv, PushFull
  <2> QED BY <2>1, <2>2, <2>3, TellsSame DEF IInv
<1>6. SnapOK'
  BY DEF IInv, SnapOK, Passed, Attached, UsedSlots, PushFull, interp, history
<1>7. LossOK'
  BY DEF IInv, LossOK, PushFull, ring, interp, history
<1> QED BY <1>1, <1>2, <1>3, <1>4, <1>5, <1>6, <1>7 DEF IInv

\* The loss is counted, and owed.
LEMMA PushDropKeeps == ASSUME IInv, PushDrop PROVE IInv'
<1>1. TypeOK'
  <2>1. event' = NoEvent /\ 1 \in SlotNos /\ dropped' \in Nat
    BY SizesAssumption DEF PushDrop, Pushed, SlotNos, IInv, TypeOK
  <2> QED BY <2>1 DEF IInv, TypeOK, PushDrop, Pushed, interp
<1>2. TaskOK'
  BY DEF IInv, TaskOK, UsedSlots, Telling, Handling, PushDrop, Pushed
<1>3. SlotsOK'
  BY DEF IInv, SlotsOK, Filled, UsedSlots, PushDrop, Pushed
<1>4. RingOK'
  BY DEF IInv, RingOK, Waiting, Queue, PushDrop, Pushed, interp
<1>5. TellsOK'
  BY DEF IInv, TellsOK, PushDrop
<1>6. SnapOK'
  BY DEF IInv, SnapOK, Passed, Attached, UsedSlots, PushDrop, Pushed, interp
<1>7. LossOK'
  BY DEF IInv, LossOK, PushDrop
<1> QED BY <1>1, <1>2, <1>3, <1>4, <1>5, <1>6, <1>7 DEF IInv

\* The interpreter's steps that only look.
LEMMA DrainBeginKeeps == ASSUME IInv, DrainBegin PROVE IInv'
<1>1. TypeOK'
  BY DEF IInv, TypeOK, DrainBegin, task, ring, history
<1>2. TaskOK' /\ SlotsOK' /\ TellsOK'
  BY InterpOnly DEF DrainBegin, ring, history
<1>3. RingOK'
  BY DEF IInv, TaskOK, RingOK, Waiting, Queue, DrainBegin, task, ring
<1>4. SnapOK'
  BY DEF IInv, SnapOK, DrainBegin
<1>5. LossOK'
  BY DEF IInv, LossOK, DrainBegin, ring, history
<1> QED BY <1>1, <1>2, <1>3, <1>4, <1>5 DEF IInv

\* The drain stops popping and goes on to the count of losses.
LEMMA PopEndsKeeps == ASSUME IInv, PopEnds PROVE IInv'
<1>1. TypeOK'
  BY DEF IInv, TypeOK, PopEnds, task, ring, history
<1>2. TaskOK' /\ SlotsOK' /\ TellsOK'
  BY InterpOnly DEF PopEnds, ring, history
<1>3. RingOK'
  BY DEF IInv, TaskOK, RingOK, Waiting, Queue, PopEnds, task, ring
<1>4. SnapOK'
  BY DEF IInv, SnapOK, PopEnds
<1>5. LossOK'
  BY DEF IInv, LossOK, PopEnds, ring, history
<1> QED BY <1>1, <1>2, <1>3, <1>4, <1>5 DEF IInv

\* The record read stays at the queue's front until it is taken.
LEMMA PopCopyKeeps == ASSUME IInv, PopCopy PROVE IInv'
<1>1. TypeOK'
  BY DEF IInv, TypeOK, PopCopy, task, ring, history
<1>2. TaskOK' /\ SlotsOK' /\ TellsOK'
  BY InterpOnly DEF PopCopy, ring, history
<1>3. RingOK'
  BY DEF IInv, TypeOK, RingOK, Waiting, Queue, PopCopy, task, ring, history
<1>4. SnapOK'
  BY DEF IInv, SnapOK, PopCopy
<1>5. LossOK'
  BY DEF IInv, LossOK, PopCopy, ring, history
<1> QED BY <1>1, <1>2, <1>3, <1>4, <1>5 DEF IInv

\* The record taken told what it told while it waited.
LEMMA PopStoreKeeps == ASSUME IInv, PopStore PROVE IInv'
<1>1. TypeOK'
  <2>1. tail' \in Places
    BY RingFacts, RingPlaces DEF PopStore
  <2>2. known' \subseteq Devs
    BY RingFacts DEF PopStore, Replay, Events, IInv, TypeOK
  <2> QED BY <2>1, <2>2 DEF IInv, TypeOK, PopStore, task
<1>q. head # tail /\ UNCHANGED <<head, recs, running, missed>> /\ popped \in Events
  BY RingFacts DEF PopStore, IInv, RingOK
<1>a. Queue' = Tail(Queue) /\ Waiting = Waiting' + 1 /\ Waiting' \in Nat
  <2>1. Between(head, NextIndex(tail), recs) = Tail(Between(head, tail, recs))
    BY <1>q, RingFacts, Taken
  <2>2. Waiting = Count(head, NextIndex(tail)) + 1 /\ Count(head, NextIndex(tail)) \in Nat
    BY <1>q, RingFacts, TailSteps, RingPlaces
  <2> QED BY <1>1, <1>q, <2>1, <2>2, RingFacts, QueueBetween DEF PopStore
<1>w. Queue[1] = popped /\ \A i \in 1..Waiting' : Queue'[i] = Queue[i + 1]
  <2>1. Queue \in Seq(Events) /\ Queue # <<>> /\ Len(Queue) = Waiting' + 1 /\ popped = Queue[1]
    BY <1>a, RingFacts DEF PopStore
  <2>2. \A i \in 1..Waiting' : Tail(Queue)[i] = Queue[i + 1]
    <3> PICK n \in Nat : n = Waiting'
      BY <1>a
    <3> QED BY <2>1, TailAt
  <2> QED BY <1>a, <2>1, <2>2
<1>2. TaskOK'
  BY DEF IInv, TaskOK, UsedSlots, PopStore, task
<1>3. SlotsOK'
  BY DEF IInv, SlotsOK, Filled, UsedSlots, PopStore, task
<1>4. RingOK'
  <2>0. Queue \in Seq(Events) /\ Queue # <<>> /\ Len(Queue) = Waiting' + 1
    BY <1>a, RingFacts DEF PopStore
  <2>1. \A i \in 1..Waiting' : Queue'[i] \in Events
    <3>2. \A i \in 1..Waiting' : Queue[i + 1] \in Events
      <4> PICK n \in Nat : n = Waiting'
        BY <1>a
      <4> QED BY <2>0, TailAt
    <3> QED BY <1>w, <3>2
  <2>2. tp = "publish" => NextIndex(head) # tail'
    BY <1>q, RingFacts DEF PopStore, NextIndex, Places
  <2> QED BY <2>1, <2>2 DEF IInv, RingOK, PopStore, task
<1>5. TellsOK'
  <2>1. \A d \in Devs : Told(d)' <=> Told(d)
    <3> PICK n \in Nat : n = Waiting' /\ Waiting = n + 1
      BY <1>a
    <3> PICK e \in Events : e = popped
      BY <1>q
    <3>1. known' = Replay(known, e)
      BY DEF PopStore
    <3> QED BY <1>w, <3>1, ToldTaken
  <2>2. Expected' = Expected
    BY DEF Expected, PopStore, task
  <2> QED BY <1>q, <2>1, <2>2 DEF IInv, TellsOK
<1>6. SnapOK'
  BY DEF IInv, SnapOK, PopStore
<1>7. LossOK'
  BY DEF IInv, LossOK, PopStore
<1> QED BY <1>1, <1>2, <1>3, <1>4, <1>5, <1>6, <1>7 DEF IInv

\* A count that is not zero was owed.
LEMMA TakeLoadKeeps == ASSUME IInv, TakeLoad PROVE IInv'
<1>1. TypeOK'
  BY DEF IInv, TypeOK, TakeLoad, task, ring, history
<1>2. TaskOK' /\ SlotsOK' /\ TellsOK'
  BY InterpOnly DEF TakeLoad, ring, history
<1>3. RingOK'
  BY DEF IInv, TaskOK, RingOK, Waiting, Queue, TakeLoad, task, ring
<1>4. SnapOK'
  BY DEF IInv, SnapOK, TakeLoad
<1>5. LossOK'
  BY DEF IInv, LossOK, TakeLoad, ring, history
<1> QED BY <1>1, <1>2, <1>3, <1>4, <1>5 DEF IInv

\* A count that is cleared claims no loss.
LEMMA TakeStoreKeeps == ASSUME IInv, TakeStore PROVE IInv'
<1>1. TypeOK'
  BY DEF IInv, TypeOK, TakeStore, task
<1>2. TaskOK' /\ SlotsOK' /\ TellsOK'
  BY InterpOnly DEF TakeStore, ring, history
<1>3. RingOK'
  BY DEF IInv, TypeOK, RingOK, Waiting, Queue, TakeStore, task
<1>4. SnapOK'
  BY DEF IInv, SnapOK, TakeStore
<1>5. LossOK'
  BY DEF IInv, LossOK, TakeStore
<1> QED BY <1>1, <1>2, <1>3, <1>4, <1>5 DEF IInv

\* The snapshot has passed no slot yet.
LEMMA SnapshotBeginKeeps == ASSUME IInv, SnapshotBegin PROVE IInv'
<1>1. TypeOK'
  BY SizesAssumption DEF IInv, TypeOK, SnapshotBegin, SlotNos, task, ring
<1>2. TaskOK' /\ SlotsOK' /\ TellsOK'
  BY InterpOnly DEF SnapshotBegin, ring, history
<1>3. RingOK'
  BY DEF IInv, TypeOK, TaskOK, RingOK, Waiting, Queue, Telling, SnapshotBegin, task, ring
<1>4. SnapOK'
  <2>1. Passed' = {} /\ rows' = {} /\ vm' = "look" /\ tp' = tp
    BY DEF Passed, UsedSlots, SnapshotBegin, SlotNos, task
  <2> QED BY <2>1 DEF SnapOK, SnapshotBegin
<1>5. LossOK'
  BY DEF IInv, LossOK, SnapshotBegin, ring
<1> QED BY <1>1, <1>2, <1>3, <1>4, <1>5 DEF IInv

\* A slot passed over is not in use.
LEMMA SnapshotSkipKeeps == ASSUME IInv, SnapshotSkip PROVE IInv'
<1>1. TypeOK'
  BY SizesAssumption DEF IInv, TypeOK, SnapshotSkip, RowDone, SlotNos, task, ring, history
<1>2. TaskOK' /\ SlotsOK' /\ TellsOK'
  BY InterpOnly DEF SnapshotSkip, ring, history
<1>3. RingOK'
  BY DEF IInv, TypeOK, RingOK, Waiting, Queue, SnapshotSkip, RowDone, SlotNos, task, ring,
     history
<1>4. SnapOK'
  BY SizesAssumption DEF IInv, TypeOK, SnapOK, Passed, Attached, UsedSlots, SnapshotSkip,
     RowDone, SlotNos, history, task
<1>5. LossOK'
  BY DEF IInv, LossOK, SnapshotSkip, RowDone, ring, history
<1> QED BY <1>1, <1>2, <1>3, <1>4, <1>5 DEF IInv

\* A slot found in use is to be copied.
LEMMA SnapshotLookKeeps == ASSUME IInv, SnapshotLook PROVE IInv'
<1>1. TypeOK'
  BY DEF IInv, TypeOK, SnapshotLook, task, ring, history
<1>2. TaskOK' /\ SlotsOK' /\ TellsOK'
  BY InterpOnly DEF SnapshotLook, ring, history
<1>3. RingOK'
  BY DEF IInv, TaskOK, RingOK, Waiting, Queue, SnapshotLook, task, ring
<1>4. SnapOK'
  BY DEF IInv, SnapOK, Passed, UsedSlots, SnapshotLook, history, task
<1>5. LossOK'
  BY DEF IInv, LossOK, SnapshotLook, ring, history
<1> QED BY <1>1, <1>2, <1>3, <1>4, <1>5 DEF IInv

\* Copied, it is among the slots passed, unless one was written meanwhile.
LEMMA SnapshotCopyKeeps == ASSUME IInv, SnapshotCopy PROVE IInv'
<1>1. TypeOK'
  BY SizesAssumption DEF IInv, TypeOK, SnapshotCopy, RowDone, SlotNos, task, ring, history
<1>2. TaskOK' /\ SlotsOK' /\ TellsOK'
  BY InterpOnly DEF SnapshotCopy, ring, history
<1>3. RingOK'
  BY DEF IInv, TaskOK, RingOK, Waiting, Queue, SnapshotCopy, RowDone, task, ring, history
<1>4. SnapOK'
  BY SizesAssumption DEF IInv, SnapOK, Passed, Attached, UsedSlots, SnapshotCopy, RowDone,
     SlotNos, history, task
<1>5. LossOK'
  BY DEF IInv, LossOK, SnapshotCopy, RowDone, ring, history
<1> QED BY <1>1, <1>2, <1>3, <1>4, <1>5 DEF IInv

\* The snapshot is done with.
LEMMA SnapshotEndsKeeps == ASSUME IInv, SnapshotEnds PROVE IInv'
<1>1. TypeOK'
  BY SizesAssumption DEF IInv, TypeOK, SnapshotEnds, SlotNos, task, ring
<1>2. TaskOK' /\ SlotsOK' /\ TellsOK'
  BY InterpOnly DEF SnapshotEnds, ring, history
<1>3. RingOK'
  BY DEF IInv, TypeOK, TaskOK, RingOK, Waiting, Queue, Telling, SnapshotEnds, task, ring
<1>4. SnapOK'
  BY DEF IInv, SnapOK, SnapshotEnds
<1>5. LossOK'
  BY DEF IInv, LossOK, SnapshotEnds, ring
<1> QED BY <1>1, <1>2, <1>3, <1>4, <1>5 DEF IInv

\* A genuine start begins with nothing open, waiting or told; another changes nothing.
LEMMA HostStartKeeps == ASSUME IInv, HostStart PROVE IInv'
<1>1. TypeOK'
  <2>1. 0 \in Places
    BY SizesAssumption DEF Places
  <2>2. CASE running
    BY <2>2 DEF IInv, TypeOK, HostStart, interp
  <2>3. CASE ~running
    <3>0. /\ tp' = "pump" /\ head' = 0 /\ tail' = 0 /\ dropped' = 0 /\ known' = {}
          /\ (running' = TRUE) /\ (missed' = FALSE) /\ (owed' = FALSE)
      BY <2>3, Zenon DEF HostStart
    <3>1. /\ running' \in BOOLEAN /\ tp' = "pump" /\ head' \in Places /\ tail' \in Places
          /\ dropped' \in Nat /\ known' \subseteq Devs /\ missed' \in BOOLEAN /\ owed' \in BOOLEAN
      BY <2>1, <3>0
    <3>2. UNCHANGED <<opened, slots, cur, ci, event, count, recs, vm, popped, taken, row, rows, quiet>>
      BY DEF HostStart, interp
    <3> QED BY <3>1, <3>2 DEF IInv, TypeOK
  <2> QED BY <2>2, <2>3
<1>c. \/ running /\ UNCHANGED vars
      \/ /\ ~running /\ tp' = "pump" /\ head' = 0 /\ tail' = 0 /\ known' = {}
         /\ UNCHANGED <<opened, recs, event, vm, popped>>
  BY DEF HostStart, vars, interp, task, ring, history, IInv, TypeOK
<1>w. ~running => Waiting' = 0
  BY <1>c DEF Waiting
<1>2. TaskOK'
  BY DEF IInv, TaskOK, UsedSlots, Telling, Handling, HostStart
<1>3. SlotsOK'
  BY DEF IInv, TaskOK, SlotsOK, Filled, UsedSlots, HostStart
<1>4. RingOK'
  <2>1. CASE running /\ UNCHANGED vars
    BY <2>1 DEF IInv, RingOK, vars, task, ring, interp, Waiting, Queue
  <2>2. CASE ~running
    <3>1. \A i \in 1..Waiting' : Queue'[i] \in Events
      BY <1>w, <2>2
    <3>2. tp' # "publish" /\ vm' # "popped" /\ popped' = NoEvent
      BY <1>c, <2>2 DEF IInv, RingOK, HostStart
    <3> QED BY <3>1, <3>2 DEF RingOK
  <2> QED BY <1>c, <2>1, <2>2
<1>5. TellsOK'
  <2>1. CASE running /\ UNCHANGED vars
    BY <2>1, TellsSame DEF IInv, vars, task, ring, history, Waiting, Queue, Expected
  <2>2. CASE ~running
    <3>1. Expected' = {}
      BY <1>c, <2>2 DEF Expected, IInv, TaskOK
    <3>2. \A d \in Devs : ~Told(d)'
      BY <1>c, <1>w, <2>2 DEF Told
    <3> QED BY <3>1, <3>2 DEF TellsOK
  <2> QED BY <1>c, <2>1, <2>2
<1>6. SnapOK'
  BY SizesAssumption DEF IInv, TypeOK, SnapOK, Passed, Attached, UsedSlots, HostStart,
     Places, NoEvent, Ev, task, ring, interp, history
<1>7. LossOK'
  BY SizesAssumption DEF IInv, TypeOK, LossOK, HostStart, Places, NoEvent, Ev, task, ring,
     interp, history
<1> QED BY <1>1, <1>2, <1>3, <1>4, <1>5, <1>6, <1>7 DEF IInv

\* A stop closes every device with its slot.
LEMMA HostStopKeeps == ASSUME IInv, HostStop PROVE IInv'
<1>1. TypeOK'
  BY DEF IInv, TypeOK, TaskOK, UsedSlots, Telling, Handling, HostStop, SlotWritten, task,
     ring, interp, history
<1>2. TaskOK'
  BY DEF IInv, TypeOK, TaskOK, SlotsOK, Filled, UsedSlots, Telling, Handling, HostStop,
     SlotWritten, task, ring, interp, history
<1>3. SlotsOK'
  BY DEF IInv, TypeOK, TaskOK, SlotsOK, Filled, UsedSlots, Telling, Handling, HostStop,
     SlotWritten, task, ring, interp, history
<1>4. RingOK'
  BY DEF IInv, TypeOK, TaskOK, RingOK, Waiting, Queue, Telling, HostStop, SlotWritten, task,
     ring, interp, history
<1>5. TellsOK'
  BY DEF IInv, TypeOK, TaskOK, SlotsOK, Filled, TellsOK, Told, Expected, Waiting, Queue,
     Telling, Handling, HostStop, SlotWritten, task, ring, interp, history
<1>6. SnapOK'
  BY DEF IInv, TypeOK, SnapOK, Passed, Attached, UsedSlots, HostStop, SlotWritten, task,
     ring, interp, history
<1>7. LossOK'
  BY DEF IInv, TypeOK, LossOK, HostStop, SlotWritten, task, ring, interp, history
<1> QED BY <1>1, <1>2, <1>3, <1>4, <1>5, <1>6, <1>7 DEF IInv
----------------------------------------------------------------------------
(* The theorems.                                                           *)

\* Nothing is open, waiting or told.
LEMMA InitIInv == Init => IInv
<1> SUFFICES ASSUME Init PROVE IInv
  OBVIOUS
<1>1. TypeOK
  <2>1. 0 \in Places /\ 1 \in SlotNos
    BY SizesAssumption DEF Places, SlotNos
  <2> QED BY <2>1 DEF TypeOK, Init, NoSlots, EmptyRing
<1>2. UsedSlots = {}
  BY DEF Init, NoSlots, UsedSlots
<1>3. TaskOK /\ SlotsOK
  BY <1>2 DEF TaskOK, SlotsOK, Filled, Telling, Handling, Init
<1>4. RingOK
  <2>1. Waiting = 0
    BY DEF Waiting, Init, EmptyRing
  <2>2. \A i \in 1..Waiting : Queue[i] \in Events
    BY <2>1
  <2> QED BY <2>2 DEF RingOK, Init
<1>5. TellsOK /\ SnapOK /\ LossOK
  BY DEF TellsOK, SnapOK, LossOK, Init, EmptyRing
<1> QED BY <1>1, <1>3, <1>4, <1>5 DEF IInv

\* Each step keeps the invariant.
LEMMA NextIInv == IInv /\ [Next]_vars => IInv'
<1> SUFFICES ASSUME IInv, [Next]_vars PROVE IInv'
  OBVIOUS
<1>1. CASE UNCHANGED vars
  <2>1. /\ UNCHANGED <<opened, slots, tp, cur, ci, event, count, head, tail, recs, dropped>>
        /\ UNCHANGED <<running, vm, popped, taken, row, rows, known, missed, owed, quiet>>
    BY <1>1 DEF vars, task, ring, interp, history
  <2>2. TypeOK' /\ TaskOK' /\ SlotsOK'
    BY <2>1 DEF IInv, TypeOK, TaskOK, SlotsOK, Filled, UsedSlots, Telling, Handling
  <2>3. Queue' = Queue /\ Waiting' = Waiting /\ Expected' = Expected
    BY <2>1 DEF Queue, Waiting, Expected
  <2>4. RingOK'
    BY <2>1, <2>3 DEF IInv, RingOK, NextIndex
  <2>5. TellsOK'
    BY <2>1, <2>3, TellsSame DEF IInv
  <2>6. SnapOK' /\ LossOK'
    BY <2>1 DEF IInv, SnapOK, LossOK, Passed, Attached, UsedSlots
  <2> QED BY <2>2, <2>4, <2>5, <2>6 DEF IInv
<1>2. ASSUME NEW d \in Devs, NewDevTaken(d) PROVE IInv'
  BY <1>2, NewDevTakenKeeps
<1>3. ASSUME NEW i \in SlotNos, DevGone(i) PROVE IInv'
  BY <1>3, DevGoneKeeps
<1>4. CASE NewDevFields \/ DevClosed \/ PushSlot \/ PushHead \/ PushFull \/ PushDrop
  BY <1>4, NewDevFieldsKeeps, DevClosedKeeps, PushSlotKeeps, PushHeadKeeps, PushFullKeeps,
     PushDropKeeps
<1>5. CASE DrainBegin \/ PopEnds \/ PopCopy \/ PopStore \/ TakeLoad \/ TakeStore
  BY <1>5, DrainBeginKeeps, PopEndsKeeps, PopCopyKeeps, PopStoreKeeps, TakeLoadKeeps,
     TakeStoreKeeps
<1>6. CASE SnapshotBegin \/ SnapshotSkip \/ SnapshotLook \/ SnapshotCopy \/ SnapshotEnds
  BY <1>6, SnapshotBeginKeeps, SnapshotSkipKeeps, SnapshotLookKeeps, SnapshotCopyKeeps,
     SnapshotEndsKeeps
<1>7. CASE HostStart \/ HostStop
  BY <1>7, HostStartKeeps, HostStopKeeps
<1> QED BY <1>1, <1>2, <1>3, <1>4, <1>5, <1>6, <1>7 DEF Next

\* For any devices, slots and capacity: the host task's, the ring's and the
\* interpreter's states stay consistent through every interleaving.
THEOREM Invariance == Spec => []IInv
BY InitIInv, NextIInv, PTL DEF Spec

\* Between callbacks every open device has its slot and is told of.
LEMMA IInvConsistent == IInv => Consistent
<1> SUFFICES ASSUME IInv PROVE Consistent
  OBVIOUS
<1>1. tp = "pump" => Filled = UsedSlots /\ Attached = opened
  BY DEF IInv, SlotsOK, Filled, Attached
<1>2. SlotsAreOpen
  BY <1>1 DEF IInv, SlotsOK, SlotsAreOpen
<1>3. EventsTellAll
  <2> SUFFICES ASSUME running, tp = "pump", ~missed PROVE {d \in Devs : Told(d)} = Attached
    BY DEF EventsTellAll
  <2>1. Expected = opened /\ opened \subseteq Devs
    BY DEF Expected, Telling, IInv, TypeOK
  <2> QED BY <1>1, <2>1 DEF IInv, TellsOK
<1> QED BY <1>2, <1>3 DEF Consistent, IInv

\* For any devices, slots and capacity: between callbacks the slots in use are the
\* open devices, one each (usbif_host_devs), and while no record was dropped the
\* records read and waiting tell exactly the devices attached, also over repeated
\* and genuine host_start() calls.
THEOREM EventsConsistent == Spec => []Consistent
BY Invariance, IInvConsistent, PTL

\* A snapshot during which no slot is written, or half filled in, gives exactly the
\* devices the client has open (usbif_host_snapshot), whatever the host task does
\* meanwhile.
THEOREM SnapshotsTrue == Spec => []SnapshotIsTrue
<1>1. IInv => SnapshotIsTrue
  <2> SUFFICES ASSUME IInv, vm = "rows", quiet PROVE rows = opened
    BY DEF SnapshotIsTrue
  <2>1. tp # "fields" /\ rows = Attached
    BY DEF IInv, SnapOK
  <2>2. Attached = opened
    BY <2>1 DEF IInv, SlotsOK, Filled, Attached
  <2> QED BY <2>1, <2>2
<1> QED BY Invariance, <1>1, PTL

\* What host_drain() tells, at the step it tells it.
Tells == vm = "taken" /\ vm' = "idle" /\ taken > 0 => owed

\* host_drain() says that records were lost only when one was since it last said
\* so, though the count is incremented and cleared by two cores without a lock.
THEOREM LossReported == Spec => ReportedOnce
<1>1. IInv /\ [Next]_vars => [Tells]_vars
  BY DEF IInv, LossOK, Tells
<1>2. ReportedOnce <=> [][Tells]_vars
  BY PTL DEF ReportedOnce, Tells
<1> QED BY Invariance, <1>1, <1>2, PTL DEF Spec

----------------------------------------------------------------------------
(* The queue the ring implements.                                          *)

QueueStep ==
  \/ \E r \in Events : Len(Queue) < Capacity - 1 /\ Queue' = Append(Queue, r) /\ UNCHANGED popped
  \/ Queue # <<>> /\ popped' = Head(Queue) /\ Queue' = Queue
  \/ Queue # <<>> /\ popped = Head(Queue) /\ Queue' = Tail(Queue) /\ popped' = NoEvent
  \/ Queue' = <<>> /\ popped' = NoEvent
  \/ Queue' = Queue /\ popped' = popped

\* Steps that leave the ends and the records alone leave the queue alone.
LEMMA SameQueue ==
  ASSUME UNCHANGED <<head, tail, recs, popped>>
  PROVE  QueueStep
BY DEF QueueStep, Queue, Waiting

\* Each step of the ring is one of the queue, or none.
LEMMA NextQueue == IInv /\ [Next]_vars => QueueStep
<1> SUFFICES ASSUME IInv, [Next]_vars PROVE QueueStep
  OBVIOUS
<1>t. TypeOK'
  BY NextIInv DEF IInv
<1>1. CASE UNCHANGED vars
  BY <1>1, SameQueue DEF vars, ring, interp
<1>2. ASSUME NEW d \in Devs, NewDevTaken(d) PROVE QueueStep
  BY <1>2, SameQueue DEF NewDevTaken, ring, interp
<1>3. ASSUME NEW i \in SlotNos, DevGone(i) PROVE QueueStep
  BY <1>3, SameQueue DEF DevGone, ring, interp
<1>4. CASE NewDevFields \/ DevClosed \/ PushFull \/ PushDrop
  BY <1>4, SameQueue DEF NewDevFields, DevClosed, PushFull, PushDrop, ring, interp
<1>5. CASE DrainBegin \/ PopEnds \/ TakeLoad \/ TakeStore
  BY <1>5, SameQueue DEF DrainBegin, PopEnds, TakeLoad, TakeStore, ring
<1>6. CASE SnapshotBegin \/ SnapshotSkip \/ SnapshotLook \/ SnapshotCopy \/ SnapshotEnds
  BY <1>6, SameQueue
     DEF SnapshotBegin, SnapshotSkip, SnapshotLook, SnapshotCopy, SnapshotEnds, ring
<1>7. CASE HostStop
  BY <1>7, SameQueue DEF HostStop, ring, interp
<1>8. CASE HostStart
  <2>1. CASE running
    BY <1>8, <2>1, SameQueue DEF HostStart, interp
  <2>2. CASE ~running
    <3>1. Waiting' = 0 /\ popped' = NoEvent
      BY <1>8, <2>2 DEF HostStart, Waiting, interp, IInv, RingOK
    <3>2. Queue' = <<>>
      BY <3>1 DEF Queue
    <3> QED BY <3>1, <3>2 DEF QueueStep
  <2> QED BY <2>1, <2>2
<1>9. CASE PushSlot
  <2>1. recs' = [recs EXCEPT ![head] = event] /\ UNCHANGED <<head, tail, popped>>
    BY <1>9 DEF PushSlot, interp
  <2>2. Queue' = Queue
    BY <1>t, <2>1, RingFacts, WrittenBehind, QueueBetween
  <2> QED BY <2>1, <2>2 DEF QueueStep
<1>10. CASE PushHead
  <2>1. /\ event \in Events /\ recs[head] = event /\ NextIndex(head) # tail
        /\ head' = NextIndex(head) /\ UNCHANGED <<tail, recs, popped>>
    BY <1>10 DEF PushHead, interp, IInv, TaskOK, RingOK, Telling
  <2>2. Queue' = Append(Queue, event)
    <3>1. Between(NextIndex(head), tail, recs) = Append(Between(head, tail, recs), recs[head])
      BY <2>1, RingFacts, Appended
    <3> QED BY <1>t, <2>1, <3>1, RingFacts, QueueBetween
  <2>3. Len(Queue) < Capacity - 1
    BY <2>1, RingFacts, HeadSteps
  <2> QED BY <2>1, <2>2, <2>3 DEF QueueStep
<1>11. CASE PopCopy
  <2>1. head # tail /\ popped' = recs[tail] /\ UNCHANGED <<head, tail, recs>>
    BY <1>11 DEF PopCopy, ring
  <2>2. Queue # <<>> /\ Head(Queue) = recs[tail]
    BY <2>1, RingFacts, Taken
  <2>3. Queue' = Queue
    BY <2>1 DEF Queue, Waiting
  <2> QED BY <2>1, <2>2, <2>3 DEF QueueStep
<1>12. CASE PopStore
  <2>1. /\ head # tail /\ popped = recs[tail] /\ popped' = NoEvent
        /\ tail' = NextIndex(tail) /\ UNCHANGED <<head, recs>>
    BY <1>12 DEF PopStore, IInv, RingOK
  <2>2. /\ Queue # <<>> /\ Head(Queue) = recs[tail]
        /\ Between(head, NextIndex(tail), recs) = Tail(Queue)
    BY <2>1, RingFacts, Taken
  <2>3. Queue' = Tail(Queue)
    BY <1>t, <2>1, <2>2, QueueBetween
  <2> QED BY <2>1, <2>2, <2>3 DEF QueueStep
<1> QED BY <1>1, <1>2, <1>3, <1>4, <1>5, <1>6, <1>7, <1>8, <1>9, <1>10, <1>11,
           <1>12 DEF Next

\* For any devices, slots and capacity: the lock-free ring (usbif_rb_push, usbif_rb_pop)
\* is the queue of EventContract; a record comes out whole, once and in order.
THEOREM RingIsQueue == Spec => KeepsQueue
<1>1. Init => Contract!Init
  BY DEF Init, EmptyRing, Contract!Init, Queue, Waiting
<1>2. QueueStep =>
        [Contract!Put \/ Contract!Read \/ Contract!Take \/ Contract!Restart]_<<Queue, popped>>
  BY DEF QueueStep, Contract!Put, Contract!Read, Contract!Take, Contract!Restart
<1> QED BY Invariance, NextQueue, <1>1, <1>2, PTL DEF Spec, KeepsQueue, Contract!Spec
=============================================================================
