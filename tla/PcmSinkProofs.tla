--------------------------- MODULE PcmSinkProofs ---------------------------
(***************************************************************************)
(* Proofs about PcmSink for any number of tasks, any ring size, frame      *)
(* sizes and lengths.  The inductive invariant adds to the properties what *)
(* ties them together: a caller is inside only while its stream is open or *)
(* being closed, close reads zero only when nobody is in a call, and the   *)
(* try-lock is set while a caller is in the locked part.                   *)
(*                                                                         *)
(* The second half proves that the gate and the ring implement             *)
(* SinkContract.  The queue of the contract is the bytes between the two   *)
(* indices (Bytes): a store of the head appends what was copied behind it  *)
(* (HeadAppends), a store of the tail drops the oldest (TailDrops).  That  *)
(* what is appended is whole frames of one call needs DataOK: from ReadRoom*)
(* on, n is a whole number of frames that fits, and after PushCopy those   *)
(* bytes are behind the head.                                              *)
(***************************************************************************)
EXTENDS PcmSink, FiniteSetTheorems, SequenceTheorems, TLAPS

CallersIn == {c \in Callers : pc[c] \in InCall}

\* live says which stream is open, and only the open or closing one is entered.
GateState ==
  /\ live = IF owner = "open" THEN lastGen ELSE 0
  /\ owner # "none" => held /\ lastGen # 0
  /\ taking # 0 => owner = "open"
  /\ \A c \in Callers :
       pc[c] \in InRing => gen[c] = lastGen /\ owner \in {"open", "closing"}

LockState ==
  /\ OneProducer
  /\ \A c \in Callers : pc[c] \in Locked => busy

IInv == TypeOK /\ UsersCount /\ GateState /\ LockState /\ NoOverrun

----------------------------------------------------------------------------
\* Arithmetic of the two-lap indices, and of the cut to whole frames.

\* Two indices are less than two laps apart.
LEMMA SpanRange ==
  ASSUME NEW h \in Index, NEW t \in Index
  PROVE  Span(h, t) \in Int /\ Span(h, t) >= 0 /\ Span(h, t) <= 2 * Size - 1
BY SizeAssumption DEF Index, Span

\* A push of what fits lengthens the span by what it pushed.
LEMMA AdvanceHead ==
  ASSUME NEW h \in Index, NEW t \in Index, NEW k \in Nat, k <= Size - Span(h, t)
  PROVE  Advance(h, k) \in Index /\ Span(Advance(h, k), t) = Span(h, t) + k
BY SizeAssumption DEF Index, Span, Advance

\* A take of what is there shortens the span by what it took.
LEMMA AdvanceTail ==
  ASSUME NEW h \in Index, NEW t \in Index, NEW k \in Nat, k <= Span(h, t), Span(h, t) <= Size
  PROVE  Advance(t, k) \in Index /\ Span(h, Advance(t, k)) = Span(h, t) - k
BY SizeAssumption DEF Index, Span, Advance

\* A length cut to whole frames is a length, and no longer.
LEMMA CutRange ==
  ASSUME NEW k \in Nat, frame \in 1..Size
  PROVE  Cut(k) \in Nat /\ Cut(k) <= k
<1>1. k % frame \in 0..(frame - 1) BY SizeAssumption
<1>2. k % frame <= k BY SizeAssumption
<1> QED BY <1>1, <1>2, SizeAssumption DEF Cut

\* The callers in a call are finitely many, so counting them makes sense.
LEMMA CallersInFinite == IsFiniteSet(CallersIn) /\ IsFiniteSet(Callers)
<1>1. IsFiniteSet(Callers) BY CallersAssumption, FS_AddElement DEF Callers
<1>2. CallersIn \subseteq Callers BY DEF CallersIn
<1> QED BY <1>1, <1>2, FS_Subset

\* The count follows a caller that comes in or goes out.
LEMMA CountIn ==
  ASSUME TypeOK, UsersCount, NEW c \in Callers, pc[c] \notin InCall,
         NEW p \in InCall, pc' = [pc EXCEPT ![c] = p], users' = users + 1
  PROVE  UsersCount' /\ users' \in Nat
<1>1. CallersIn' = CallersIn \cup {c} BY DEF CallersIn, TypeOK
<1>2. c \notin CallersIn BY DEF CallersIn
<1>3. Cardinality(CallersIn \cup {c}) = Cardinality(CallersIn) + 1
  BY <1>2, CallersInFinite, FS_AddElement
<1>4. users = Cardinality(CallersIn) /\ users \in Nat BY DEF UsersCount, CallersIn, TypeOK
<1>5. users' = Cardinality(CallersIn') BY <1>1, <1>3, <1>4
<1> QED BY <1>4, <1>5 DEF UsersCount, CallersIn

\* The count goes down with the caller that leaves.
LEMMA CountOut ==
  ASSUME TypeOK, UsersCount, NEW c \in Callers, pc[c] \in InCall,
         pc' = [pc EXCEPT ![c] = "out"], users' = users - 1
  PROVE  UsersCount' /\ users' \in Nat
<1>1. CallersIn' = CallersIn \ {c} BY DEF CallersIn, TypeOK, InCall
<1>2. c \in CallersIn BY DEF CallersIn
<1>3. Cardinality(CallersIn \ {c}) = Cardinality(CallersIn) - 1
  BY <1>2, CallersInFinite, FS_RemoveElement
<1>4. users = Cardinality(CallersIn) /\ users \in Nat BY DEF UsersCount, CallersIn, TypeOK
<1>5. users' = Cardinality(CallersIn') BY <1>1, <1>3, <1>4
<1>6. Cardinality(CallersIn \ {c}) \in Nat BY CallersInFinite, FS_RemoveElement, FS_CardinalityType
<1> QED BY <1>1, <1>4, <1>5, <1>6 DEF UsersCount, CallersIn

\* The count stays when nobody comes in or goes out.
LEMMA CountSame ==
  ASSUME TypeOK, UsersCount, users' = users,
         \A c \in Callers : pc'[c] \in InCall <=> pc[c] \in InCall
  PROVE  UsersCount' /\ users' \in Nat
<1>1. CallersIn' = CallersIn BY DEF CallersIn
<1> QED BY <1>1 DEF UsersCount, CallersIn, TypeOK

\* A close that reads zero has waited for everybody.
LEMMA NobodyIn ==
  ASSUME TypeOK, UsersCount, users = 0
  PROVE  \A c \in Callers : pc[c] \notin InCall
<1>1. CallersIn = {} BY CallersInFinite, FS_EmptySet DEF UsersCount, CallersIn
<1> QED BY <1>1 DEF CallersIn

\* The steps that change no caller's place: the owner, the bus, a sink issued.

\* A fresh ring is empty, and nobody is in the one before it.
LEMMA OpenBeginKeeps ==
  ASSUME IInv, OpenBegin
  PROVE  IInv'
<1>1. TypeOK /\ UsersCount /\ GateState /\ LockState /\ NoOverrun BY DEF IInv
<1>2. pc' = pc /\ users' = users BY DEF OpenBegin, gate, calls
<1>3. UsersCount' BY <1>1, <1>2, CountSame
<1>4. TypeOK'
  BY <1>1, SizeAssumption, FramesAssumption, CallersAssumption DEF TypeOK, Callers, Index,
     OpenBegin, gate, ring, calls, FreshRing
<1>5. GateState'
  BY <1>1, <1>2 DEF GateState, TypeOK, OpenBegin, gate, ring, calls, FreshRing
<1>6. LockState'
  BY <1>1, <1>2 DEF LockState, OneProducer, OpenBegin, gate, ring, calls
<1>7. NoOverrun'
    <2>1. head' = 0 /\ tail' = 0 /\ taking' = taking /\ n' = n /\ at' = at
    BY DEF OpenBegin, FreshRing, calls
  <2>2. \A c \in Callers : pc[c] \notin InRing
    BY <1>1 DEF GateState, OpenBegin
  <2>3. taking = 0 BY <1>1 DEF GateState, OpenBegin
  <2>4. Span(0, 0) = 0 BY SizeAssumption DEF Span
  <2> QED BY <1>2, <2>1, <2>2, <2>3, <2>4, SizeAssumption DEF NoOverrun, InRing
<1> QED BY <1>3, <1>4, <1>5, <1>6, <1>7 DEF IInv

\* The new generation is in nobody's hands yet.
LEMMA OpenPublishKeeps ==
  ASSUME IInv, OpenPublish
  PROVE  IInv'
<1>1. TypeOK /\ UsersCount /\ GateState /\ LockState /\ NoOverrun BY DEF IInv
<1>2. pc' = pc /\ users' = users BY DEF OpenPublish, gate, calls
<1>3. UsersCount' BY <1>1, <1>2, CountSame
<1>4. TypeOK'
  BY <1>1, SizeAssumption, FramesAssumption, CallersAssumption DEF TypeOK, Callers, Index,
     OpenPublish, gate, ring, calls
<1>5. GateState'
  BY <1>1, <1>2 DEF GateState, TypeOK, OpenPublish, gate, ring, calls
<1>6. LockState'
  BY <1>1, <1>2 DEF LockState, OneProducer, OpenPublish, gate, ring, calls
<1>7. NoOverrun'
  BY <1>1, <1>2 DEF NoOverrun, Room, OpenPublish, gate, ring, calls
<1> QED BY <1>3, <1>4, <1>5, <1>6, <1>7 DEF IInv

\* Closing the gate leaves those inside where they are.
LEMMA CloseStoreKeeps ==
  ASSUME IInv, NEW who \in {"interp", "host"}, CloseStore(who)
  PROVE  IInv'
<1>1. TypeOK /\ UsersCount /\ GateState /\ LockState /\ NoOverrun BY DEF IInv
<1>2. pc' = pc /\ users' = users BY DEF CloseStore, gate, calls
<1>3. UsersCount' BY <1>1, <1>2, CountSame
<1>4. TypeOK'
  BY <1>1, SizeAssumption, FramesAssumption, CallersAssumption DEF TypeOK, Callers, Index,
     CloseStore, gate, ring, calls
<1>5. GateState'
  BY <1>1, <1>2 DEF GateState, TypeOK, CloseStore, gate, ring, calls
<1>6. LockState'
  BY <1>1, <1>2 DEF LockState, OneProducer, CloseStore, gate, ring, calls
<1>7. NoOverrun'
  BY <1>1, <1>2 DEF NoOverrun, Room, CloseStore, gate, ring, calls
<1> QED BY <1>3, <1>4, <1>5, <1>6, <1>7 DEF IInv

\* The wait ends with nobody inside.
LEMMA CloseReturnKeeps ==
  ASSUME IInv, CloseReturn
  PROVE  IInv'
<1>1. TypeOK /\ UsersCount /\ GateState /\ LockState /\ NoOverrun BY DEF IInv
<1>2. pc' = pc /\ users' = users BY DEF CloseReturn, gate, calls
<1>3. UsersCount' BY <1>1, <1>2, CountSame
<1>4. TypeOK'
  BY <1>1, SizeAssumption, FramesAssumption, CallersAssumption DEF TypeOK, Callers, Index,
     CloseReturn, gate, ring, calls
<1>5. GateState'
  BY <1>1, <1>2, NobodyIn DEF GateState, InRing, InCall, CloseReturn, gate, ring, calls
<1>6. LockState'
  BY <1>1, <1>2 DEF LockState, OneProducer, CloseReturn, gate, ring, calls
<1>7. NoOverrun'
  BY <1>1, <1>2 DEF NoOverrun, Room, CloseReturn, gate, ring, calls
<1> QED BY <1>3, <1>4, <1>5, <1>6, <1>7 DEF IInv

\* The ring is freed behind a closed gate that nobody is inside.
LEMMA FreeRingKeeps ==
  ASSUME IInv, FreeRing
  PROVE  IInv'
<1>1. TypeOK /\ UsersCount /\ GateState /\ LockState /\ NoOverrun BY DEF IInv
<1>2. pc' = pc /\ users' = users BY DEF FreeRing, gate, calls
<1>3. UsersCount' BY <1>1, <1>2, CountSame
<1>4. TypeOK'
  <2>1. head' \in Index /\ tail' \in Index
    BY SizeAssumption DEF FreeRing, FreshRing, Index
  <2>3. DOMAIN buf' = 0..(Size - 1) BY DEF FreeRing, FreshRing
  <2>4. held' \in BOOLEAN BY DEF FreeRing
  <2>2. owner' \in {"none", "opening", "open", "closing", "closed"} BY DEF FreeRing
  <2> QED BY <1>1, <2>1, <2>2, <2>3, <2>4 DEF TypeOK, FreeRing, gate, calls
<1>5. GateState'
  BY <1>1, <1>2 DEF GateState, TypeOK, FreeRing, gate, ring, calls, FreshRing
<1>6. LockState'
  BY <1>1, <1>2 DEF LockState, OneProducer, FreeRing, gate, ring, calls
<1>7. NoOverrun'
    <2>1. head' = 0 /\ tail' = 0 /\ taking' = taking /\ n' = n /\ at' = at
    BY DEF FreeRing, FreshRing, calls
  <2>2. \A c \in Callers : pc[c] \notin InRing
    BY <1>1 DEF GateState, FreeRing
  <2>3. taking = 0 BY <1>1 DEF GateState, FreeRing
  <2>4. Span(0, 0) = 0 BY SizeAssumption DEF Span
  <2> QED BY <1>2, <2>1, <2>2, <2>3, <2>4, SizeAssumption DEF NoOverrun, InRing
<1> QED BY <1>3, <1>4, <1>5, <1>6, <1>7 DEF IInv

\* The reader settles on bytes that are there.
LEMMA TakeLoadKeeps ==
  ASSUME IInv, TakeLoad
  PROVE  IInv'
<1>1. TypeOK /\ UsersCount /\ GateState /\ LockState /\ NoOverrun BY DEF IInv
<1>2. pc' = pc /\ users' = users BY DEF TakeLoad, gate, calls
<1>3. UsersCount' BY <1>1, <1>2, CountSame
<1>4. TypeOK'
  <2>1. Span(head, tail) \in Int /\ Span(head, tail) <= Size
    BY <1>1, SpanRange DEF NoOverrun, TypeOK
  <2>2. taking' \in 0..Size BY <2>1, SizeAssumption DEF TakeLoad
  <2> QED BY <1>1, <2>2 DEF TypeOK, TakeLoad, gate, ring, calls
<1>5. GateState'
  BY <1>1, <1>2 DEF GateState, TypeOK, TakeLoad, gate, ring, calls
<1>6. LockState'
  BY <1>1, <1>2 DEF LockState, OneProducer, TakeLoad, gate, ring, calls
<1>7. NoOverrun'
  BY <1>1, <1>2 DEF NoOverrun, Room, TakeLoad, gate, ring, calls
<1> QED BY <1>3, <1>4, <1>5, <1>6, <1>7 DEF IInv

\* Taking makes room, so a push under way still fits.
LEMMA TakeStoreKeeps ==
  ASSUME IInv, TakeStore
  PROVE  IInv'
<1>1. TypeOK /\ UsersCount /\ GateState /\ LockState /\ NoOverrun BY DEF IInv
<1>2. pc' = pc /\ users' = users BY DEF TakeStore, gate, calls
<1>3. UsersCount' BY <1>1, <1>2, CountSame
<1>4. TypeOK'
  <2>1. head \in Index /\ tail \in Index /\ taking \in Nat BY <1>1 DEF TypeOK
  <2>2. taking <= Span(head, tail) /\ Span(head, tail) <= Size BY <1>1 DEF NoOverrun
  <2>3. tail' \in Index BY <2>1, <2>2, AdvanceTail DEF TakeStore
  <2> QED BY <1>1, <2>3, SizeAssumption DEF TypeOK, TakeStore, gate, calls
<1>5. GateState'
  BY <1>1, <1>2 DEF GateState, TypeOK, TakeStore, gate, ring, calls
<1>6. LockState'
  BY <1>1, <1>2 DEF LockState, OneProducer, TakeStore, gate, ring, calls
<1>7. NoOverrun'
  <2>1. head \in Index /\ tail \in Index /\ taking \in Nat BY <1>1 DEF TypeOK
  <2>2. taking <= Span(head, tail) /\ Span(head, tail) <= Size BY <1>1 DEF NoOverrun
  <2>3. head' = head /\ taking' = 0 /\ n' = n /\ at' = at BY DEF TakeStore, calls
  <2>4. Span(head', tail') = Span(head, tail) - taking
    BY <2>1, <2>2, <2>3, AdvanceTail DEF TakeStore
  <2>5. Span(head, tail) \in Int BY <2>1, SpanRange
  <2>6. \A c \in Callers : n[c] \in Nat BY <1>1 DEF TypeOK
  <2> QED BY <1>1, <1>2, <2>1, <2>2, <2>3, <2>4, <2>5, <2>6, SizeAssumption DEF NoOverrun,
             Room
<1> QED BY <1>3, <1>4, <1>5, <1>6, <1>7 DEF IInv

\* A sink carries the generation that was current, or an older one.
LEMMA CSinkKeeps ==
  ASSUME IInv, NEW t \in Tasks, CSink(t)
  PROVE  IInv'
<1>1. TypeOK /\ UsersCount /\ GateState /\ LockState /\ NoOverrun BY DEF IInv
<1>2. pc' = pc /\ users' = users BY DEF CSink, gate, calls
<1>3. UsersCount' BY <1>1, <1>2, CountSame
<1>4. TypeOK'
  BY <1>1, SizeAssumption, FramesAssumption, CallersAssumption DEF TypeOK, Callers, Index,
     CSink, gate, ring, calls
<1>5. GateState'
  BY <1>1, <1>2 DEF GateState, TypeOK, CSink, gate, ring, calls
<1>6. LockState'
  BY <1>1, <1>2 DEF LockState, OneProducer, CSink, gate, ring, calls
<1>7. NoOverrun'
  BY <1>1, <1>2 DEF NoOverrun, Room, CSink, gate, ring, calls
<1> QED BY <1>3, <1>4, <1>5, <1>6, <1>7 DEF IInv

\* The steps of a call.  A step that moves c leaves the other callers where
\* they are, so each part is a matter of c and of what the step wrote.

\* A native task's call counts itself in.
LEMMA CallSinkKeeps ==
  ASSUME IInv, NEW t \in Tasks, CallSink(t)
  PROVE  IInv'
<1>1. TypeOK /\ UsersCount /\ GateState /\ LockState /\ NoOverrun BY DEF IInv
<1>2. UsersCount' /\ users' \in Nat
  BY <1>1, CountIn DEF InCall, Callers, Goes, CallSink
<1>3. TypeOK'
  BY <1>1, <1>2, SizeAssumption, CallersAssumption DEF TypeOK, Callers, Index, Points, Goes,
     CallSink, gate, ring
<1>4. GateState'
  BY <1>1 DEF GateState, TypeOK, InRing, Goes, CallSink, gate, ring
<1>5. LockState'
  BY <1>1 DEF LockState, OneProducer, TypeOK, Locked, Goes, CallSink, gate, ring
<1>6. NoOverrun'
  BY <1>1 DEF NoOverrun, Room, TypeOK, Goes, CallSink, gate, ring
<1> QED BY <1>2, <1>3, <1>4, <1>5, <1>6 DEF IInv

\* The interpreter's call has yet to read the generation.
LEMMA CallInterpKeeps ==
  ASSUME IInv, CallInterp
  PROVE  IInv'
<1>1. TypeOK /\ UsersCount /\ GateState /\ LockState /\ NoOverrun BY DEF IInv
<1>2. UsersCount' /\ users' \in Nat
  BY <1>1, CountSame DEF InCall, Callers, TypeOK, Goes, CallInterp, gate
<1>3. TypeOK'
  BY <1>1, <1>2, SizeAssumption, CallersAssumption DEF TypeOK, Callers, Index, Points, Goes,
     CallInterp, gate, ring
<1>4. GateState'
  BY <1>1 DEF GateState, TypeOK, InRing, Goes, CallInterp, gate, ring
<1>5. LockState'
  BY <1>1 DEF LockState, OneProducer, TypeOK, Locked, Goes, CallInterp, gate, ring
<1>6. NoOverrun'
  BY <1>1 DEF NoOverrun, Room, TypeOK, Goes, CallInterp, gate, ring
<1> QED BY <1>2, <1>3, <1>4, <1>5, <1>6 DEF IInv

\* It reads the generation before it counts itself in.
LEMMA CurrentKeeps ==
  ASSUME IInv, Current
  PROVE  IInv'
<1>1. TypeOK /\ UsersCount /\ GateState /\ LockState /\ NoOverrun BY DEF IInv
<1>2. UsersCount' /\ users' \in Nat
  BY <1>1, CountSame DEF InCall, Callers, TypeOK, Goes, Current, gate
<1>3. TypeOK'
  BY <1>1, <1>2, SizeAssumption, CallersAssumption DEF TypeOK, Callers, Index, Points, Goes,
     Current, gate, ring
<1>4. GateState'
  BY <1>1 DEF GateState, TypeOK, InRing, Goes, Current, gate, ring
<1>5. LockState'
  BY <1>1 DEF LockState, OneProducer, TypeOK, Locked, Goes, Current, gate, ring
<1>6. NoOverrun'
  BY <1>1 DEF NoOverrun, Room, TypeOK, Goes, Current, gate, ring
<1> QED BY <1>2, <1>3, <1>4, <1>5, <1>6 DEF IInv

\* It counts itself in.
LEMMA AddInterpKeeps ==
  ASSUME IInv, AddInterp
  PROVE  IInv'
<1>1. TypeOK /\ UsersCount /\ GateState /\ LockState /\ NoOverrun BY DEF IInv
<1>2. UsersCount' /\ users' \in Nat
  BY <1>1, CountIn DEF InCall, Callers, Goes, AddInterp
<1>3. TypeOK'
  BY <1>1, <1>2, SizeAssumption, CallersAssumption DEF TypeOK, Callers, Index, Points, Goes,
     AddInterp, gate, ring
<1>4. GateState'
  BY <1>1 DEF GateState, TypeOK, InRing, Goes, AddInterp, gate, ring
<1>5. LockState'
  BY <1>1 DEF LockState, OneProducer, TypeOK, Locked, Goes, AddInterp, gate, ring
<1>6. NoOverrun'
  BY <1>1 DEF NoOverrun, Room, TypeOK, Goes, AddInterp, gate, ring
<1> QED BY <1>2, <1>3, <1>4, <1>5, <1>6 DEF IInv

\* Who finds the gate open under its generation is inside that ring.
LEMMA EnterKeeps ==
  ASSUME IInv, NEW c \in Callers, Enter(c)
  PROVE  IInv'
<1>1. TypeOK /\ UsersCount /\ GateState /\ LockState /\ NoOverrun BY DEF IInv
<1>2. UsersCount' /\ users' \in Nat
  BY <1>1, CountSame DEF InCall, Callers, TypeOK, Goes, Enter, gate
<1>3. TypeOK'
  BY <1>1, <1>2, SizeAssumption, CallersAssumption DEF TypeOK, Callers, Index, Points, Goes,
     Enter, gate, ring
<1>4. GateState'
  BY <1>1 DEF GateState, TypeOK, InRing, Goes, Enter, gate, ring
<1>5. LockState'
  BY <1>1 DEF LockState, OneProducer, TypeOK, Locked, Goes, Enter, gate, ring
<1>6. NoOverrun'
  BY <1>1 DEF NoOverrun, Room, TypeOK, Goes, Enter, gate, ring
<1> QED BY <1>2, <1>3, <1>4, <1>5, <1>6 DEF IInv

\* Who finds it closed, or another generation, touches nothing.
LEMMA RefuseKeeps ==
  ASSUME IInv, NEW c \in Callers, Refuse(c)
  PROVE  IInv'
<1>1. TypeOK /\ UsersCount /\ GateState /\ LockState /\ NoOverrun BY DEF IInv
<1>2. UsersCount' /\ users' \in Nat
  BY <1>1, CountSame DEF InCall, Callers, TypeOK, Goes, Refuse, gate
<1>3. TypeOK'
  BY <1>1, <1>2, SizeAssumption, CallersAssumption DEF TypeOK, Callers, Index, Points, Goes,
     Refuse, gate, ring
<1>4. GateState'
  BY <1>1 DEF GateState, TypeOK, InRing, Goes, Refuse, gate, ring
<1>5. LockState'
  BY <1>1 DEF LockState, OneProducer, TypeOK, Locked, Goes, Refuse, gate, ring
<1>6. NoOverrun'
  BY <1>1 DEF NoOverrun, Room, TypeOK, Goes, Refuse, gate, ring
<1> QED BY <1>2, <1>3, <1>4, <1>5, <1>6 DEF IInv

\* It counts itself out.
LEMMA RefusedLeaveKeeps ==
  ASSUME IInv, NEW c \in Callers, RefusedLeave(c)
  PROVE  IInv'
<1>1. TypeOK /\ UsersCount /\ GateState /\ LockState /\ NoOverrun BY DEF IInv
<1>2. UsersCount' /\ users' \in Nat
  BY <1>1, CountOut DEF InCall, Goes, RefusedLeave
<1>3. TypeOK'
  BY <1>1, <1>2, SizeAssumption, CallersAssumption DEF TypeOK, Callers, Index, Points, Goes,
     RefusedLeave, gate, ring, Forget
<1>4. GateState'
  BY <1>1 DEF GateState, TypeOK, InRing, Goes, RefusedLeave, gate, ring, Forget
<1>5. LockState'
  BY <1>1 DEF LockState, OneProducer, TypeOK, Locked, Goes, RefusedLeave, gate, ring, Forget
<1>6. NoOverrun'
  BY <1>1 DEF NoOverrun, Room, TypeOK, Goes, RefusedLeave, gate, ring, Forget
<1> QED BY <1>2, <1>3, <1>4, <1>5, <1>6 DEF IInv

\* The lock is taken only when nobody has it.
LEMMA TryLockKeeps ==
  ASSUME IInv, NEW c \in Callers, TryLock(c)
  PROVE  IInv'
<1>1. TypeOK /\ UsersCount /\ GateState /\ LockState /\ NoOverrun BY DEF IInv
<1>2. UsersCount' /\ users' \in Nat
  BY <1>1, CountSame DEF InCall, Callers, TypeOK, Goes, TryLock, gate
<1>3. TypeOK'
  BY <1>1, <1>2, SizeAssumption, CallersAssumption DEF TypeOK, Callers, Index, Points, Goes,
     TryLock, gate, ring
<1>4. GateState'
  BY <1>1 DEF GateState, TypeOK, InRing, Goes, TryLock, gate, ring
<1>5. LockState'
  BY <1>1 DEF LockState, OneProducer, TypeOK, Locked, Goes, TryLock, gate, ring
<1>6. NoOverrun'
  BY <1>1 DEF NoOverrun, Room, TypeOK, Goes, TryLock, gate, ring
<1> QED BY <1>2, <1>3, <1>4, <1>5, <1>6 DEF IInv

\* Who does not get the lock leaves without touching the ring.
LEMMA LoseLockKeeps ==
  ASSUME IInv, NEW c \in Callers, LoseLock(c)
  PROVE  IInv'
<1>1. TypeOK /\ UsersCount /\ GateState /\ LockState /\ NoOverrun BY DEF IInv
<1>2. UsersCount' /\ users' \in Nat
  BY <1>1, CountSame DEF InCall, Callers, TypeOK, Goes, LoseLock, gate
<1>3. TypeOK'
  BY <1>1, <1>2, SizeAssumption, CallersAssumption DEF TypeOK, Callers, Index, Points, Goes,
     LoseLock, gate, ring
<1>4. GateState'
  BY <1>1 DEF GateState, TypeOK, InRing, Goes, LoseLock, gate, ring
<1>5. LockState'
  BY <1>1 DEF LockState, OneProducer, TypeOK, Locked, Goes, LoseLock, gate, ring
<1>6. NoOverrun'
  BY <1>1 DEF NoOverrun, Room, TypeOK, Goes, LoseLock, gate, ring
<1> QED BY <1>2, <1>3, <1>4, <1>5, <1>6 DEF IInv

\* Reading the space changes nothing in the ring.
LEMMA SpaceReadKeeps ==
  ASSUME IInv, NEW c \in Callers, SpaceRead(c)
  PROVE  IInv'
<1>1. TypeOK /\ UsersCount /\ GateState /\ LockState /\ NoOverrun BY DEF IInv
<1>2. UsersCount' /\ users' \in Nat
  BY <1>1, CountSame DEF InCall, Callers, TypeOK, Goes, SpaceRead, gate
<1>3. TypeOK'
  <2>1. Span(head, tail) \in Int /\ Span(head, tail) >= 0 /\ Span(head, tail) <= Size
    BY <1>1, SpanRange DEF NoOverrun, TypeOK
  <2>2. Room \in Nat BY <2>1, SizeAssumption DEF Room
  <2>3. Cut(Room) \in Nat BY <1>1, <2>2, CutRange DEF TypeOK
  <2> QED BY <1>1, <1>2, <2>3 DEF TypeOK, Points, Goes, SpaceRead, gate, ring
<1>4. GateState'
  BY <1>1 DEF GateState, TypeOK, InRing, Goes, SpaceRead, gate, ring
<1>5. LockState'
  BY <1>1 DEF LockState, OneProducer, TypeOK, Locked, Goes, SpaceRead, gate, ring
<1>6. NoOverrun'
  BY <1>1 DEF NoOverrun, Room, TypeOK, Goes, SpaceRead, gate, ring
<1> QED BY <1>2, <1>3, <1>4, <1>5, <1>6 DEF IInv

\* The length is cut to what fits, in whole frames.
LEMMA ReadRoomKeeps ==
  ASSUME IInv, NEW c \in Callers, ReadRoom(c)
  PROVE  IInv'
<1>1. TypeOK /\ UsersCount /\ GateState /\ LockState /\ NoOverrun BY DEF IInv
<1>2. UsersCount' /\ users' \in Nat
  BY <1>1, CountSame DEF InCall, Callers, TypeOK, Goes, ReadRoom, gate
<1>3. TypeOK'
  <2>1. Span(head, tail) \in Int /\ Span(head, tail) >= 0 /\ Span(head, tail) <= Size
    BY <1>1, SpanRange DEF NoOverrun, TypeOK
  <2>2. Room \in Nat BY <2>1, SizeAssumption DEF Room
  <2>3. LeastOf(n[c], Room) \in Nat BY <1>1, <2>2 DEF LeastOf, TypeOK
  <2>4. Cut(LeastOf(n[c], Room)) \in Nat BY <1>1, <2>3, CutRange DEF TypeOK
  <2> QED BY <1>1, <1>2, <2>4 DEF TypeOK, Points, ReadRoom, gate, ring
<1>4. GateState'
  BY <1>1 DEF GateState, TypeOK, InRing, Goes, ReadRoom, gate, ring
<1>5. LockState'
  BY <1>1 DEF LockState, OneProducer, TypeOK, Locked, Goes, ReadRoom, gate, ring
<1>6. NoOverrun'
  BY <1>1 DEF NoOverrun, Room, TypeOK, Goes, ReadRoom, gate, ring
<1> QED BY <1>2, <1>3, <1>4, <1>5, <1>6 DEF IInv

\* The head that is loaded stays the head: this producer has the lock.
LEMMA PushLoadKeeps ==
  ASSUME IInv, NEW c \in Callers, PushLoad(c)
  PROVE  IInv'
<1>1. TypeOK /\ UsersCount /\ GateState /\ LockState /\ NoOverrun BY DEF IInv
<1>2. UsersCount' /\ users' \in Nat
  BY <1>1, CountSame DEF InCall, Callers, TypeOK, Goes, PushLoad, gate
<1>3. TypeOK'
  <2>1. Span(head, tail) \in Int /\ Span(head, tail) >= 0 /\ Span(head, tail) <= Size
    BY <1>1, SpanRange DEF NoOverrun, TypeOK
  <2>2. Room \in Nat BY <2>1, SizeAssumption DEF Room
  <2>3. LeastOf(n[c], Room) \in Nat BY <1>1, <2>2 DEF LeastOf, TypeOK
  <2> QED BY <1>1, <1>2, <2>3 DEF TypeOK, Points, PushLoad, gate, ring
<1>4. GateState'
  BY <1>1 DEF GateState, TypeOK, InRing, Goes, PushLoad, gate, ring
<1>5. LockState'
  BY <1>1 DEF LockState, OneProducer, TypeOK, Locked, Goes, PushLoad, gate, ring
<1>6. NoOverrun'
  <2>1. Span(head, tail) \in Int /\ Span(head, tail) >= 0 /\ Span(head, tail) <= Size
    BY <1>1, SpanRange DEF NoOverrun, TypeOK
  <2>2. Room \in Nat BY <2>1, SizeAssumption DEF Room
  <2>3. LeastOf(n[c], Room) \in Nat /\ LeastOf(n[c], Room) <= Room
    BY <1>1, <2>2 DEF LeastOf, TypeOK
  <2>4. n' = [n EXCEPT ![c] = LeastOf(n[c], Room)] /\ at' = [at EXCEPT ![c] = head]
    BY DEF PushLoad
  <2>5. Room' = Room /\ head' = head /\ tail' = tail /\ taking' = taking
    BY DEF PushLoad, ring, Room
  <2>6. \A d \in Callers : d # c => pc'[d] = pc[d] /\ n'[d] = n[d] /\ at'[d] = at[d]
    BY <1>1, <2>4 DEF TypeOK, PushLoad
  <2>7. n'[c] <= Room /\ at'[c] = head BY <1>1, <2>3, <2>4 DEF TypeOK
  <2> QED BY <1>1, <2>5, <2>6, <2>7 DEF NoOverrun
<1> QED BY <1>2, <1>3, <1>4, <1>5, <1>6 DEF IInv

\* The copy moves no index.
LEMMA PushCopyKeeps ==
  ASSUME IInv, NEW c \in Callers, PushCopy(c)
  PROVE  IInv'
<1>1. TypeOK /\ UsersCount /\ GateState /\ LockState /\ NoOverrun BY DEF IInv
<1>2. UsersCount' /\ users' \in Nat
  BY <1>1, CountSame DEF InCall, Callers, TypeOK, Goes, PushCopy, gate
<1>3. TypeOK'
  BY <1>1, <1>2, SizeAssumption, CallersAssumption DEF TypeOK, Callers, Index, Points, Goes,
     PushCopy, gate, ring
<1>4. GateState'
  BY <1>1 DEF GateState, TypeOK, InRing, Goes, PushCopy, gate, ring
<1>5. LockState'
  BY <1>1 DEF LockState, OneProducer, TypeOK, Locked, Goes, PushCopy, gate, ring
<1>6. NoOverrun'
  BY <1>1 DEF NoOverrun, Room, TypeOK, Goes, PushCopy, gate, ring
<1> QED BY <1>2, <1>3, <1>4, <1>5, <1>6 DEF IInv

\* The stored head is as far from the tail as the bytes now in the ring.
LEMMA PushStoreKeeps ==
  ASSUME IInv, NEW c \in Callers, PushStore(c)
  PROVE  IInv'
<1>1. TypeOK /\ UsersCount /\ GateState /\ LockState /\ NoOverrun BY DEF IInv
<1>2. UsersCount' /\ users' \in Nat
  BY <1>1, CountSame DEF InCall, Callers, TypeOK, Goes, PushStore, gate
<1>3. TypeOK'
  <2>1. head \in Index /\ tail \in Index /\ n[c] \in Nat BY <1>1 DEF TypeOK
  <2>2. pc[c] = "store" BY DEF PushStore, Goes
  <2>3. at[c] = head /\ n[c] <= Size - Span(head, tail) BY <1>1, <2>2 DEF NoOverrun, Room
  <2>4. head' \in Index /\ Span(head', tail) = Span(head, tail) + n[c]
    BY <2>1, <2>3, AdvanceHead DEF PushStore
  <2> QED BY <1>1, <1>2, <2>4 DEF TypeOK, Points, Goes, PushStore, gate
<1>4. GateState'
  BY <1>1 DEF GateState, TypeOK, InRing, Goes, PushStore, gate, ring
<1>5. LockState'
  BY <1>1 DEF LockState, OneProducer, TypeOK, Locked, Goes, PushStore, gate, ring
<1>6. NoOverrun'
  <2>1. head \in Index /\ tail \in Index /\ n[c] \in Nat BY <1>1 DEF TypeOK
  <2>2. pc[c] = "store" BY DEF PushStore, Goes
  <2>3. at[c] = head /\ n[c] <= Size - Span(head, tail) BY <1>1, <2>2 DEF NoOverrun, Room
  <2>4. head' \in Index /\ Span(head', tail) = Span(head, tail) + n[c]
    BY <2>1, <2>3, AdvanceHead DEF PushStore
  <2>5. tail' = tail /\ taking' = taking /\ n' = n /\ at' = at BY DEF PushStore
  <2>6. \A d \in Callers : pc'[d] \notin {"copy", "store"}
    BY <1>1, <2>2 DEF LockState, OneProducer, Locked, TypeOK, PushStore, Goes
  <2>7. Span(head, tail) \in Int /\ taking \in Int BY <2>1, SpanRange, <1>1 DEF TypeOK
  <2> QED BY <1>1, <2>1, <2>3, <2>4, <2>5, <2>6, <2>7, SizeAssumption DEF NoOverrun
<1> QED BY <1>2, <1>3, <1>4, <1>5, <1>6 DEF IInv

\* The lock is free again and its holder outside it.
LEMMA UnlockKeeps ==
  ASSUME IInv, NEW c \in Callers, Unlock(c)
  PROVE  IInv'
<1>1. TypeOK /\ UsersCount /\ GateState /\ LockState /\ NoOverrun BY DEF IInv
<1>2. UsersCount' /\ users' \in Nat
  BY <1>1, CountSame DEF InCall, Callers, TypeOK, Goes, Unlock, gate
<1>3. TypeOK'
  BY <1>1, <1>2, SizeAssumption, CallersAssumption DEF TypeOK, Callers, Index, Points, Goes,
     Unlock, gate, ring
<1>4. GateState'
  BY <1>1 DEF GateState, TypeOK, InRing, Goes, Unlock, gate, ring
<1>5. LockState'
  BY <1>1 DEF LockState, OneProducer, TypeOK, Locked, Goes, Unlock, gate, ring
<1>6. NoOverrun'
  BY <1>1 DEF NoOverrun, Room, TypeOK, Goes, Unlock, gate, ring
<1> QED BY <1>2, <1>3, <1>4, <1>5, <1>6 DEF IInv

\* A caller that is done counts itself out.
LEMMA LeaveKeeps ==
  ASSUME IInv, NEW c \in Callers, Leave(c)
  PROVE  IInv'
<1>1. TypeOK /\ UsersCount /\ GateState /\ LockState /\ NoOverrun BY DEF IInv
<1>2. UsersCount' /\ users' \in Nat
  BY <1>1, CountOut DEF InCall, Goes, Leave
<1>3. TypeOK'
  BY <1>1, <1>2, SizeAssumption, CallersAssumption DEF TypeOK, Callers, Index, Points, Goes,
     Leave, gate, ring, Forget
<1>4. GateState'
  BY <1>1 DEF GateState, TypeOK, InRing, Goes, Leave, gate, ring, Forget
<1>5. LockState'
  BY <1>1 DEF LockState, OneProducer, TypeOK, Locked, Goes, Leave, gate, ring, Forget
<1>6. NoOverrun'
  BY <1>1 DEF NoOverrun, Room, TypeOK, Goes, Leave, gate, ring, Forget
<1> QED BY <1>2, <1>3, <1>4, <1>5, <1>6 DEF IInv

----------------------------------------------------------------------------
\* The invariant holds at first.
LEMMA InitIInv == Init => IInv
<1> SUFFICES ASSUME Init PROVE IInv OBVIOUS
<1>1. TypeOK
  <2>1. frame \in 1..Size /\ head \in Index /\ tail \in Index /\ taking \in 0..Size
    BY SizeAssumption DEF Init, Index
  <2>2. at \in [Callers -> Index] BY SizeAssumption DEF Init, Index
  <2>3. held \in BOOLEAN /\ busy \in BOOLEAN BY DEF Init
  <2>4. DOMAIN buf = 0..(Size - 1) BY DEF Init
  <2> QED BY <2>1, <2>2, <2>3, <2>4 DEF Init, TypeOK, Points
<1>2. UsersCount
  <2>1. CallersIn = {} BY DEF Init, CallersIn, InCall
  <2> QED BY <2>1, FS_EmptySet DEF UsersCount, CallersIn, Init
<1>3. GateState /\ LockState BY DEF Init, GateState, LockState, OneProducer, InRing, Locked
<1>4. NoOverrun BY SizeAssumption DEF Init, NoOverrun, Span
<1> QED BY <1>1, <1>2, <1>3, <1>4 DEF IInv

\* Every step of a call keeps the invariant.
LEMMA StepKeeps ==
  ASSUME IInv, NEW c \in Callers, Step(c)
  PROVE  IInv'
BY EnterKeeps, RefuseKeeps, RefusedLeaveKeeps, TryLockKeeps, LoseLockKeeps, SpaceReadKeeps,
   ReadRoomKeeps, PushLoadKeeps, PushCopyKeeps, PushStoreKeeps, UnlockKeeps, LeaveKeeps DEF Step

\* So does every step of the specification.
LEMMA NextIInv == IInv /\ [Next]_vars => IInv'
<1> SUFFICES ASSUME IInv, [Next]_vars PROVE IInv' OBVIOUS
<1>1. CASE OpenBegin \/ OpenPublish \/ CloseReturn \/ FreeRing \/ TakeLoad \/ TakeStore
  BY <1>1, OpenBeginKeeps, OpenPublishKeeps, CloseReturnKeeps, FreeRingKeeps,
     TakeLoadKeeps, TakeStoreKeeps
<1>2. CASE \E who \in {"interp", "host"} : CloseStore(who) BY <1>2, CloseStoreKeeps
<1>3. CASE \E t \in Tasks : CSink(t) \/ CallSink(t) BY <1>3, CSinkKeeps, CallSinkKeeps
<1>4. CASE CallInterp \/ Current \/ AddInterp
  BY <1>4, CallInterpKeeps, CurrentKeeps, AddInterpKeeps
<1>5. CASE \E c \in Callers : Step(c) BY <1>5, StepKeeps
<1>6. CASE UNCHANGED vars
  BY <1>6 DEF IInv, TypeOK, UsersCount, GateState, LockState, OneProducer, NoOverrun, Room,
              vars, gate, ring, calls
<1> QED BY <1>1, <1>2, <1>3, <1>4, <1>5, <1>6 DEF Next

\* The invariant holds of every behaviour, for every value of the constants.
THEOREM GateInductive == Spec => []IInv
<1> QED BY InitIInv, NextIInv, PTL DEF Spec

\* Every variable keeps its type: the counts never go below zero, the indices
\* stay within two laps.
THEOREM GateTypeCorrect == Spec => []TypeOK
<1>1. IInv => TypeOK BY DEF IInv
<1> QED BY <1>1, GateInductive, PTL

\* No call of any task is inside a ring whose storage is gone, or inside the
\* ring of another stream than the one its sink was issued for.
THEOREM NeverInsideAFreedRing == Spec => []InsideIsHeld
<1>1. IInv => InsideIsHeld BY DEF IInv, GateState, InsideIsHeld
<1> QED BY <1>1, GateInductive, PTL

\* The try-lock keeps the single-producer ring single-producer.
THEOREM OneProducerAtATime == Spec => []OneProducer
<1>1. IInv => OneProducer BY DEF IInv, LockState
<1> QED BY <1>1, GateInductive, PTL

\* A producer's copy never reaches a byte the host task has yet to take.
THEOREM NeverOverruns == Spec => []NoOverrun
<1>1. IInv => NoOverrun BY DEF IInv
<1> QED BY <1>1, GateInductive, PTL

\* The count close waits on is the number of calls in progress.
THEOREM CountIsExact == Spec => []UsersCount
<1>1. IInv => UsersCount BY DEF IInv
<1> QED BY <1>1, GateInductive, PTL

----------------------------------------------------------------------------
(* The queue the ring implements.                                          *)

\* What a writer has settled on fits, in whole frames; once copied it is stored
\* behind the head.  The reader takes whole frames.
Pushing == {"push", "copy", "store"}
Settled ==
  \A c \in Callers : pc[c] \in Pushing => n[c] > 0 /\ n[c] % frame = 0 /\ n[c] <= Room
Copied ==
  \A c \in Callers : pc[c] = "store" =>
    \A k \in 0..(n[c] - 1) : buf[Place(head, k)] = <<c, k % frame>>
DataOK == taking % frame = 0 /\ Settled /\ Copied

\* Where the k-th byte after an index is, in the three laps the sum may reach.
Wrap(x) == IF x < Size THEN x ELSE IF x < 2 * Size THEN x - Size ELSE x - 2 * Size

\* A place in the ring is the index in its lap.
LEMMA PlaceIs ==
  ASSUME NEW a \in Index, NEW k \in 0..Size
  PROVE  Place(a, k) = Wrap(a + k) /\ Place(a, k) \in 0..(Size - 1)
BY SizeAssumption DEF Index, Place, Wrap

\* From a place back to how far it is behind the index.
LEMMA PlaceBack ==
  ASSUME NEW a \in Index, NEW k \in 0..(Size - 1)
  PROVE  (Place(a, k) - a) % Size = k
<1>1. \A i \in 0..(Size - 1) :
        (i - a) % Size = IF a <= i THEN i - a ELSE IF a <= i + Size THEN i - a + Size
                                   ELSE i - a + 2 * Size
  BY SizeAssumption DEF Index
<1>2. Place(a, k) = Wrap(a + k) /\ Place(a, k) \in 0..(Size - 1)
  BY PlaceIs, SizeAssumption
<1> QED BY <1>1, <1>2, SizeAssumption DEF Index, Wrap

\* Two bytes of one lap have two places.
LEMMA PlacesApart ==
  ASSUME NEW a \in Index, NEW j \in 0..(Size - 1), NEW k \in 0..(Size - 1), j # k
  PROVE  Place(a, j) # Place(a, k)
BY PlaceBack

\* The bytes behind the head are those behind what waits.
LEMMA PlaceBehind ==
  ASSUME NEW h \in Index, NEW t \in Index, NEW k \in Nat, Span(h, t) + k < Size
  PROVE  Place(h, k) = Place(t, Span(h, t) + k)
<1>1. k \in 0..Size /\ Span(h, t) + k \in 0..Size
  BY SpanRange, SizeAssumption
<1>2. Place(h, k) = Wrap(h + k) /\ Place(t, Span(h, t) + k) = Wrap(t + (Span(h, t) + k))
  BY <1>1, PlaceIs
<1> QED BY <1>2, SizeAssumption DEF Index, Span, Wrap

\* The bytes behind an index that moved on are those further behind it.
LEMMA PlaceFurther ==
  ASSUME NEW t \in Index, NEW j \in Nat, NEW k \in Nat, j + k < Size
  PROVE  Place(Advance(t, k), j) = Place(t, k + j)
<1>1. Advance(t, k) \in Index
  BY SizeAssumption DEF Index, Advance
<1>2. /\ Place(Advance(t, k), j) = Wrap(Advance(t, k) + j)
      /\ Place(t, k + j) = Wrap(t + (k + j))
  BY <1>1, PlaceIs, SizeAssumption
<1> QED BY <1>2, SizeAssumption DEF Index, Advance, Wrap

\* The bytes between two indices, oldest first, a sequence of what the ring stores.
Bytes(h, t, b) == [i \in 1..Span(h, t) |-> b[Place(t, i - 1)]]
Stored(b) == {b[i] : i \in 0..(Size - 1)}

\* What waits is a sequence, as long as the indices say.
LEMMA BytesSeq ==
  ASSUME NEW h \in Index, NEW t \in Index, NEW b, Span(h, t) <= Size
  PROVE  Bytes(h, t, b) \in Seq(Stored(b)) /\ Len(Bytes(h, t, b)) = Span(h, t)
<1>1. Span(h, t) \in Nat
  BY SpanRange
<1>2. \A i \in 1..Span(h, t) : i - 1 \in 0..Size
  BY <1>1, SizeAssumption
<1>3. \A i \in 1..Span(h, t) : b[Place(t, i - 1)] \in Stored(b)
  BY <1>2, PlaceIs DEF Stored
<1>4. Bytes(h, t, b) \in [1..Span(h, t) -> Stored(b)]
  BY <1>3 DEF Bytes
<1> QED BY <1>1, <1>4

\* A sequence is the function it looks like.
LEMMA SeqIsFunction ==
  ASSUME NEW S, NEW s \in Seq(S)
  PROVE  s = [i \in 1..Len(s) |-> s[i]]
OBVIOUS

\* A head that moves on appends what is behind it.
LEMMA HeadAppends ==
  ASSUME NEW h \in Index, NEW t \in Index, NEW k \in Nat, NEW b,
         k <= Size - Span(h, t), Span(h, t) <= Size
  PROVE  Bytes(Advance(h, k), t, b) = Bytes(h, t, b) \o [i \in 1..k |-> b[Place(h, i - 1)]]
<1> DEFINE m == Span(h, t)
           q == Bytes(h, t, b)
           r == [i \in 1..k |-> b[Place(h, i - 1)]]
           z == Bytes(Advance(h, k), t, b)
<1>1. m \in Nat /\ m <= Size /\ Span(Advance(h, k), t) = m + k
  BY SpanRange, AdvanceHead
<1>2. q \in Seq(Stored(b)) /\ Len(q) = m /\ \A i \in 1..m : q[i] = b[Place(t, i - 1)]
  BY <1>1, BytesSeq DEF Bytes
<1>3. \A i \in 1..k : Place(h, i - 1) = Place(t, m + i - 1) /\ Place(h, i - 1) \in 0..(Size - 1)
  <2> SUFFICES ASSUME NEW i \in 1..k
               PROVE  /\ Place(h, i - 1) = Place(t, m + i - 1)
                      /\ Place(h, i - 1) \in 0..(Size - 1)
    OBVIOUS
  <2>1. i - 1 \in Nat /\ m + (i - 1) < Size /\ i - 1 \in 0..Size /\ m + (i - 1) = m + i - 1
    BY <1>1, SizeAssumption
  <2> QED BY <2>1, PlaceBehind, PlaceIs
<1>4. r \in Seq(Stored(b)) /\ Len(r) = k /\ \A i \in 1..k : r[i] = b[Place(t, m + i - 1)]
  <2>1. r \in [1..k -> Stored(b)]
    BY <1>3 DEF Stored
  <2> QED BY <1>3, <2>1
<1>5. z = [i \in 1..(m + k) |-> b[Place(t, i - 1)]]
  BY <1>1 DEF Bytes
<1> HIDE DEF m, q, r, z
<1>6. \A i \in 1..(m + k) : (q \o r)[i] = b[Place(t, i - 1)]
  <2> TAKE i \in 1..(m + k)
  <2>1. CASE i <= m
    BY <1>1, <1>2, <1>4, <2>1
  <2>2. CASE i > m
    <3>1. i - m \in 1..k /\ m + (i - m) - 1 = i - 1
      BY <1>1, <2>2
    <3>2. (q \o r)[i] = r[i - m]
      BY <1>1, <1>2, <1>4, <2>2, ConcatProperties
    <3> QED BY <1>4, <3>1, <3>2
  <2>3. i <= m \/ i > m
    BY <1>1
  <2> QED BY <2>1, <2>2, <2>3
<1>7. q \o r = [i \in 1..(m + k) |-> (q \o r)[i]]
  <2>1. q \o r \in Seq(Stored(b)) /\ Len(q \o r) = m + k
    BY <1>2, <1>4, ConcatProperties
  <2> QED BY <2>1, SeqIsFunction, Zenon
<1>8. q \o r = z
  BY <1>5, <1>6, <1>7
<1> QED BY <1>8 DEF q, r, z

\* A tail that moves on drops the oldest.
LEMMA TailDrops ==
  ASSUME NEW h \in Index, NEW t \in Index, NEW k \in Nat, NEW b,
         k <= Span(h, t), Span(h, t) <= Size
  PROVE  Bytes(h, Advance(t, k), b) = SubSeq(Bytes(h, t, b), k + 1, Span(h, t))
<1> DEFINE m == Span(h, t)
           q == Bytes(h, t, b)
           z == Bytes(h, Advance(t, k), b)
<1>1. m \in Nat /\ m <= Size /\ Span(h, Advance(t, k)) = m - k
  BY SpanRange, AdvanceTail
<1>2. q \in Seq(Stored(b)) /\ Len(q) = m /\ \A i \in 1..m : q[i] = b[Place(t, i - 1)]
  BY <1>1, BytesSeq DEF Bytes
<1>3. z = [i \in 1..(m - k) |-> b[Place(Advance(t, k), i - 1)]]
  BY <1>1 DEF Bytes
<1>4. \A i \in 1..(m - k) : b[Place(Advance(t, k), i - 1)] = b[Place(t, (k + i) - 1)]
  <2> TAKE i \in 1..(m - k)
  <2>1. i - 1 \in Nat /\ (i - 1) + k < Size /\ k + (i - 1) = (k + i) - 1
    BY <1>1, SizeAssumption
  <2> QED BY <2>1, PlaceFurther
<1> HIDE DEF m, q, z
<1>5. /\ Len(SubSeq(q, k + 1, m)) = m - k /\ SubSeq(q, k + 1, m) \in Seq(Stored(b))
      /\ \A i \in 1..(m - k) : SubSeq(q, k + 1, m)[i] = q[k + i]
  <2>1. k + 1 \in 1..(Len(q) + 1) /\ m \in ((k + 1) - 1)..Len(q) /\ k <= m
    BY <1>1, <1>2 DEF m
  <2> QED BY <1>1, <1>2, <2>1
<1>6. SubSeq(q, k + 1, m) = [i \in 1..(m - k) |-> SubSeq(q, k + 1, m)[i]]
  BY <1>1, <1>5
<1>7. \A i \in 1..(m - k) : q[k + i] = b[Place(t, (k + i) - 1)]
  BY <1>1, <1>2
<1>8. z = SubSeq(q, k + 1, m)
  BY <1>3, <1>4, <1>5, <1>6, <1>7
<1> QED BY <1>8 DEF m, q, z

\* A length cut to whole frames is one.
LEMMA CutWhole ==
  ASSUME NEW k \in Nat, frame \in 1..Size
  PROVE  Cut(k) % frame = 0
<1>1. ASSUME NEW q \in Nat, NEW f \in Nat \ {0} PROVE (f * q) % f = 0
  OBVIOUS
<1>2. ASSUME NEW f \in Nat \ {0} PROVE k = f * (k \div f) + (k % f) /\ k \div f \in Nat
  OBVIOUS
<1>3. ASSUME NEW f \in Nat \ {0} PROVE k - (k % f) = f * (k \div f)
  <2>1. k % f \in Int /\ f * (k \div f) \in Int
    OBVIOUS
  <2> QED BY <1>2, <2>1
<1>4. ASSUME NEW f \in Nat \ {0} PROVE (k - (k % f)) % f = 0
  BY <1>1, <1>2, <1>3
<1> QED BY <1>4 DEF Cut

\* The room left in the ring is an integer.
LEMMA RoomType == ASSUME TypeOK PROVE Room \in Int
BY SpanRange, SizeAssumption DEF TypeOK, Room

\* A step that puts nobody into the push, shrinks no room and writes no byte keeps
\* all of this.
LEMMA DataSame ==
  ASSUME IInv, DataOK, taking' % frame' = 0, Room' >= Room, frame' = frame, head' = head,
         buf' = buf, \A d \in Callers : pc'[d] \in Pushing => pc[d] \in Pushing /\ n'[d] = n[d],
         \A d \in Callers : pc'[d] = "store" => pc[d] = "store", Room' \in Int
  PROVE  DataOK'
<1>1. Settled'
  BY RoomType DEF DataOK, Settled, IInv, TypeOK
<1>2. Copied'
  BY DEF DataOK, Copied, Pushing
<1> QED BY <1>1, <1>2 DEF DataOK

\* So does one that leaves nobody in the push.
LEMMA DataFresh ==
  ASSUME taking' % frame' = 0, \A d \in Callers : pc'[d] \notin Pushing
  PROVE  DataOK'
BY DEF DataOK, Settled, Copied, Pushing

\* An open starts with an empty ring that nobody is in, and gives it its frame.
LEMMA OpenBeginData ==
  ASSUME IInv, DataOK, OpenBegin
  PROVE  DataOK'
<1>1. \A d \in Callers : pc'[d] \notin Pushing
  BY DEF OpenBegin, IInv, GateState, InRing, Pushing, calls
<1>2. taking' = 0 /\ frame' \in Nat \ {0}
  BY FramesAssumption DEF OpenBegin, IInv, GateState
<1>3. \A f \in Nat \ {0} : 0 % f = 0
  OBVIOUS
<1> QED BY <1>1, <1>2, <1>3, DataFresh

\* The ring is freed with nobody in it.
LEMMA FreeRingData ==
  ASSUME IInv, DataOK, FreeRing
  PROVE  DataOK'
<1>1. \A d \in Callers : pc'[d] \notin Pushing
  BY DEF FreeRing, IInv, GateState, InRing, Pushing, calls
<1>2. taking' = 0 /\ frame' \in Nat \ {0}
  BY DEF FreeRing, IInv, GateState, TypeOK, gate
<1>3. \A f \in Nat \ {0} : 0 % f = 0
  OBVIOUS
<1> QED BY <1>1, <1>2, <1>3, DataFresh

\* A step of the gate, of the reader's load, or of a call up to the push and after it.
PushesStay ==
  /\ UNCHANGED <<frame, head, tail, buf>> /\ (taking' = taking \/ taking' % frame = 0)
  /\ \A d \in Callers : pc'[d] \in Pushing => pc[d] \in Pushing /\ n'[d] = n[d]
  /\ \A d \in Callers : pc'[d] = "store" => pc[d] = "store"
QuietStep ==
  \/ OpenPublish \/ CloseReturn \/ TakeLoad \/ CallInterp \/ Current \/ AddInterp
  \/ \E who \in {"interp", "host"} : CloseStore(who)
  \/ \E t \in Tasks : CSink(t) \/ CallSink(t)
  \/ \E c \in Callers : \/ Enter(c) \/ Refuse(c) \/ RefusedLeave(c) \/ TryLock(c) \/ LoseLock(c)
                         \/ SpaceRead(c) \/ Unlock(c) \/ Leave(c)

\* None of them touches the ring.
LEMMA QuietStays == ASSUME IInv, QuietStep PROVE PushesStay
<1>1. CASE OpenPublish
  BY <1>1 DEF OpenPublish, PushesStay, IInv, ring, calls
<1>2. ASSUME NEW who \in {"interp", "host"}, CloseStore(who) PROVE PushesStay
  BY <1>2 DEF CloseStore, PushesStay, IInv, ring, calls
<1>3. CASE CloseReturn
  BY <1>3 DEF CloseReturn, PushesStay, IInv, gate, ring, calls
<1>4. CASE TakeLoad
  BY <1>4 DEF TakeLoad, PushesStay, IInv, gate, ring, calls
<1>5. ASSUME NEW t \in Tasks, CSink(t) PROVE PushesStay
  BY <1>5 DEF CSink, PushesStay, IInv, gate, ring
<1>6. ASSUME NEW t \in Tasks, CallSink(t) PROVE PushesStay
  BY <1>6 DEF CallSink, PushesStay, IInv, TypeOK, Pushing, Goes, ring
<1>7. CASE CallInterp
  BY <1>7 DEF CallInterp, PushesStay, IInv, TypeOK, Pushing, Goes, gate, ring
<1>8. CASE Current
  BY <1>8 DEF Current, PushesStay, IInv, Pushing, Goes, gate, ring
<1>9. CASE AddInterp
  BY <1>9 DEF AddInterp, PushesStay, IInv, Pushing, Goes, ring
<1>10. ASSUME NEW c \in Callers, Enter(c) PROVE PushesStay
  BY <1>10 DEF Enter, PushesStay, IInv, Pushing, Goes, gate, ring
<1>11. ASSUME NEW c \in Callers, Refuse(c) PROVE PushesStay
  BY <1>11 DEF Refuse, PushesStay, IInv, Pushing, Goes, gate, ring
<1>12. ASSUME NEW c \in Callers, RefusedLeave(c) PROVE PushesStay
  BY <1>12 DEF RefusedLeave, PushesStay, IInv, Pushing, Goes, ring, Forget
<1>13. ASSUME NEW c \in Callers, TryLock(c) PROVE PushesStay
  BY <1>13 DEF TryLock, PushesStay, IInv, Pushing, Goes, ring
<1>14. ASSUME NEW c \in Callers, LoseLock(c) PROVE PushesStay
  BY <1>14 DEF LoseLock, PushesStay, IInv, Pushing, Goes, gate, ring
<1>15. ASSUME NEW c \in Callers, SpaceRead(c) PROVE PushesStay
  BY <1>15 DEF SpaceRead, PushesStay, IInv, Pushing, Goes, gate, ring
<1>16. ASSUME NEW c \in Callers, Unlock(c) PROVE PushesStay
  BY <1>16 DEF Unlock, PushesStay, IInv, Pushing, Goes, ring
<1>17. ASSUME NEW c \in Callers, Leave(c) PROVE PushesStay
  BY <1>17 DEF Leave, PushesStay, IInv, Pushing, Goes, ring, Forget
<1> QED BY <1>1, <1>2, <1>3, <1>4, <1>5, <1>6, <1>7, <1>8, <1>9, <1>10, <1>11, <1>12, <1>13,
           <1>14, <1>15, <1>16, <1>17 DEF QuietStep

\* A step that touches neither the ring nor what a push takes keeps all of this.
LEMMA QuietData == ASSUME IInv, DataOK, QuietStep PROVE DataOK'
<1>1. PushesStay
  BY QuietStays
<1>2. Room' = Room /\ Room \in Int /\ taking' % frame' = 0
  BY <1>1, RoomType DEF PushesStay, Room, IInv, DataOK
<1> QED BY <1>1, <1>2, DataSame DEF PushesStay

\* The reader makes room, whole frames of it.
LEMMA TakeStoreData ==
  ASSUME IInv, DataOK, TakeStore
  PROVE  DataOK'
<1>1. /\ head \in Index /\ tail \in Index /\ taking \in Nat
      /\ taking <= Span(head, tail) /\ Span(head, tail) <= Size
  BY DEF IInv, TypeOK, NoOverrun
<1>2. Span(head, tail') = Span(head, tail) - taking
  BY <1>1, AdvanceTail DEF TakeStore
<1>3. Room' \in Int /\ Room' >= Room
  BY <1>1, <1>2, SpanRange, SizeAssumption DEF Room, TakeStore
<1>4. /\ frame' = frame /\ head' = head /\ buf' = buf /\ pc' = pc /\ n' = n /\ taking' = 0
      /\ frame \in Nat \ {0}
  BY DEF TakeStore, gate, calls, IInv, TypeOK
<1> QED BY <1>3, <1>4, DataSame

\* The locked caller settles on whole frames that fit the room it reads; the room only
\* grows until it stores, for it is the only producer.
LEMMA ReadRoomData ==
  ASSUME IInv, DataOK, NEW c \in Callers, ReadRoom(c)
  PROVE  DataOK'
<1>1. /\ UNCHANGED <<taking, frame, Room, head, buf>>
      /\ pc[c] = "room" /\ n[c] \in Nat /\ Room \in Nat /\ frame \in 1..Size
  <2>1. Span(head, tail) <= Size /\ Room \in Int /\ Span(head, tail) \in Int
    BY RoomType, SpanRange DEF IInv, TypeOK, NoOverrun
  <2> QED BY <2>1, SizeAssumption DEF ReadRoom, gate, ring, Room, IInv, TypeOK
<1>2. PICK k : k = Cut(LeastOf(n[c], Room))
  OBVIOUS
<1>3. k \in Nat /\ k % frame = 0 /\ k <= Room
  <2>1. LeastOf(n[c], Room) \in Nat /\ LeastOf(n[c], Room) <= Room
    BY <1>1 DEF LeastOf
  <2>2. k \in Nat /\ k % frame = 0 /\ k <= LeastOf(n[c], Room)
    BY <1>1, <1>2, <2>1, CutRange, CutWhole
  <2> QED BY <1>1, <2>1, <2>2
<1>4. pc' = [pc EXCEPT ![c] = IF k = 0 THEN "unlock" ELSE "push"] /\ n' = [n EXCEPT ![c] = k]
  BY <1>2 DEF ReadRoom
<1>5. \A d \in Callers : d # c => pc[d] \notin Pushing
  BY <1>1 DEF IInv, LockState, OneProducer, Locked, Pushing
<1>6. Settled'
  BY <1>1, <1>3, <1>4, <1>5 DEF Settled, IInv, TypeOK, Pushing
<1>7. Copied'
  BY <1>1, <1>4, <1>5 DEF Copied, IInv, Pushing
<1> QED BY <1>1, <1>6, <1>7 DEF DataOK

\* The push finds the room it was promised, so it cuts nothing.
LEMMA PushLoadData ==
  ASSUME IInv, DataOK, NEW c \in Callers, PushLoad(c)
  PROVE  DataOK'
<1>1. /\ UNCHANGED <<taking, frame, Room, head, buf>>
      /\ pc[c] = "push" /\ n[c] \in Nat /\ Room \in Int /\ n[c] <= Room
  BY RoomType DEF PushLoad, gate, ring, Room, IInv, TypeOK, DataOK, Settled, Pushing
<1>2. LeastOf(n[c], Room) = n[c]
  BY <1>1 DEF LeastOf
<1>3. n' = n /\ (pc' = [pc EXCEPT ![c] = "unlock"] \/ pc' = [pc EXCEPT ![c] = "copy"])
  BY <1>2 DEF PushLoad, IInv, TypeOK
<1>4. /\ \A d \in Callers : pc'[d] \in Pushing => pc[d] \in Pushing /\ n'[d] = n[d]
      /\ \A d \in Callers : pc'[d] = "store" => pc[d] = "store"
  BY <1>1, <1>3 DEF IInv, TypeOK, Pushing
<1> QED BY <1>1, <1>4, DataSame DEF DataOK

\* The copy leaves what waits alone, and is all there.
LEMMA CopyWrites ==
  ASSUME IInv, DataOK, NEW c \in Callers, PushCopy(c)
  PROVE  /\ Contents' = Contents
         /\ \A k \in 0..(n[c] - 1) : buf'[Place(head, k)] = <<c, k % frame>>
<1>1. /\ head \in Index /\ tail \in Index /\ n[c] \in Nat /\ n[c] <= Size - Span(head, tail)
      /\ Span(head, tail) <= Size /\ DOMAIN buf = 0..(Size - 1) /\ at[c] = head
  BY DEF PushCopy, Goes, IInv, TypeOK, NoOverrun, Room
<1>2. \A i \in 0..(Size - 1) :
        buf'[i] = IF \E j \in 0..(n[c] - 1) : i = Place(head, j)
                  THEN <<c, ((i - head) % Size) % frame>> ELSE buf[i]
  BY <1>1 DEF PushCopy
<1>3. head' = head /\ tail' = tail
  BY DEF PushCopy
<1>4. PICK h \in Index, t \in Index, k \in Nat, m \in Nat,
           b \in {buf}, f \in {frame}, b2 \in {buf'} :
        h = head /\ t = tail /\ k = n[c] /\ m = Span(h, t)
  BY <1>1, SpanRange
<1>5. /\ k <= Size - m /\ m <= Size /\ m = Span(h, t)
      /\ \A i \in 0..(Size - 1) :
           b2[i] = IF \E j \in 0..(k - 1) : i = Place(h, j)
                   THEN <<c, ((i - h) % Size) % f>> ELSE b[i]
  BY <1>1, <1>2, <1>4
<1>6. ASSUME NEW j \in 0..(k - 1)
      PROVE  /\ Place(h, j) = Place(t, m + j) /\ j \in 0..(Size - 1) /\ m + j \in 0..(Size - 1)
             /\ Place(h, j) \in 0..(Size - 1)
  <2>1. j \in Nat /\ m + j < Size /\ j \in 0..(Size - 1) /\ m + j \in 0..(Size - 1)
    BY <1>5, SizeAssumption
  <2>2. Place(h, j) = Place(t, m + j)
    BY <1>5, <2>1, PlaceBehind
  <2>3. Place(h, j) \in 0..(Size - 1)
    BY <2>1, PlaceIs, SizeAssumption
  <2> QED BY <2>1, <2>2, <2>3
<1>7. ASSUME NEW i \in 1..m
      PROVE  b2[Place(t, i - 1)] = b[Place(t, i - 1)]
  <2>1. i - 1 \in 0..(Size - 1) /\ i - 1 < m
    BY <1>5, SizeAssumption
  <2>2. Place(t, i - 1) \in 0..(Size - 1)
    BY <2>1, PlaceIs, SizeAssumption
  <2>3. ASSUME NEW j \in 0..(k - 1), Place(t, i - 1) = Place(h, j) PROVE FALSE
    <3>0. m + j \in 0..(Size - 1) /\ j \in 0..(Size - 1)
      BY <1>6, Zenon
    <3>1. m + j # i - 1 /\ m + j \in 0..(Size - 1)
      BY <1>5, <2>1, <3>0
    <3>2. Place(t, m + j) # Place(t, i - 1)
      BY <2>1, <3>1, PlacesApart
    <3> QED BY <1>6, <2>3, <3>2
  <2> QED BY <1>5, <2>2, <2>3
<1>8. ASSUME NEW j \in 0..(k - 1) PROVE b2[Place(h, j)] = <<c, j % f>>
  <2>1. (Place(h, j) - h) % Size = j
    BY <1>6, PlaceBack
  <2> QED BY <1>5, <1>6, <2>1
<1>9. Bytes(h, t, b2) = Bytes(h, t, b) /\ \A j \in 0..(k - 1) : b2[Place(h, j)] = <<c, j % f>>
  BY <1>5, <1>7, <1>8 DEF Bytes
<1> QED BY <1>3, <1>4, <1>9 DEF Contents, Bytes

\* What the copy wrote is what the store will publish.
LEMMA PushCopyData ==
  ASSUME IInv, DataOK, NEW c \in Callers, PushCopy(c)
  PROVE  DataOK'
<1>1. /\ UNCHANGED <<taking, frame, Room, head, n>>
      /\ pc[c] = "copy" /\ pc' = [pc EXCEPT ![c] = "store"]
  BY DEF PushCopy, Goes, gate, Room
<1>2. \A d \in Callers : d # c => pc[d] \notin Pushing
  BY <1>1 DEF IInv, LockState, OneProducer, Locked, Pushing
<1>3. Settled'
  BY <1>1, <1>2 DEF DataOK, Settled, IInv, Pushing
<1>4. Copied'
  BY <1>1, <1>2, CopyWrites DEF Copied, IInv, Pushing
<1> QED BY <1>1, <1>3, <1>4 DEF DataOK

\* After the store nobody is in the push: the pusher was the only one.
LEMMA PushStoreData ==
  ASSUME IInv, DataOK, NEW c \in Callers, PushStore(c)
  PROVE  DataOK'
<1>1. \A d \in Callers : pc'[d] \notin Pushing
  BY DEF PushStore, Goes, IInv, TypeOK, LockState, OneProducer, Locked, Pushing
<1>2. taking' % frame' = 0
  BY DEF PushStore, gate, DataOK
<1> QED BY <1>1, <1>2, DataFresh

\* At first there is no data and no push.
LEMMA InitData == Init => DataOK
<1>1. Init => taking % frame = 0
  BY DEF Init
<1> QED BY <1>1 DEF Init, DataOK, Settled, Copied, Pushing

\* Every step keeps what the data is known to be.
LEMMA NextData == IInv /\ DataOK /\ [Next]_vars => DataOK'
<1> SUFFICES ASSUME IInv, DataOK, [Next]_vars PROVE DataOK'
  OBVIOUS
<1>1. CASE QuietStep
  BY <1>1, QuietData
<1>2. CASE OpenBegin \/ FreeRing \/ TakeStore
  BY <1>2, OpenBeginData, FreeRingData, TakeStoreData
<1>3. ASSUME NEW c \in Callers, ReadRoom(c) \/ PushLoad(c) \/ PushCopy(c) \/ PushStore(c)
      PROVE  DataOK'
  BY <1>3, ReadRoomData, PushLoadData, PushCopyData, PushStoreData
<1>4. CASE UNCHANGED vars
  BY <1>4 DEF DataOK, Settled, Copied, Room, vars, gate, ring, calls
<1> QED BY <1>1, <1>2, <1>3, <1>4 DEF Next, Step, QuietStep

----------------------------------------------------------------------------
(* The contract: a step of the gate or the ring is one of SinkContract or  *)
(* none.                                                                   *)

Queued == IF held THEN Contents ELSE <<>>
Bar == <<live, Past, Inside, held, frame, Queued>>
SinkStep == Contract!Next \/ UNCHANGED Bar
Unseen ==
  UNCHANGED <<live, Past, held, frame, Contents>> /\ \A c \in Callers : Inside'[c] = Inside[c]

\* Most steps change nothing that the contract sees.
LEMMA SameSink ==
  ASSUME Unseen
  PROVE  SinkStep
<1>1. Inside' = Inside
  BY DEF Unseen, Inside
<1> QED BY <1>1 DEF Unseen, SinkStep, Bar, Queued

\* The steps inside a call, and the interpreter's between calls.
UnseenStep ==
  \/ CloseReturn \/ TakeLoad \/ CallInterp \/ Current \/ AddInterp
  \/ \E t \in Tasks : CSink(t) \/ CallSink(t)
  \/ \E c \in Callers : \/ Refuse(c) \/ RefusedLeave(c) \/ TryLock(c) \/ LoseLock(c) \/ SpaceRead(c)
                         \/ ReadRoom(c) \/ PushLoad(c) \/ Unlock(c)

\* The steps that change nothing the contract sees.
LEMMA UnseenSteps == ASSUME IInv, UnseenStep PROVE SinkStep
<1> SUFFICES Unseen
  BY SameSink
<1>1. CASE CloseReturn
  BY <1>1 DEF CloseReturn, Unseen, Past, Contents, Inside, IInv, gate, ring, calls
<1>2. CASE TakeLoad
  BY <1>2 DEF TakeLoad, Unseen, Past, Contents, Inside, IInv, gate, ring, calls
<1>3. ASSUME NEW t \in Tasks, CSink(t) PROVE Unseen
  BY <1>3 DEF CSink, Unseen, Past, Contents, Inside, IInv, gate, ring
<1>4. ASSUME NEW t \in Tasks, CallSink(t) PROVE Unseen
  BY <1>4 DEF CallSink, Unseen, Past, Contents, Inside, InRing, IInv, Goes, ring
<1>5. CASE CallInterp
  BY <1>5 DEF CallInterp, Unseen, Past, Contents, Inside, InRing, IInv, Goes, gate, ring
<1>6. CASE Current
  BY <1>6 DEF Current, Unseen, Past, Contents, Inside, InRing, IInv, Goes, gate, ring
<1>7. CASE AddInterp
  BY <1>7 DEF AddInterp, Unseen, Past, Contents, Inside, InRing, IInv, Goes, ring
<1>8. ASSUME NEW c \in Callers, Refuse(c) PROVE Unseen
  BY <1>8 DEF Refuse, Unseen, Past, Contents, Inside, InRing, IInv, Goes, gate, ring
<1>9. ASSUME NEW c \in Callers, RefusedLeave(c) PROVE Unseen
  BY <1>9 DEF RefusedLeave, Unseen, Past, Contents, Inside, InRing, IInv, Goes, ring, Forget
<1>10. ASSUME NEW c \in Callers, TryLock(c) PROVE Unseen
  BY <1>10 DEF TryLock, Unseen, Past, Contents, Inside, InRing, IInv, Goes, ring
<1>11. ASSUME NEW c \in Callers, LoseLock(c) PROVE Unseen
  BY <1>11 DEF LoseLock, Unseen, Past, Contents, Inside, InRing, IInv, Goes, gate, ring
<1>12. ASSUME NEW c \in Callers, SpaceRead(c) PROVE Unseen
  BY <1>12 DEF SpaceRead, Unseen, Past, Contents, Inside, InRing, IInv, Goes, gate, ring
<1>13. ASSUME NEW c \in Callers, ReadRoom(c) PROVE Unseen
  BY <1>13 DEF ReadRoom, Unseen, Past, Contents, Inside, InRing, IInv, gate, ring
<1>14. ASSUME NEW c \in Callers, PushLoad(c) PROVE Unseen
  BY <1>14 DEF PushLoad, Unseen, Past, Contents, Inside, InRing, IInv, gate, ring
<1>15. ASSUME NEW c \in Callers, Unlock(c) PROVE Unseen
  BY <1>15 DEF Unlock, Unseen, Past, Contents, Inside, InRing, IInv, Goes, ring
<1> QED BY <1>1, <1>2, <1>3, <1>4, <1>5, <1>6, <1>7, <1>8, <1>9, <1>10, <1>11, <1>12, <1>13,
           <1>14, <1>15 DEF UnseenStep

\* The copy is behind the head, where the contract's queue does not reach.
LEMMA PushCopySink ==
  ASSUME IInv, DataOK, NEW c \in Callers, PushCopy(c)
  PROVE  SinkStep
<1>1. UNCHANGED <<live, Past, held, frame>> /\ Contents' = Contents
  BY CopyWrites DEF PushCopy, Past, gate
<1>2. \A d \in Callers : Inside'[d] = Inside[d]
  BY DEF PushCopy, Inside, InRing, IInv, Goes
<1> QED BY <1>1, <1>2, SameSink DEF Unseen

\* An open begins: an empty ring, not yet entered.
LEMMA OpenBeginSink ==
  ASSUME IInv, OpenBegin
  PROVE  SinkStep
<1>1. live = 0 /\ live' = live /\ Past' = Past
  BY DEF OpenBegin, Past, IInv, GateState, TypeOK
<1>2. Inside' = Inside /\ \A c \in Callers : Inside[c] = 0
  BY DEF OpenBegin, Inside, IInv, GateState, calls
<1>3. held' /\ frame' \in 1..Size
  BY FramesAssumption DEF OpenBegin
<1>4. Queued' = <<>>
  <2>1. Span(0, 0) = 0
    BY DEF Span
  <2>2. head' = 0 /\ tail' = 0
    BY DEF OpenBegin, FreshRing
  <2>3. Span(head, tail)' = 0
    BY <2>1, <2>2
  <2> QED BY <1>3, <2>3 DEF Queued, Contents
<1> QED BY <1>1, <1>2, <1>3, <1>4 DEF SinkStep, Contract!Next, Contract!Hold, Queued

\* usbif_pcm_sink_open stores the generation: the contract's Open.
LEMMA OpenPublishSink ==
  ASSUME IInv, OpenPublish
  PROVE  SinkStep
<1>1. live = 0 /\ held /\ live' = lastGen /\ lastGen \in Nat \ {0}
  BY DEF OpenPublish, IInv, GateState, TypeOK
<1>2. Past = 1..(lastGen - 1) /\ Past' = 1..lastGen
  BY DEF OpenPublish, Past
<1>3. lastGen \notin Past /\ Past' = Past \cup {lastGen}
  BY <1>1, <1>2
<1>4. UNCHANGED <<Inside, held, frame, Queued>>
  BY DEF OpenPublish, Inside, Queued, Contents, ring, calls
<1> QED BY <1>1, <1>3, <1>4 DEF SinkStep, Contract!Next, Contract!Open, Queued

\* usbif_pcm_sink_close first stores 0: the gate closes.
LEMMA CloseStoreSink ==
  ASSUME IInv, NEW who, CloseStore(who)
  PROVE  SinkStep
<1>1. live' = 0 /\ UNCHANGED <<Past, Inside, held, frame, Queued>>
  BY DEF CloseStore, Past, Inside, Queued, Contents, ring, calls
<1> QED BY <1>1 DEF SinkStep, Contract!Next, Contract!CloseGate, Queued

\* usbif_pcm_sink_close has waited for the users: nobody is inside.
LEMMA FreeRingSink ==
  ASSUME IInv, FreeRing
  PROVE  SinkStep
<1>1. live = 0 /\ held /\ ~held'
  BY DEF FreeRing, IInv, GateState
<1>2. Inside' = Inside /\ \A c \in Callers : Inside[c] = 0
  BY DEF FreeRing, Inside, IInv, GateState, calls
<1>3. UNCHANGED <<live, Past, frame>> /\ Queued' = <<>>
  BY <1>1 DEF FreeRing, Past, Queued, gate
<1> QED BY <1>1, <1>2, <1>3 DEF SinkStep, Contract!Next, Contract!Free

\* The store of the tail takes the oldest bytes.
LEMMA TakeStoreSink ==
  ASSUME IInv, DataOK, TakeStore
  PROVE  SinkStep
<1>1. /\ head \in Index /\ tail \in Index /\ Span(head, tail) <= Size /\ held
      /\ taking \in Nat /\ taking > 0 /\ taking <= Span(head, tail) /\ taking % frame = 0
      /\ Span(head, tail) \in Nat
  BY SpanRange DEF TakeStore, IInv, TypeOK, NoOverrun, GateState, DataOK
<1>2. Queued = Bytes(head, tail, buf) /\ Queued' = Bytes(head, Advance(tail, taking), buf)
  BY <1>1 DEF TakeStore, Queued, Contents, Bytes
<1>3. Len(Queued) = Span(head, tail)
  BY <1>1, <1>2, BytesSeq
<1>4. Queued' = SubSeq(Queued, taking + 1, Len(Queued))
  BY <1>1, <1>2, <1>3, TailDrops
<1>5. taking \in 1..Len(Queued)
  BY <1>1, <1>3
<1>6. UNCHANGED <<live, Past, Inside, held, frame>>
  BY DEF TakeStore, Past, Inside, gate, calls
<1> QED BY <1>1, <1>4, <1>5, <1>6 DEF SinkStep, Contract!Next, Contract!Take, Queued

\* A caller that passed the gate is inside under the generation that is live.
LEMMA EnterSink ==
  ASSUME IInv, NEW c \in Callers, Enter(c)
  PROVE  SinkStep
<1>1. Inside[c] = 0 /\ live # 0
  BY DEF Enter, Goes, Inside, InRing
<1>2. Inside' = [Inside EXCEPT ![c] = live]
  BY DEF Enter, Goes, Inside, InRing, IInv, TypeOK
<1>3. UNCHANGED <<live, Past, held, frame, Queued>>
  BY DEF Enter, Past, Queued, Contents, gate, ring
<1> QED BY <1>1, <1>2, <1>3 DEF SinkStep, Contract!Next, Contract!Enter, Queued

\* A caller's decrement of the users is the contract's Leave.
LEMMA LeaveSink ==
  ASSUME IInv, NEW c \in Callers, Leave(c)
  PROVE  SinkStep
<1>1. Inside[c] # 0
  BY DEF Leave, Goes, Inside, InRing, IInv, GateState
<1>2. Inside' = [Inside EXCEPT ![c] = 0]
  BY DEF Leave, Goes, Inside, InRing, IInv, TypeOK, Forget
<1>3. UNCHANGED <<live, Past, held, frame, Queued>>
  BY DEF Leave, Past, Queued, Contents, ring
<1> QED BY <1>1, <1>2, <1>3 DEF SinkStep, Contract!Next, Contract!Leave, Queued

\* The store of the head writes whole frames of one call to the end of the queue.
LEMMA PushStoreSink ==
  ASSUME IInv, DataOK, NEW c \in Callers, PushStore(c)
  PROVE  SinkStep
<1>1. /\ head \in Index /\ tail \in Index /\ Span(head, tail) <= Size /\ pc[c] = "store"
      /\ at[c] = head /\ n[c] \in Nat /\ n[c] <= Size - Span(head, tail)
      /\ held /\ lastGen # 0 /\ gen[c] = lastGen
      /\ n[c] > 0 /\ n[c] % frame = 0 /\ Span(head, tail) \in Nat
  BY SpanRange DEF PushStore, Goes, IInv, TypeOK, NoOverrun, GateState, InRing, DataOK,
     Settled, Pushing, Room
<1>2. Queued = Bytes(head, tail, buf) /\ Queued' = Bytes(Advance(head, n[c]), tail, buf)
  BY <1>1 DEF PushStore, Queued, Contents, Bytes
<1>3. Len(Queued) = Span(head, tail)
  BY <1>1, <1>2, BytesSeq
<1>4. \A i \in 1..n[c] : buf[Place(head, i - 1)] = <<c, (i - 1) % frame>>
  <2> TAKE i \in 1..n[c]
  <2>1. i - 1 \in 0..(n[c] - 1)
    BY <1>1
  <2> QED BY <1>1, <2>1 DEF DataOK, Copied
<1>5. [i \in 1..n[c] |-> buf[Place(head, i - 1)]] = Contract!WholeFramesOf(c, n[c])
  BY <1>4 DEF Contract!WholeFramesOf
<1>6. Queued' = Queued \o Contract!WholeFramesOf(c, n[c])
  <2>1. PICK h \in Index, t \in Index, k \in Nat, b \in {buf} :
          h = head /\ t = tail /\ k = n[c]
    BY <1>1
  <2>2. k <= Size - Span(h, t) /\ Span(h, t) <= Size
    BY <1>1, <2>1
  <2>3. Bytes(Advance(h, k), t, b) = Bytes(h, t, b) \o [i \in 1..k |-> b[Place(h, i - 1)]]
    BY <2>2, HeadAppends, Zenon
  <2> QED BY <1>2, <1>5, <2>1, <2>3, Zenon
<1>7. n[c] \in 1..Size /\ Len(Queued) + n[c] <= Size
  BY <1>1, <1>3, SizeAssumption
<1>8. Inside[c] # 0
  BY <1>1 DEF Inside, InRing
<1>9. UNCHANGED <<live, Past, Inside, held, frame>>
  <2>1. Inside' = Inside
    BY DEF PushStore, Goes, Inside, InRing, IInv
  <2> QED BY <2>1 DEF PushStore, Past, gate
<1> QED BY <1>1, <1>6, <1>7, <1>8, <1>9 DEF SinkStep, Contract!Next, Contract!Write, Queued

\* Every step of the gate and the ring is the contract's, or one it does not see.
LEMMA NextSink == IInv /\ DataOK /\ [Next]_vars => SinkStep
<1> SUFFICES ASSUME IInv, DataOK, [Next]_vars PROVE SinkStep
  OBVIOUS
<1>1. CASE UnseenStep
  BY <1>1, UnseenSteps
<1>2. CASE OpenBegin \/ OpenPublish \/ FreeRing \/ TakeStore
  BY <1>2, OpenBeginSink, OpenPublishSink, FreeRingSink, TakeStoreSink
<1>3. ASSUME NEW who, CloseStore(who) PROVE SinkStep
  BY <1>3, CloseStoreSink
<1>4. ASSUME NEW c \in Callers, Enter(c) \/ PushCopy(c) \/ PushStore(c) \/ Leave(c)
      PROVE  SinkStep
  BY <1>4, EnterSink, PushCopySink, PushStoreSink, LeaveSink
<1>5. CASE UNCHANGED vars
  BY <1>5, SameSink DEF Unseen, Past, Inside, Contents, vars, gate, ring, calls
<1> QED BY <1>1, <1>2, <1>3, <1>4, <1>5 DEF Next, Step, UnseenStep

\* For any tasks, ring size, frames and lengths: whatever the interleaving, the gate and
\* the ring are SinkContract's queue of whole frames behind a gate, which a caller is
\* inside only under the open stream's generation and which is freed with nobody inside.
THEOREM ImplementsSink == Spec => KeepsContract
<1>1. Init => Contract!Init
  <2> SUFFICES ASSUME Init PROVE Contract!Init
    OBVIOUS
  <2>1. Past = {}
    BY DEF Init, Past
  <2>2. Inside = [c \in Callers |-> 0]
    BY DEF Init, Inside, InRing
  <2> QED BY <2>1, <2>2 DEF Init, Contract!Init
<1>2. SinkStep => [Contract!Next]_(Contract!vars)
  BY DEF SinkStep, Bar, Queued, Contract!vars
<1> QED BY InitIInv, NextIInv, InitData, NextData, NextSink, <1>1, <1>2, PTL
        DEF Spec, KeepsContract, Contract!Spec
============================================================================
