--------------------------- MODULE HostStreamProofs ---------------------------
(***************************************************************************)
(* Proofs about HostStream, for any devices, interfaces, slots and         *)
(* transfers.                                                              *)
(*                                                                         *)
(* A stop frees on the counter `inflight' alone, so the counter has to be  *)
(* exact while stops of the same stream are nested in each other's waits.  *)
(* What carries the proof is the discipline of the calls under the lock    *)
(* (FramesOK): loops and stops alternate on the stack, only DEV_GONE's     *)
(* loops are ever nested, each for a device of its own that is closing,    *)
(* what a loop has passed no longer streams, and a stop's stream never     *)
(* submits again.                                                          *)
(***************************************************************************)
EXTENDS HostStream, FiniteSetTheorems, SequenceTheorems, TLAPS

----------------------------------------------------------------------------
(* The inductive invariant.                                                *)

SlotType == [used : BOOLEAN, open : BOOLEAN, gone : BOOLEAN, pipe : Pipes \cup {None},
             inflight : 0..NumXfer, errors : BOOLEAN]
XferStates == {"free", "caller", "queued", "done"}
LoopFrames ==
  [op : Loops, pipe : Pipes \cup (Devs \X {None}) \cup {None}, next : 1..(MaxSlots + 1)]
StopFrames == [op : {"stop"}, slot : Slots, at : {"retire", "halt", "again"}]
Frames == LoopFrames \cup StopFrames
Depth == 1..Len(stack)
Held(s) == {x \in Of(s) : InLibrary(x)}

\* Every variable has its type, the calls on the stack included.
Typed ==
  /\ hub \in [Devs -> {"absent", "open", "leaving", "closing"}]
  /\ streams \in [Slots -> SlotType] /\ xfer \in [Xfers -> XferStates]
  /\ rooted \subseteq Slots
  /\ vm \in [at : {"idle", "call", "roots", "down"}] \cup [at : {"opened"}, slot : Slots]
  /\ stack \in Seq(Frames)
  /\ prompt \in BOOLEAN /\ wedged \in BOOLEAN

\* What a slot says of its transfers: the counter is exact, a slot that is not
\* in use holds none, one that lost a transfer counts an error, and a stream of
\* a device that is gone has none on the bus.
SlotOK(s) ==
  /\ streams[s].inflight = Cardinality(Held(s))
  /\ streams[s].used => streams[s].pipe \in Pipes
  /\ ~streams[s].used => streams[s] = Unused /\ \A x \in Of(s) : xfer[x] = "free"
  /\ streams[s].used /\ streams[s].open /\ ~streams[s].errors => \A x \in Of(s) : xfer[x] # "caller"
  /\ streams[s].gone => ~streams[s].open /\ \A x \in Of(s) : xfer[x] # "queued"

\* The streams a loop is for.
For(loop, s) ==
  /\ loop.op = "gone" => Dev(s) = loop.pipe[1]
  /\ loop.op \in {"release", "close"} => streams[s].pipe = loop.pipe

\* A loop on the stack: a nested one is DEV_GONE's, for a device that is
\* closing; what it has passed no longer streams.
LoopOK(i) ==
  /\ stack[i].op = "gone" =>
       stack[i].pipe \in Devs \X {None} /\ hub[stack[i].pipe[1]] = "closing"
  /\ stack[i].op # "gone" => i = 1
  /\ stack[i].op \in {"release", "close", "stopall"} => vm.at = "call"
  /\ stack[i].op = "down" => vm.at = "down"
  /\ \A s \in UsedSlots : s < stack[i].next /\ For(stack[i], s) => ~streams[s].open

\* A stop on the stack, right above the loop that began it.  Its stream no
\* longer submits; halted, nothing of it is on the bus.
StopOK(i) ==
  LET s == stack[i].slot IN
  /\ i > 1 /\ stack[i - 1].op \in Loops /\ stack[i - 1].next = s + 1
  /\ streams[s].used /\ stack[i - 1].op = "gone" => Dev(s) = stack[i - 1].pipe[1]
  /\ ~streams[s].open
  /\ stack[i].at = "halt" => \A x \in Of(s) : xfer[x] # "queued"
  /\ stack[i].at = "again" /\ streams[s].used => streams[s].gone

FrameOK(i) ==
  /\ stack[i].op \in Loops => LoopOK(i)
  /\ stack[i].op = "stop" => StopOK(i)

\* The loops of DEV_GONE are each for another device.
GoneApart ==
  \A i, j \in Depth :
    stack[i].op = "gone" /\ stack[j].op = "gone" /\ stack[i].pipe[1] = stack[j].pipe[1] => i = j
FramesOK == GoneApart /\ \A i \in Depth : FrameOK(i)

\* What is on the bus is of a device that is there; so is a stream that was not
\* told otherwise, unless DEV_GONE's loop has yet to come to it.
QueuedAttached ==
  ~wedged => \A x \in Xfers : xfer[x] = "queued" => hub[Dev(x[1])] = "open"
GoneComes(s) ==
  \E j \in Depth : stack[j].op = "gone" /\ stack[j].pipe[1] = Dev(s) /\ stack[j].next <= s
Attached ==
  ~wedged => \A s \in UsedSlots :
    streams[s].gone \/ hub[Dev(s)] \in {"open", "leaving"} \/ GoneComes(s)
WedgedDown == wedged => \A d \in Devs : hub[d] = "absent"
HubOK == GoneClosesStreams /\ QueuedAttached /\ Attached /\ WedgedDown

\* The rings have their roots, or get them before Python code runs.
RootsOK ==
  \A s \in UsedSlots : streams[s].open => s \in rooted \/ (vm.at = "opened" /\ s = vm.slot)

\* With a prompt library the slots in use stream, or are being stopped.
PromptOK ==
  prompt => /\ ~wedged
            /\ \A s \in UsedSlots :
                 streams[s].open \/ \E i \in Depth : stack[i].op = "stop" /\ stack[i].slot = s

SlotsOK == \A s \in Slots : SlotOK(s)
IInv == Typed /\ SlotsOK /\ FramesOK /\ HubOK /\ RootsOK /\ PromptOK

----------------------------------------------------------------------------
(* The stack.                                                              *)

\* A frame is a loop or a stop, told apart by its operation.
LEMMA FrameKinds ==
  ASSUME NEW f \in Frames
  PROVE  /\ f.op = "stop" \/ f.op \in Loops
         /\ f.op = "stop" => f \in StopFrames
         /\ f.op \in Loops => f \in LoopFrames /\ f.op # "stop"
BY DEF Frames, LoopFrames, StopFrames, Loops

\* What is below the top.
LEMMA PopStack ==
  ASSUME stack \in Seq(Frames), Busy
  PROVE  /\ Len(stack) \in Nat \ {0} /\ Len(stack) \in Depth /\ Top \in Frames
         /\ Below \in Seq(Frames) /\ Len(Below) = Len(stack) - 1
         /\ \A i \in 1..(Len(stack) - 1) : Below[i] = stack[i]
<1>1. Len(stack) \in Nat \ {0}
  BY EmptySeq DEF Busy
<1>2. \A i \in Depth : stack[i] \in Frames
  BY ElementOfSeq DEF Depth
<1>3. /\ SubSeq(stack, 1, Len(stack) - 1) \in Seq(Frames)
      /\ Len(SubSeq(stack, 1, Len(stack) - 1)) = Len(stack) - 1
      /\ \A i \in 1..(Len(stack) - 1) : SubSeq(stack, 1, Len(stack) - 1)[i] = stack[i]
  <2> DEFINE n == Len(stack) - 1
  <2>1. n \in Nat /\ \A i \in 1..n : stack[i] \in Frames
    BY <1>1, <1>2 DEF Depth
  <2>2. /\ SubSeq(stack, 1, n) \in Seq(Frames)
        /\ Len(SubSeq(stack, 1, n)) = IF 1 <= n THEN n - 1 + 1 ELSE 0
        /\ \A i \in 1..(n - 1 + 1) : SubSeq(stack, 1, n)[i] = stack[1 + i - 1]
    BY <2>1, SubSeqProperties
  <2> HIDE DEF n
  <2>3. n - 1 + 1 = n /\ \A i \in 1..n : 1 + i - 1 = i
    BY <2>1
  <2>4. /\ SubSeq(stack, 1, n) \in Seq(Frames)
        /\ Len(SubSeq(stack, 1, n)) = n
        /\ \A i \in 1..n : SubSeq(stack, 1, n)[i] = stack[i]
    BY <2>1, <2>2, <2>3
  <2> QED BY <2>4 DEF n
<1> QED BY <1>1, <1>2, <1>3 DEF Top, Below, Depth

\* A frame on the top of the stack, or in the place of the top.
LEMMA PushStack ==
  ASSUME NEW t \in Seq(Frames), NEW f \in Frames
  PROVE  /\ Append(t, f) \in Seq(Frames) /\ Len(Append(t, f)) = Len(t) + 1
         /\ Len(t) \in Nat
         /\ \A i \in 1..Len(t) : Append(t, f)[i] = t[i]
         /\ Append(t, f)[Len(t) + 1] = f
BY AppendProperties, LenProperties

\* A call that goes on replaces the top of the stack and leaves what is below.
LEMMA ReplaceTop ==
  ASSUME stack \in Seq(Frames), Busy, NEW f \in Frames
  PROVE  LET t == Append(Below, f)
         IN  /\ t \in Seq(Frames) /\ Len(t) = Len(stack) /\ t[Len(stack)] = f
             /\ \A i \in 1..(Len(stack) - 1) : t[i] = stack[i]
BY PopStack, PushStack

----------------------------------------------------------------------------
(* The slots.                                                              *)

\* A stream's transfers are finitely many, NumXfer at most.
LEMMA HeldFinite ==
  ASSUME NEW s \in Slots
  PROVE  /\ IsFiniteSet(Of(s)) /\ IsFiniteSet(Held(s))
         /\ Cardinality(Held(s)) \in 0..NumXfer /\ (Held(s) = {} <=> Cardinality(Held(s)) = 0)
<1> DEFINE f == [k \in 1..NumXfer |-> <<s, k>>]
<1>1. f \in Surjection(1..NumXfer, Of(s))
  BY DEF Surjection, Of, Xfers
<1>2. IsFiniteSet(1..NumXfer) /\ Cardinality(1..NumXfer) = NumXfer
  BY FS_Interval, SizesAssumption
<1>3. IsFiniteSet(Of(s)) /\ Cardinality(Of(s)) <= NumXfer
  BY <1>1, <1>2, FS_Surjection
<1>4. Held(s) \in SUBSET Of(s)
  BY DEF Held
<1>5. IsFiniteSet(Held(s)) /\ Cardinality(Held(s)) <= Cardinality(Of(s))
  BY <1>3, <1>4, FS_Subset
<1>6. Cardinality(Held(s)) \in Nat /\ Cardinality(Of(s)) \in Nat
  BY <1>3, <1>5, FS_CardinalityType
<1>7. Cardinality(Held(s)) = 0 <=> Held(s) = {}
  BY <1>5, FS_EmptySet
<1> QED BY <1>3, <1>5, <1>6, <1>7, SizesAssumption

\* A transfer belongs to one slot.
LEMMA OfSlot ==
  ASSUME NEW x \in Xfers
  PROVE  x[1] \in Slots /\ x \in Of(x[1]) /\ \A s \in Slots : x \in Of(s) => s = x[1]
BY DEF Xfers, Of

\* A slot that did not change.
LEMMA SlotSame ==
  ASSUME NEW s \in Slots, SlotOK(s), streams'[s] = streams[s], \A x \in Of(s) : xfer'[x] = xfer[x]
  PROVE  SlotOK(s)'
<1>1. Held(s)' = Held(s)
  BY DEF Held, InLibrary, Of, Xfers
<1> QED BY <1>1 DEF SlotOK, Of, Xfers

\* A slot that was freed.
LEMMA SlotFreed ==
  ASSUME NEW s \in Slots, streams'[s] = Unused, \A x \in Of(s) : xfer'[x] = "free"
  PROVE  SlotOK(s)'
<1>1. Held(s)' = {}
  BY DEF Held, InLibrary, Of, Xfers
<1>2. Cardinality(Held(s)') = 0
  BY <1>1, FS_EmptySet
<1> QED BY <1>1, <1>2 DEF SlotOK, Unused, Of, Xfers

\* What was on the bus came back: the slot still holds it.
LEMMA SlotDone ==
  ASSUME NEW s \in Slots, SlotOK(s), streams'[s] = streams[s],
         \A x \in Of(s) : xfer'[x] = xfer[x] \/ (xfer[x] = "queued" /\ xfer'[x] = "done")
  PROVE  SlotOK(s)'
<1>1. Held(s)' = Held(s)
  BY DEF Held, InLibrary, Of, Xfers
<1>2. \A x \in Of(s) : xfer'[x] = "queued" => xfer[x] = "queued"
  BY DEF Of, Xfers
<1>3. \A x \in Of(s) : xfer'[x] = "caller" => xfer[x] = "caller"
  BY DEF Of, Xfers
<1>4. \A x \in Of(s) : xfer[x] = "free" => xfer'[x] = "free"
  BY DEF Of, Xfers
<1> QED BY <1>1, <1>2, <1>3, <1>4 DEF SlotOK, Of, Xfers

\* A stream told to stop, for good if its device is gone.
LEMMA SlotStopped ==
  ASSUME NEW s \in Slots, SlotOK(s), streams[s] \in SlotType, streams[s].used,
         NEW gone \in BOOLEAN, gone => \A x \in Of(s) : xfer[x] # "queued",
         streams'[s] = [streams[s] EXCEPT !.open = FALSE, !.gone = @ \/ gone],
         \A x \in Of(s) : xfer'[x] = xfer[x]
  PROVE  SlotOK(s)'
<1>1. Held(s)' = Held(s)
  BY DEF Held, InLibrary, Of, Xfers
<1> DEFINE g == streams[s].gone \/ gone
<1>2. /\ streams'[s].inflight = streams[s].inflight /\ streams'[s].used = streams[s].used
      /\ streams'[s].pipe = streams[s].pipe /\ ~streams'[s].open
      /\ streams'[s].errors = streams[s].errors /\ streams'[s].gone = g
  BY DEF SlotType
<1>3. g => \A x \in Of(s) : xfer'[x] # "queued"
  BY DEF SlotOK
<1> HIDE DEF g
<1> QED BY <1>1, <1>2, <1>3 DEF SlotOK, Of, Xfers

\* A transfer retires: the slot holds one less.
LEMMA SlotRetires ==
  ASSUME NEW x \in Xfers, xfer \in [Xfers -> XferStates], NEW s, s = x[1], SlotOK(s),
         streams[s] \in SlotType, xfer[x] = "done", xfer' = [xfer EXCEPT ![x] = "caller"],
         streams'[s].inflight = streams[s].inflight - 1,
         streams'[s].used = streams[s].used, streams'[s].pipe = streams[s].pipe,
         streams'[s].open = streams[s].open, streams'[s].gone = streams[s].gone,
         streams[s].open => streams'[s].errors
  PROVE  SlotOK(s)' /\ streams[s].inflight - 1 \in 0..NumXfer /\ streams[s].used
<1>1. s \in Slots /\ x \in Of(s)
  BY OfSlot
<1>2. Held(s)' = Held(s) \ {x} /\ x \in Held(s)
  BY <1>1 DEF Held, InLibrary, Of, Xfers
<1>3. /\ Cardinality(Held(s)') = Cardinality(Held(s)) - 1
      /\ Cardinality(Held(s)) \in 0..NumXfer /\ Cardinality(Held(s)) # 0
  BY <1>1, <1>2, HeldFinite, FS_RemoveElement
<1>4. streams[s].used
  BY <1>1 DEF SlotOK
<1>5. \A y \in Of(s) : xfer'[y] = "queued" => xfer[y] = "queued"
  BY DEF Of
<1> QED BY <1>1, <1>3, <1>4, <1>5, SizesAssumption DEF SlotOK, Of, Xfers

\* The end of a stop frees the slot, or leaves it as it is, told to stop.
LEMMA FinishCases ==
  ASSUME NEW s \in Slots, NEW st, NEW rest, Finish(s, st, rest), Typed
  PROVE  /\ stack' = rest
         /\ \A t \in Slots : t # s =>
              streams'[t] = streams[t] /\ \A x \in Of(t) : xfer'[x] = xfer[x]
         /\ \/ /\ st.inflight = 0 /\ streams'[s] = Unused
               /\ \A x \in Of(s) : xfer'[x] = "free"
            \/ /\ st.inflight # 0 /\ streams'[s] = st
               /\ \A x \in Of(s) : xfer'[x] = xfer[x]
         /\ streams' = [streams EXCEPT ![s] = streams'[s]]
         /\ xfer' \in [Xfers -> XferStates]
<1>1. \A t \in Slots : \A x \in Of(t) : x \in Xfers /\ x[1] = t
  BY DEF Of
<1>2. CASE st.inflight = 0
  BY <1>1, <1>2 DEF Finish, Typed, XferStates
<1>3. CASE st.inflight # 0
  BY <1>1, <1>3 DEF Finish, Typed
<1> QED BY <1>2, <1>3

----------------------------------------------------------------------------
(* What no step but the opening of a stream does: a stream that is there   *)
(* keeps its pipe, or its slot is freed; it never opens again, and a       *)
(* stopped one puts nothing on the bus.                                    *)

SlotQuiet(s) ==
  \/ streams'[s] = Unused
  \/ /\ streams[s].used /\ streams'[s].used /\ streams'[s].pipe = streams[s].pipe
     /\ streams'[s].open => streams[s].open
     /\ streams[s].gone => streams'[s].gone
Quiet ==
  /\ \A s \in Slots : SlotQuiet(s)
  /\ \A x \in Xfers : xfer'[x] = "queued" =>
       xfer[x] = "queued" \/ (streams[x[1]].open /\ hub[Dev(x[1])] = "open")

\* A slot that did not change is quiet.
LEMMA SameQuiet ==
  ASSUME NEW s \in Slots, SlotOK(s), streams'[s] = streams[s] PROVE SlotQuiet(s)
BY DEF SlotQuiet, SlotOK

\* After a quiet step what is in use was in use, on the same pipe.
LEMMA QuietUsed ==
  ASSUME Quiet, NEW s \in Slots, streams'[s].used
  PROVE  /\ streams[s].used /\ streams'[s].pipe = streams[s].pipe /\ Dev(s)' = Dev(s)
         /\ streams'[s].open => streams[s].open
         /\ streams[s].gone => streams'[s].gone
BY DEF Quiet, SlotQuiet, Unused, Dev

\* A quiet step keeps the promise of a frame that stays where it is.
LEMMA FrameKept ==
  ASSUME Typed, SlotsOK, FramesOK, Quiet, NEW i \in Depth, stack'[i] = stack[i],
         i > 1 => stack'[i - 1] = stack[i - 1],
         stack[i].op = "gone" => hub'[stack[i].pipe[1]] = "closing",
         i = 1 /\ vm.at \in {"call", "down"} => vm'.at = vm.at
  PROVE  FrameOK(i)'
<1>1. stack[i] \in Frames /\ FrameOK(i)
  BY ElementOfSeq DEF Typed, Depth, FramesOK
<1>2. ASSUME stack[i].op \in Loops PROVE LoopOK(i)'
  <2>1. LoopOK(i) /\ stack[i] \in LoopFrames
    BY <1>1, <1>2, FrameKinds DEF FrameOK
  <2>2. ASSUME NEW s \in Slots, streams'[s].used, s < stack[i].next, For(stack[i], s)'
        PROVE  ~streams'[s].open
    <3>1. streams[s].used /\ For(stack[i], s)
      BY <2>2, QuietUsed DEF For
    <3>2. ~streams[s].open
      BY <2>1, <2>2, <3>1 DEF LoopOK, UsedSlots
    <3> QED BY <2>2, <3>2, QuietUsed
  <2>3. \A s \in UsedSlots' : s < stack'[i].next /\ For(stack[i], s)' => ~streams'[s].open
    BY <2>2 DEF UsedSlots
  <2> QED BY <2>1, <2>3 DEF LoopOK, For, Dev, Depth
<1>3. ASSUME stack[i].op = "stop" PROVE StopOK(i)'
  <2> DEFINE s == stack[i].slot
  <2>1. StopOK(i) /\ s \in Slots
    BY <1>1, <1>3, FrameKinds DEF FrameOK, StopFrames
  <2>2. ~streams'[s].open
    BY <2>1, QuietUsed DEF StopOK, Quiet, SlotQuiet, Unused
  <2>3. \A x \in Of(s) : xfer[x] # "queued" => xfer'[x] # "queued"
    BY <2>1 DEF Quiet, StopOK, Of
  <2>4. streams'[s].used => streams[s].used /\ Dev(s)' = Dev(s) /\ (streams[s].gone => streams'[s].gone)
    BY <2>1, QuietUsed
  <2>5. Of(s)' = Of(s)
    BY DEF Of, Xfers
  <2> QED BY <2>1, <2>2, <2>3, <2>4, <2>5 DEF StopOK, Dev, Of
<1> QED BY <1>2, <1>3 DEF FrameOK

\* A quiet step that leaves the stack alone.
LEMMA FramesSame ==
  ASSUME Typed, SlotsOK, FramesOK, Quiet, UNCHANGED stack,
         \A d \in Devs : hub[d] = "closing" => hub'[d] = "closing",
         vm.at \in {"call", "down"} => vm'.at = vm.at
  PROVE  FramesOK'
<1>1. ASSUME NEW i \in Depth PROVE FrameOK(i)'
  <2>1. stack[i].op = "gone" => hub'[stack[i].pipe[1]] = "closing"
    BY <1>1, ElementOfSeq, FrameKinds DEF FramesOK, FrameOK, LoopOK, Loops
  <2> QED BY <2>1, FrameKept
<1> QED BY <1>1 DEF FramesOK, GoneApart, Depth

\* A loop on top of the stack, which has yet to look at every slot.
LEMMA FramesPushed ==
  ASSUME Typed, SlotsOK, FramesOK, UNCHANGED <<streams, xfer>>,
         NEW f \in LoopFrames, f.next = 1, stack' = Append(stack, f),
         f.op = "gone" =>
           /\ f.pipe \in Devs \X {None} /\ hub'[f.pipe[1]] = "closing"
           /\ hub[f.pipe[1]] # "closing" /\ vm'.at = vm.at,
         \A d \in Devs : hub[d] = "closing" => hub'[d] = "closing",
         f.op # "gone" => stack = <<>>,
         f.op \in {"release", "close", "stopall"} => vm'.at = "call",
         f.op = "down" => vm'.at = "down"
  PROVE  FramesOK' /\ stack' \in Seq(Frames)
<1> PICK n : n = Len(stack) + 1
  OBVIOUS
<1>1. /\ stack' \in Seq(Frames) /\ Len(stack') = Len(stack) + 1 /\ Len(stack) \in Nat
      /\ \A i \in Depth : stack'[i] = stack[i]
      /\ stack'[n] = f
  BY PushStack DEF Typed, Frames, Depth
<1>2. f.op \in Loops /\ f.op # "stop"
  BY FrameKinds DEF LoopFrames, Loops
<1>3. Quiet
  BY SameQuiet DEF Quiet, SlotsOK
<1>4. \A i \in Depth : stack[i].op = "gone" =>
        stack[i].pipe[1] \in Devs /\ hub[stack[i].pipe[1]] = "closing"
  BY FrameKinds DEF FramesOK, FrameOK, LoopOK, Loops
<1>5. ASSUME NEW i \in Depth PROVE FrameOK(i)'
  <2>1. f.op = "gone"
    BY <1>5, EmptySeq DEF Depth
  <2>2. i > 1 => i - 1 \in Depth
    BY <1>1 DEF Depth
  <2> QED BY <1>1, <1>3, <1>4, <1>5, <2>1, <2>2, FrameKept
<1>6. FrameOK(n)'
  <2>1. \A s \in UsedSlots' : ~(s < 1)
    BY SizesAssumption DEF UsedSlots, Slots
  <2>2. f.op # "gone" => n = 1
    BY EmptySeq
  <2>3. LoopOK(n)'
    BY <1>1, <2>1, <2>2 DEF LoopOK
  <2> QED BY <1>1, <1>2, <2>3 DEF FrameOK
<1>7. ASSUME NEW i \in Depth', NEW j \in Depth', stack'[i].op = "gone", stack'[j].op = "gone",
             stack'[i].pipe[1] = stack'[j].pipe[1]
      PROVE  i = j
  <2>1. \A k \in Depth' : k \in Depth \/ k = n
    BY <1>1 DEF Depth
  <2>2. GoneApart
    BY DEF FramesOK
  <2>3. CASE i \in Depth /\ j \in Depth
    BY <1>1, <1>7, <2>2, <2>3 DEF GoneApart
  <2>4. ASSUME NEW k \in Depth, stack'[k].op = "gone", stack'[n].op = "gone"
        PROVE  stack'[k].pipe[1] # stack'[n].pipe[1]
    <3>1. hub[stack'[k].pipe[1]] = "closing"
      BY <1>1, <1>4, <2>4
    <3>2. hub[stack'[n].pipe[1]] # "closing"
      BY <1>1, <2>4
    <3> QED BY <3>1, <3>2
  <2> QED BY <1>7, <2>1, <2>3, <2>4
<1>8. \A i \in Depth' : FrameOK(i)'
  BY <1>1, <1>5, <1>6 DEF Depth
<1> QED BY <1>1, <1>7, <1>8 DEF FramesOK, GoneApart

\* The loops of DEV_GONE on a stack that shows the old ones, and no more.
LEMMA ApartKept ==
  ASSUME GoneApart,
         \A i \in Depth' : stack'[i].op = "gone" =>
           i \in Depth /\ stack[i].op = "gone" /\ stack'[i].pipe = stack[i].pipe
  PROVE  GoneApart'
BY DEF GoneApart

\* Another frame in the place of the top.
LEMMA FramesReplaced ==
  ASSUME Typed, SlotsOK, FramesOK, Quiet, Busy, UNCHANGED <<hub, vm>>,
         NEW f \in Frames, stack' = Append(Below, f),
         f.op = "gone" => Top.op = "gone" /\ f.pipe = Top.pipe,
         NEW n, n = Len(stack), FrameOK(n)'
  PROVE  FramesOK' /\ stack' \in Seq(Frames)
<1>1. /\ stack' \in Seq(Frames) /\ Len(stack') = n /\ stack'[n] = f /\ n \in Nat \ {0}
      /\ \A i \in 1..(n - 1) : stack'[i] = stack[i]
  BY ReplaceTop, PopStack DEF Typed
<1>2. ASSUME NEW i \in 1..(n - 1) PROVE FrameOK(i)'
  <2>1. i \in Depth /\ (i > 1 => i - 1 \in 1..(n - 1))
    BY <1>1 DEF Depth
  <2>2. stack[i].op = "gone" => hub'[stack[i].pipe[1]] = "closing"
    BY <2>1, FrameKinds DEF FramesOK, FrameOK, LoopOK, Loops
  <2> QED BY <1>1, <2>1, <2>2, FrameKept
<1>3. \A i \in Depth' : i \in Depth /\ (i \in 1..(n - 1) \/ i = n)
  BY <1>1 DEF Depth
<1>4. GoneApart'
  BY <1>1, <1>3, ApartKept DEF FramesOK, Top
<1> QED BY <1>1, <1>2, <1>3, <1>4 DEF FramesOK

\* Another loop in the place of the top, and a stop above it.
LEMMA FramesStopped ==
  ASSUME Typed, SlotsOK, FramesOK, Quiet, Busy, UNCHANGED <<hub, vm>>,
         NEW f \in Frames, NEW g \in StopFrames, stack' = Append(Append(Below, f), g),
         f.op = "gone" => Top.op = "gone" /\ f.pipe = Top.pipe,
         NEW n, n = Len(stack), FrameOK(n)', FrameOK(n + 1)'
  PROVE  FramesOK' /\ stack' \in Seq(Frames)
<1> DEFINE t == Append(Below, f)
<1>1. /\ t \in Seq(Frames) /\ Len(t) = n /\ t[n] = f /\ n \in Nat \ {0}
      /\ \A i \in 1..(n - 1) : t[i] = stack[i]
  BY ReplaceTop, PopStack DEF Typed
<1>2. g \in Frames /\ g.op = "stop"
  BY DEF Frames, StopFrames
<1> HIDE DEF t
<1>3. /\ stack' \in Seq(Frames) /\ Len(stack') = n + 1 /\ stack'[n + 1] = g
      /\ \A i \in 1..n : stack'[i] = t[i]
  <2>1. stack' = Append(t, g)
    BY DEF t
  <2> QED BY <1>1, <1>2, <2>1, PushStack
<1>4. stack'[n] = f /\ \A i \in 1..(n - 1) : stack'[i] = stack[i]
  BY <1>1, <1>3
<1>5. ASSUME NEW i \in 1..(n - 1) PROVE FrameOK(i)'
  <2>1. i \in Depth /\ (i > 1 => i - 1 \in 1..(n - 1))
    BY <1>1 DEF Depth
  <2>2. stack[i].op = "gone" => hub'[stack[i].pipe[1]] = "closing"
    BY <2>1, FrameKinds DEF FramesOK, FrameOK, LoopOK, Loops
  <2> QED BY <1>4, <2>1, <2>2, FrameKept
<1>6. \A i \in Depth' : i \in 1..(n - 1) \/ i = n \/ i = n + 1
  BY <1>1, <1>3 DEF Depth
<1>7. GoneApart'
  <2>1. n \in Depth /\ \A i \in 1..(n - 1) : i \in Depth
    BY <1>1 DEF Depth
  <2> QED BY <1>2, <1>3, <1>4, <1>6, <2>1, ApartKept DEF FramesOK, Top
<1> QED BY <1>3, <1>5, <1>6, <1>7 DEF FramesOK

\* The top of the stack returns.
LEMMA FramesPopped ==
  ASSUME Typed, SlotsOK, FramesOK, Quiet, Busy, stack' = Below, NEW n, n = Len(stack),
         \A i \in 1..(n - 1) : stack[i].op = "gone" => hub'[stack[i].pipe[1]] = "closing",
         n > 1 /\ vm.at \in {"call", "down"} => vm'.at = vm.at
  PROVE  FramesOK' /\ stack' \in Seq(Frames) /\ \A i \in Depth' : i \in Depth /\ i \in 1..(n - 1)
                                                           /\ stack'[i] = stack[i]
<1>1. /\ stack' \in Seq(Frames) /\ Len(stack') = n - 1 /\ n \in Nat \ {0}
      /\ \A i \in 1..(n - 1) : stack'[i] = stack[i]
  BY PopStack DEF Typed
<1>2. ASSUME NEW i \in 1..(n - 1) PROVE FrameOK(i)'
  <2>1. i \in Depth /\ (i > 1 => i - 1 \in 1..(n - 1)) /\ n > 1
    BY <1>1 DEF Depth
  <2> QED BY <1>1, <2>1, FrameKept
<1>3. \A i \in Depth' : i \in 1..(n - 1) /\ i \in Depth
  BY <1>1 DEF Depth
<1>4. GoneApart'
  BY <1>1, <1>3, ApartKept DEF FramesOK
<1> QED BY <1>1, <1>2, <1>3, <1>4 DEF FramesOK

----------------------------------------------------------------------------
(* The devices, the roots and the prompt library, over quiet steps.        *)

\* What DEV_GONE has yet to come to, while its loops stay on the stack.
LEMMA ComesKept ==
  ASSUME \A i \in Depth : stack[i].op = "gone" => i \in Depth' /\ stack'[i] = stack[i],
         Quiet, NEW s \in Slots, streams'[s].used, GoneComes(s)
  PROVE  GoneComes(s)'
<1>1. Dev(s)' = Dev(s)
  BY QuietUsed
<1> QED BY <1>1 DEF GoneComes, Dev

\* A step between loops that leaves the devices, and the streams that know their
\* device is gone, keeps what is known of the devices.
LEMMA HubKept ==
  ASSUME Typed, HubOK, Quiet, SlotsOK', UNCHANGED <<hub, wedged>>,
         \A s \in Slots : GoneComes(s) /\ streams'[s].used /\ ~streams'[s].gone => GoneComes(s)'
  PROVE  HubOK'
<1>1. GoneClosesStreams'
  BY QuietUsed DEF HubOK, GoneClosesStreams, UsedSlots
<1>2. QueuedAttached'
  <2>1. ASSUME NEW x \in Xfers, ~wedged, xfer'[x] = "queued" PROVE hub[Dev(x[1])'] = "open"
    <3>1. x[1] \in Slots /\ x \in Of(x[1])
      BY OfSlot
    <3>2. streams'[x[1]].used
      BY <2>1, <3>1 DEF SlotsOK, SlotOK, Of
    <3>3. Dev(x[1])' = Dev(x[1])
      BY <3>1, <3>2, QuietUsed
    <3> QED BY <2>1, <3>3 DEF Quiet, HubOK, QueuedAttached
  <2> QED BY <2>1 DEF QueuedAttached, Dev
<1>3. Attached'
  <2>1. ASSUME NEW s \in Slots, ~wedged, streams'[s].used, ~streams'[s].gone
        PROVE  hub[Dev(s)'] \in {"open", "leaving"} \/ GoneComes(s)'
    <3>1. streams[s].used /\ Dev(s)' = Dev(s) /\ ~streams[s].gone
      BY <2>1, QuietUsed
    <3>2. hub[Dev(s)] \in {"open", "leaving"} \/ GoneComes(s)
      BY <2>1, <3>1 DEF HubOK, Attached, UsedSlots
    <3> QED BY <2>1, <3>1, <3>2
  <2> QED BY <2>1 DEF Attached, UsedSlots, Dev
<1>4. WedgedDown'
  BY DEF HubOK, WedgedDown
<1> QED BY <1>1, <1>2, <1>3, <1>4 DEF HubOK

\* So does one that leaves the roots and the interpreter's call.
LEMMA RootsKept ==
  ASSUME RootsOK, Quiet, UNCHANGED rooted, vm.at = "opened" => vm' = vm
  PROVE  RootsOK'
BY QuietUsed DEF RootsOK, UsedSlots

\* A stop that stays on the stack, or freed its slot.
LEMMA PromptKept ==
  ASSUME PromptOK, Quiet, UNCHANGED <<prompt, wedged>>,
         \A s \in Slots : prompt /\ streams'[s].used =>
           \/ streams'[s].open = streams[s].open
           \/ \E i \in Depth' : stack'[i].op = "stop" /\ stack'[i].slot = s,
         \A i \in Depth : prompt /\ stack[i].op = "stop" =>
           \/ \E j \in Depth' : stack'[j].op = "stop" /\ stack'[j].slot = stack[i].slot
           \/ ~streams'[stack[i].slot].used
  PROVE  PromptOK'
BY QuietUsed DEF PromptOK, UsedSlots

\* Steps that touch no stream and no transfer are quiet.
LEMMA StreamsSame ==
  ASSUME Typed, SlotsOK, UNCHANGED <<streams, xfer>> PROVE Quiet /\ SlotsOK'
<1>1. Quiet
  BY SameQuiet DEF Quiet, SlotsOK
<1>2. SlotsOK'
  BY SlotSame, OfSlot DEF SlotsOK
<1> QED BY <1>1, <1>2

----------------------------------------------------------------------------
(* The bus, and what the pump delivers.                                    *)

\* A quiet step that no stop, no device and no Python code is part of.
LEMMA BusKeeps ==
  ASSUME IInv, Quiet, SlotsOK', streams' \in [Slots -> SlotType], xfer' \in [Xfers -> XferStates],
         UNCHANGED <<hub, rooted, vm, stack, prompt, wedged>>,
         \A s \in Slots : streams'[s].open = streams[s].open
  PROVE  IInv'
<1>1. Typed'
  BY DEF IInv, Typed
<1>2. FramesOK'
  BY FramesSame DEF IInv
<1>3. HubOK'
  BY ComesKept, HubKept DEF IInv, Depth
<1>4. RootsOK'
  BY RootsKept DEF IInv
<1>5. PromptOK'
  BY PromptKept DEF IInv, Depth
<1> QED BY <1>1, <1>2, <1>3, <1>4, <1>5 DEF IInv

\* A transfer's end on the bus: it is still out, and counted.
LEMMA CompleteKeeps == ASSUME IInv, NEW x \in Xfers, Complete(x) PROVE IInv'
<1>1. xfer' \in [Xfers -> XferStates] /\ streams' \in [Slots -> SlotType]
  BY DEF Complete, IInv, Typed, XferStates
<1>2. \A y \in Xfers : xfer'[y] = xfer[y] \/ (xfer[y] = "queued" /\ xfer'[y] = "done")
  BY DEF Complete, IInv, Typed
<1>3. SlotsOK'
  BY <1>2, SlotDone DEF Complete, IInv, SlotsOK, Of
<1>4. Quiet
  BY <1>2, SameQuiet DEF Quiet, Complete, IInv, SlotsOK
<1> QED BY <1>1, <1>3, <1>4, BusKeeps DEF Complete

\* A callback of a stream that stops, or that the library refuses, retires its
\* transfer; any other submits it again.
LEMMA CallbackKeeps == ASSUME IInv, NEW x \in Xfers, Callback(x) PROVE IInv'
<1> DEFINE s == x[1]
<1>1. /\ s \in Slots /\ xfer[x] = "done" /\ xfer \in [Xfers -> XferStates]
      /\ streams \in [Slots -> SlotType] /\ SlotOK(s)
      /\ UNCHANGED <<hub, rooted, vm, stack, prompt, wedged>>
  BY OfSlot DEF Callback, IInv, Typed, SlotsOK
<1>2. ASSUME xfer' = [xfer EXCEPT ![x] = "caller"], NEW e \in BOOLEAN,
             streams' = [streams EXCEPT ![s].inflight = @ - 1, ![s].errors = e],
             streams[s].open => e
      PROVE  IInv'
  <2> DEFINE t == [streams[s] EXCEPT !.inflight = @ - 1, !.errors = e]
  <2>1. streams' = [streams EXCEPT ![s] = t]
    BY <1>1, <1>2
  <2>2. /\ t.used = streams[s].used /\ t.open = streams[s].open /\ t.gone = streams[s].gone
        /\ t.pipe = streams[s].pipe /\ t.inflight = streams[s].inflight - 1 /\ t.errors = e
    BY <1>1 DEF SlotType
  <2>3. streams[s].inflight - 1 \in 0..NumXfer => t \in SlotType
    BY <1>1, <1>2 DEF SlotType
  <2> HIDE DEF t
  <2>4. streams'[s] = t /\ \A r \in Slots : r # s => streams'[r] = streams[r]
    BY <1>1, <2>1
  <2>5. SlotOK(s)' /\ streams[s].inflight - 1 \in 0..NumXfer /\ streams[s].used
    BY <1>1, <1>2, <2>2, <2>4, SlotRetires
  <2>6. streams' \in [Slots -> SlotType] /\ xfer' \in [Xfers -> XferStates]
    BY <1>1, <1>2, <2>1, <2>3, <2>5 DEF XferStates
  <2>7. SlotsOK'
    <3>1. ASSUME NEW r \in Slots, r # s PROVE SlotOK(r)'
      <4>1. \A y \in Of(r) : xfer'[y] = xfer[y]
        BY <1>1, <1>2, <3>1 DEF Of
      <4> QED BY <2>4, <3>1, <4>1, SlotSame DEF IInv, SlotsOK
    <3> QED BY <2>5, <3>1 DEF SlotsOK
  <2>8. Quiet
    <3>1. SlotQuiet(s)
      BY <2>2, <2>4, <2>5 DEF SlotQuiet
    <3>2. \A r \in Slots : r # s => SlotQuiet(r)
      BY <2>4, SameQuiet DEF IInv, SlotsOK
    <3>3. \A y \in Xfers : xfer'[y] = "queued" => xfer[y] = "queued"
      BY <1>1, <1>2
    <3> QED BY <3>1, <3>2, <3>3 DEF Quiet
  <2> QED BY <1>1, <2>2, <2>4, <2>6, <2>7, <2>8, BusKeeps
<1>3. CASE ~streams[s].open /\ streams' = [streams EXCEPT ![s].inflight = @ - 1]
           /\ xfer' = [xfer EXCEPT ![x] = "caller"]
  <2>1. PICK e : e = streams[s].errors
    OBVIOUS
  <2>2. e \in BOOLEAN
    BY <1>1, <2>1 DEF SlotType
  <2>3. [streams[s] EXCEPT !.inflight = @ - 1] = [streams[s] EXCEPT !.inflight = @ - 1, !.errors = e]
    BY <1>1, <2>1 DEF SlotType
  <2>4. streams' = [streams EXCEPT ![s].inflight = @ - 1, ![s].errors = e]
    BY <1>1, <1>3, <2>3
  <2> QED BY <1>2, <1>3, <2>2, <2>4
<1>4. CASE /\ streams[s].open /\ xfer' = [xfer EXCEPT ![x] = "caller"]
           /\ streams' = [streams EXCEPT ![s].inflight = @ - 1, ![s].errors = TRUE]
  BY <1>2, <1>4
<1>5. CASE streams[s].open /\ hub[Dev(s)] = "open"
           /\ xfer' = [xfer EXCEPT ![x] = "queued"] /\ UNCHANGED streams
  <2>1. xfer' \in [Xfers -> XferStates]
    BY <1>1, <1>5 DEF XferStates
  <2>2. SlotsOK'
    <3>1. ASSUME NEW r \in Slots PROVE SlotOK(r)'
      <4>1. Held(r)' = Held(r)
        BY <1>1, <1>5 DEF Held, InLibrary, Of, Xfers
      <4>2. \A y \in Of(r) : xfer'[y] = "caller" => xfer[y] = "caller"
        BY <1>1, <1>5 DEF Of
      <4>3. r # s => \A y \in Of(r) : xfer'[y] = xfer[y]
        BY <1>1, <1>5 DEF Of
      <4>4. ~streams[r].used => \A y \in Of(r) : xfer'[y] = "free"
        BY <1>1, <1>5, <3>1 DEF Of, IInv, SlotsOK, SlotOK, Unused
      <4>5. streams[r].gone => ~streams[r].open /\ \A y \in Of(r) : xfer'[y] # "queued"
        BY <1>5, <3>1, <4>3 DEF IInv, SlotsOK, SlotOK
      <4> QED BY <1>5, <3>1, <4>1, <4>2, <4>4, <4>5 DEF IInv, SlotsOK, SlotOK, Of, Xfers
    <3> QED BY <3>1 DEF SlotsOK
  <2>3. Quiet
    BY <1>1, <1>5, SameQuiet DEF Quiet, IInv, SlotsOK
  <2> QED BY <1>1, <1>5, <2>1, <2>2, <2>3, BusKeeps
<1> QED BY <1>1, <1>3, <1>4, <1>5 DEF Callback

\* An unplugged device's queued transfers end with an error.
LEMMA UnplugKeeps == ASSUME IInv, NEW d \in Devs, Unplug(d) PROVE IInv'
<1>1. /\ hub[d] = "open" /\ hub' = [hub EXCEPT ![d] = "leaving"]
      /\ UNCHANGED <<streams, rooted, vm, stack, prompt, wedged>>
      /\ hub \in [Devs -> {"absent", "open", "leaving", "closing"}]
  BY DEF Unplug, IInv, Typed
<1>2. \A x \in Xfers :
        /\ xfer'[x] = xfer[x] \/ (xfer[x] = "queued" /\ xfer'[x] = "done")
        /\ xfer'[x] = "queued" => Dev(x[1]) # d
  BY DEF Unplug
<1>3. xfer' \in [Xfers -> XferStates]
  BY DEF Unplug, IInv, Typed, XferStates
<1>4. SlotsOK'
  BY <1>1, <1>2, SlotDone DEF IInv, SlotsOK, Of
<1>5. Quiet
  BY <1>1, <1>2, SameQuiet DEF Quiet, IInv, SlotsOK
<1>6. Typed'
  BY <1>1, <1>3 DEF IInv, Typed
<1>7. FramesOK'
  BY <1>1, <1>5, FramesSame DEF IInv
<1>8. ~wedged /\ \A c \in Devs : hub'[c] = IF c = d THEN "leaving" ELSE hub[c]
  BY <1>1 DEF IInv, HubOK, WedgedDown
<1>9. \A s \in UsedSlots : Dev(s) \in Devs /\ s \in Slots
  BY DEF UsedSlots, IInv, SlotsOK, SlotOK, Dev, Pipes
<1>10. \A s \in UsedSlots : GoneComes(s) => GoneComes(s)'
  BY <1>1 DEF GoneComes, Dev, Depth
<1>11. HubOK'
  <2>1. GoneClosesStreams'
    BY <1>1, <1>8, <1>9 DEF IInv, HubOK, GoneClosesStreams, UsedSlots, Dev
  <2>2. QueuedAttached'
    <3>1. ASSUME NEW x \in Xfers, xfer'[x] = "queued" PROVE hub'[Dev(x[1])] = "open"
      <4>1. xfer[x] = "queued" /\ hub[Dev(x[1])] = "open" /\ Dev(x[1]) # d
        BY <1>2, <1>8, <3>1 DEF IInv, HubOK, QueuedAttached
      <4> QED BY <1>1, <4>1
    <3> QED BY <1>1, <3>1 DEF QueuedAttached, Dev
  <2>3. Attached'
    BY <1>1, <1>8, <1>9, <1>10 DEF IInv, HubOK, Attached, UsedSlots, Dev
  <2>4. WedgedDown'
    BY <1>1, <1>8 DEF WedgedDown
  <2> QED BY <2>1, <2>2, <2>3, <2>4 DEF HubOK
<1>12. RootsOK'
  BY <1>1, <1>5, RootsKept DEF IInv
<1>13. PromptOK'
  BY <1>1, <1>5, PromptKept DEF IInv, Depth
<1> QED BY <1>4, <1>6, <1>7, <1>11, <1>12, <1>13 DEF IInv

\* The hub of one device changes, to a state in which it is there.
LEMMA DevKeeps ==
  ASSUME IInv, NEW d \in Devs, NEW h \in {"open", "closing"}, hub' = [hub EXCEPT ![d] = h],
         UNCHANGED <<streams, xfer, wedged>>, ~wedged,
         hub[d] # "open",
         \A s \in UsedSlots : (GoneComes(s) => GoneComes(s)')
                              /\ (Dev(s) = d /\ h = "closing" => GoneComes(s)')
  PROVE  HubOK'
<1>1. \A c \in Devs : hub'[c] = IF c = d THEN h ELSE hub[c]
  BY DEF IInv, Typed
<1>2. \A s \in UsedSlots : Dev(s) \in Devs /\ s \in Slots
  BY DEF UsedSlots, IInv, SlotsOK, SlotOK, Dev, Pipes
<1>3. GoneClosesStreams'
  BY <1>1, <1>2 DEF IInv, HubOK, GoneClosesStreams, UsedSlots, Dev
<1>4. QueuedAttached'
  <2>1. ASSUME NEW x \in Xfers, xfer[x] = "queued" PROVE hub'[Dev(x[1])] = "open"
    <3>1. x[1] \in Slots /\ x \in Of(x[1])
      BY OfSlot
    <3>2. x[1] \in UsedSlots
      BY <2>1, <3>1 DEF UsedSlots, IInv, SlotsOK, SlotOK
    <3> QED BY <1>1, <1>2, <2>1, <3>2 DEF IInv, HubOK, QueuedAttached
  <2> QED BY <2>1 DEF QueuedAttached, Dev
<1>5. Attached'
  BY <1>1, <1>2 DEF IInv, HubOK, Attached, UsedSlots, Dev
<1>6. WedgedDown'
  BY DEF WedgedDown
<1> QED BY <1>3, <1>4, <1>5, <1>6 DEF HubOK

\* A device opens: it is absent, so no stream is of it.
LEMMA NewDevKeeps == ASSUME IInv, NEW d \in Devs, NewDev(d) PROVE IInv'
<1>1. /\ ~Busy /\ hub[d] = "absent" /\ hub' = [hub EXCEPT ![d] = "open"] /\ ~wedged
      /\ UNCHANGED <<streams, xfer, rooted, vm, stack, prompt, wedged>>
  BY DEF NewDev
<1>2. Quiet /\ SlotsOK'
  BY <1>1, StreamsSame DEF IInv
<1>3. Typed'
  BY <1>1 DEF IInv, Typed
<1>4. FramesOK'
  BY <1>1, <1>2, FramesSame DEF IInv, Typed
<1>5. \A s \in UsedSlots : GoneComes(s) => GoneComes(s)'
  BY <1>1 DEF GoneComes, Dev, Depth
<1>6. HubOK'
  BY <1>1, <1>5, DevKeeps
<1>7. RootsOK' /\ PromptOK'
  BY <1>1, <1>2, RootsKept, PromptKept DEF IInv, Depth
<1> QED BY <1>2, <1>3, <1>4, <1>6, <1>7 DEF IInv

\* DEV_GONE begins a loop over the slots: its device is left by nobody else, so
\* the loops on the stack stay each for a device of their own.
LEMMA GoneBeginKeeps == ASSUME IInv, NEW d \in Devs, GoneBegin(d) PROVE IInv'
<1> DEFINE f == Loop("gone", <<d, None>>)
<1>1. /\ hub[d] = "leaving" /\ hub' = [hub EXCEPT ![d] = "closing"] /\ stack' = Append(stack, f)
      /\ UNCHANGED <<streams, xfer, rooted, vm, prompt, wedged>>
      /\ hub \in [Devs -> {"absent", "open", "leaving", "closing"}]
  BY DEF GoneBegin, Push, IInv, Typed
<1>2. /\ f \in LoopFrames /\ f.op = "gone" /\ f.next = 1 /\ f.pipe \in Devs \X {None}
      /\ f.pipe[1] = d
  BY SizesAssumption DEF Loop, LoopFrames, Loops
<1> HIDE DEF f
<1>3. Quiet /\ SlotsOK'
  BY <1>1, StreamsSame DEF IInv
<1>4. \A c \in Devs : hub'[c] = IF c = d THEN "closing" ELSE hub[c]
  BY <1>1
<1>5. FramesOK' /\ stack' \in Seq(Frames)
  BY <1>1, <1>2, <1>4, FramesPushed DEF IInv
<1>6. Typed'
  BY <1>1, <1>5 DEF IInv, Typed
<1>7. /\ Len(stack') = Len(stack) + 1 /\ Len(stack) \in Nat /\ stack'[Len(stack) + 1] = f
      /\ \A i \in Depth : stack'[i] = stack[i] /\ i \in Depth'
  <2>1. f \in Frames
    BY <1>2 DEF Frames
  <2>2. stack \in Seq(Frames)
    BY DEF IInv, Typed
  <2> QED BY <1>1, <2>1, <2>2, PushStack DEF Depth
<1>8. \A s \in UsedSlots : GoneComes(s) => GoneComes(s)'
  BY <1>1, <1>7 DEF GoneComes, Dev
<1>9. ASSUME NEW s \in UsedSlots, Dev(s) = d PROVE GoneComes(s)'
  <2>1. 1 <= s
    BY SizesAssumption DEF UsedSlots, Slots
  <2>2. Len(stack) + 1 \in Depth'
    BY <1>7 DEF Depth
  <2> QED BY <1>1, <1>2, <1>7, <1>9, <2>1, <2>2 DEF GoneComes, Dev
<1>10. ~wedged
  BY <1>1 DEF IInv, HubOK, WedgedDown
<1>11. HubOK'
  BY <1>1, <1>8, <1>9, <1>10, DevKeeps
<1>12. RootsOK'
  BY <1>1, <1>3, RootsKept DEF IInv
<1>13. PromptOK'
  BY <1>1, <1>3, <1>7, PromptKept DEF IInv
<1> QED BY <1>3, <1>5, <1>6, <1>11, <1>12, <1>13 DEF IInv

----------------------------------------------------------------------------
(* The interpreter.                                                        *)

\* A call of the interpreter that stops streams begins its loop.
LEMMA CallKeeps ==
  ASSUME IInv, ~Busy, NEW op \in {"release", "close", "stopall", "down"},
         NEW q \in Pipes \cup {None}, stack' = Append(stack, Loop(op, q)),
         UNCHANGED <<hub, streams, xfer, rooted, prompt, wedged>>,
         \/ op # "down" /\ Idle /\ vm' = [at |-> "call"]
         \/ op = "down" /\ vm.at = "down" /\ vm' = vm
  PROVE  IInv'
<1> DEFINE f == Loop(op, q)
<1>1. f \in LoopFrames /\ f.op = op /\ f.next = 1 /\ op # "gone"
  BY SizesAssumption DEF Loop, LoopFrames, Loops
<1> HIDE DEF f
<1>2. Quiet /\ SlotsOK'
  BY StreamsSame DEF IInv
<1>3. vm' \in [at : {"idle", "call", "roots", "down"}] \cup [at : {"opened"}, slot : Slots]
  BY DEF IInv, Typed
<1>4. op # "down" => vm'.at = "call"
  OBVIOUS
<1>5. stack' = Append(stack, f) /\ stack = <<>>
  BY DEF f, Busy
<1>6. FramesOK' /\ stack' \in Seq(Frames)
  BY <1>1, <1>4, <1>5, FramesPushed DEF IInv
<1>7. Typed'
  BY <1>3, <1>6 DEF IInv, Typed
<1>8. Depth = {}
  BY <1>5, EmptySeq DEF Depth
<1>9. HubOK'
  BY <1>2, <1>8, ComesKept, HubKept DEF IInv
<1>10. RootsOK'
  BY <1>2, RootsKept DEF IInv, Idle
<1>11. PromptOK'
  BY <1>2, <1>8, PromptKept DEF IInv
<1> QED BY <1>2, <1>6, <1>7, <1>9, <1>10, <1>11 DEF IInv

\* A step of the interpreter that touches only its roots and its place.
LEMMA RootStepKeeps ==
  ASSUME IInv, UNCHANGED <<hub, streams, xfer, stack, prompt, wedged>>,
         vm.at \notin {"call", "down"}, vm' \in [at : {"idle", "call", "roots", "down"}],
         rooted' \subseteq Slots, \A s \in UsedSlots : streams[s].open => s \in rooted'
  PROVE  IInv'
<1>1. Quiet /\ SlotsOK'
  BY StreamsSame DEF IInv
<1>2. Typed'
  BY DEF IInv, Typed
<1>3. FramesOK'
  BY <1>1, FramesSame DEF IInv
<1>4. HubOK'
  BY <1>1, ComesKept, HubKept DEF IInv, Depth
<1>5. RootsOK'
  BY DEF RootsOK, UsedSlots
<1>6. PromptOK'
  BY <1>1, PromptKept DEF IInv, Depth
<1> QED BY <1>1, <1>2, <1>3, <1>4, <1>5, <1>6 DEF IInv

\* An open that returned roots its stream's ring.
LEMMA OpenedKeeps == ASSUME IInv, Opened PROVE IInv'
<1>1. vm.slot \in Slots
  BY DEF Opened, IInv, Typed
<1>2. \A s \in UsedSlots : streams[s].open => s \in rooted'
  BY DEF Opened, IInv, RootsOK
<1> QED BY <1>1, <1>2, RootStepKeeps DEF Opened, IInv, Typed, UsedSlots

\* usbif_host_stream's root pass keeps the ring of every stream in use.
LEMMA RootsKeeps == ASSUME IInv, Roots PROVE IInv'
<1>1. \A s \in UsedSlots : streams[s].open => s \in rooted'
  BY DEF Roots, IInv, RootsOK
<1> QED BY <1>1, RootStepKeeps DEF Roots, IInv, Typed, UsedSlots

\* host_stream(dev, ep, None) with no stream there looks at the roots alone.
LEMMA CloseKeeps == ASSUME IInv, NEW q \in Pipes, Close(q) PROVE IInv'
<1>1. CASE Find(q) = {}
  <2>1. \A s \in UsedSlots : streams[s].open => s \in rooted
    BY DEF Close, Idle, IInv, RootsOK
  <2> QED BY <1>1, <2>1, RootStepKeeps DEF Close, Idle, IInv, Typed
<1>2. CASE Find(q) # {}
  BY <1>2, CallKeeps DEF Close, Calls, Push
<1> QED BY <1>1, <1>2

NewStream(q, k, ok) ==
  [Unused EXCEPT !.used = TRUE, !.open = TRUE, !.pipe = q,
                 !.inflight = Cardinality(ok), !.errors = ok # 1..k]

\* A new stream: every transfer the library took is counted.
LEMMA NewSlot ==
  ASSUME NEW s \in Slots, SlotOK(s), ~streams[s].used, NEW q \in Pipes,
         NEW k \in MinXfer..NumXfer, NEW ok \in SUBSET (1..k),
         streams'[s] = NewStream(q, k, ok),
         \A x \in Of(s) : xfer'[x] = IF x[2] > k THEN xfer[x]
                                     ELSE IF x[2] \in ok THEN "queued" ELSE "caller"
  PROVE  SlotOK(s)' /\ streams'[s] \in SlotType
<1>1. k \in Nat /\ k \in 1..NumXfer
  BY SizesAssumption
<1>2. \A x \in Of(s) : xfer[x] = "free" /\ x[2] \in 1..NumXfer /\ x \in Xfers /\ x[1] = s
  BY DEF SlotOK, Of, Xfers
<1> DEFINE f == [i \in ok |-> <<s, i>>]
<1>3. Held(s)' = {x \in Of(s) : x[2] \in ok}
  BY <1>1, <1>2 DEF Held, InLibrary, Of, Xfers
<1>4. f \in Bijection(ok, Held(s)')
  <2>1. ASSUME NEW i \in ok PROVE <<s, i>> \in Held(s)'
    <3>1. i \in 1..NumXfer
      BY <1>1, SizesAssumption
    <3>2. <<s, i>> \in Of(s) /\ <<s, i>>[2] = i
      BY <3>1 DEF Of, Xfers
    <3> QED BY <1>3, <3>2
  <2>2. \A x \in Held(s)' : x = <<s, x[2]>> /\ x[2] \in ok
    BY <1>2, <1>3 DEF Of, Xfers
  <2>3. f \in Injection(ok, Held(s)')
    BY <2>1 DEF Injection, IsInjective
  <2>4. f \in Surjection(ok, Held(s)')
    BY <2>1, <2>2 DEF Surjection
  <2> QED BY <2>3, <2>4 DEF Bijection
<1>5. IsFiniteSet(ok) /\ Cardinality(ok) \in 0..NumXfer
  <2>1. IsFiniteSet(1..k) /\ Cardinality(1..k) = k
    BY <1>1, FS_Interval
  <2>2. IsFiniteSet(ok) /\ Cardinality(ok) <= k
    BY <2>1, FS_Subset
  <2>3. Cardinality(ok) \in Nat
    BY <2>2, FS_CardinalityType
  <2> QED BY <1>1, <2>2, <2>3, SizesAssumption
<1>6. Cardinality(Held(s)') = Cardinality(ok)
  BY <1>4, <1>5, FS_Bijection DEF ExistsBijection
<1>7. /\ streams'[s].used /\ streams'[s].open /\ ~streams'[s].gone /\ streams'[s].pipe = q
      /\ streams'[s].inflight = Cardinality(ok) /\ streams'[s].errors = (ok # 1..k)
  BY DEF NewStream, Unused
<1>8. ok = 1..k => \A x \in Of(s) : xfer'[x] # "caller"
  BY <1>1, <1>2
<1>9. streams'[s] \in SlotType
  BY <1>5 DEF NewStream, Unused, SlotType
<1>10. Of(s)' = Of(s)
  BY DEF Of, Xfers
<1> QED BY <1>6, <1>7, <1>8, <1>9, <1>10 DEF SlotOK, Held

\* An open takes an unused slot and counts the transfers it submits, one by one.
LEMMA OpenKeeps == ASSUME IInv, NEW q \in Pipes, Open(q) PROVE IInv'
<1>1. /\ stack = <<>> /\ Idle /\ hub[q[1]] = "open" /\ q[1] \in Devs
      /\ UNCHANGED <<hub, stack, prompt, wedged>>
  BY DEF Open, Busy, Pipes
<1> DEFINE Filled(s, k, ok) ==
             [x \in Xfers |-> IF x[1] # s \/ x[2] > k THEN xfer[x]
                              ELSE IF x[2] \in ok THEN "queued" ELSE "caller"]
<1>a. PICK s \in Slots \ UsedSlots, k \in MinXfer..NumXfer :
        \E ok \in SUBSET (1..k) \ {{}} :
          /\ \A t \in Slots \ UsedSlots : s <= t
          /\ streams' = [streams EXCEPT ![s] = NewStream(q, k, ok)]
          /\ xfer' = Filled(s, k, ok)
          /\ vm' = [at |-> "opened", slot |-> s] /\ rooted' = rooted \ {s}
  BY DEF Open, NewStream
<1>2. PICK ok \in SUBSET (1..k) :
          /\ streams' = [streams EXCEPT ![s] = NewStream(q, k, ok)]
          /\ xfer' = Filled(s, k, ok)
          /\ vm' = [at |-> "opened", slot |-> s] /\ rooted' = rooted \ {s}
  BY <1>a
<1>3. /\ s \in Slots /\ ~streams[s].used
      /\ \A t \in Slots : t # s => streams'[t] = streams[t]
      /\ streams'[s] = NewStream(q, k, ok)
  BY <1>2 DEF UsedSlots, IInv, Typed
<1>4. \A x \in Of(s) : xfer'[x] = IF x[2] > k THEN xfer[x]
                                  ELSE IF x[2] \in ok THEN "queued" ELSE "caller"
  BY <1>2 DEF Of
<1>5. SlotOK(s)' /\ streams'[s] \in SlotType
  <2>1. SlotOK(s)
    BY <1>3 DEF IInv, SlotsOK
  <2> QED BY <1>3, <1>4, <2>1, NewSlot
<1>6. ASSUME NEW t \in Slots, t # s PROVE SlotOK(t)'
  <2>1. \A x \in Of(t) : xfer'[x] = xfer[x]
    BY <1>2, <1>6 DEF Of
  <2> QED BY <1>3, <1>6, <2>1, SlotSame DEF IInv, SlotsOK
<1>7. SlotsOK'
  BY <1>5, <1>6 DEF SlotsOK
<1>8. Typed'
  <2>1. xfer' \in [Xfers -> XferStates]
    BY <1>2 DEF IInv, Typed, XferStates
  <2>2. streams' \in [Slots -> SlotType]
    BY <1>2, <1>3, <1>5 DEF IInv, Typed
  <2>3. vm' \in [at : {"idle", "call", "roots", "down"}] \cup [at : {"opened"}, slot : Slots]
    BY <1>2
  <2> QED BY <1>1, <1>2, <2>1, <2>2, <2>3 DEF IInv, Typed
<1>9. Depth' = {} /\ Depth = {}
  BY <1>1, EmptySeq DEF Depth
<1>10. FramesOK'
  BY <1>9 DEF FramesOK, GoneApart
<1>11. /\ streams'[s].used /\ streams'[s].open /\ ~streams'[s].gone /\ Dev(s)' = q[1]
       /\ \A t \in UsedSlots : t # s /\ t \in Slots /\ Dev(t)' = Dev(t)
       /\ \A t \in UsedSlots' : t = s \/ t \in UsedSlots
  <2>1. /\ streams'[s].used /\ streams'[s].open /\ ~streams'[s].gone /\ streams'[s].pipe = q
    BY <1>3 DEF NewStream, Unused
  <2> QED BY <1>3, <2>1 DEF UsedSlots, Dev
<1>12. ~wedged
  BY <1>1 DEF IInv, HubOK, WedgedDown
<1>13. HubOK'
  <2>1. GoneClosesStreams'
    BY <1>1, <1>3, <1>11 DEF IInv, HubOK, GoneClosesStreams, Dev
  <2>2. QueuedAttached'
    <3>1. ASSUME NEW x \in Xfers, xfer'[x] = "queued" PROVE hub[Dev(x[1])'] = "open"
      <4>1. x[1] \in Slots /\ x \in Of(x[1])
        BY OfSlot
      <4>2. CASE x[1] = s
        BY <1>1, <1>11, <4>2
      <4>3. CASE x[1] # s
        <5>1. xfer[x] = "queued" /\ streams'[x[1]] = streams[x[1]]
          BY <1>2, <1>3, <3>1, <4>1, <4>3
        <5> QED BY <1>12, <5>1 DEF IInv, HubOK, QueuedAttached, Dev
      <4> QED BY <4>2, <4>3
    <3> QED BY <1>1, <3>1 DEF QueuedAttached, Dev
  <2>3. Attached'
    <3>1. ~\E j \in Depth : TRUE
      BY <1>9
    <3>2. ASSUME NEW t \in UsedSlots'
          PROVE  streams'[t].gone \/ hub'[Dev(t)'] \in {"open", "leaving"}
      <4>1. CASE t = s
        BY <1>1, <1>11, <4>1
      <4>2. CASE t # s
        <5>1. t \in UsedSlots /\ streams'[t] = streams[t] /\ Dev(t)' = Dev(t)
          BY <1>3, <1>11, <3>2, <4>2
        <5>2. streams[t].gone \/ hub[Dev(t)] \in {"open", "leaving"}
          BY <1>12, <3>1, <5>1 DEF IInv, HubOK, Attached, GoneComes
        <5> QED BY <1>1, <5>1, <5>2
      <4> QED BY <4>1, <4>2
    <3> QED BY <3>2 DEF Attached, Dev
  <2>4. WedgedDown'
    BY <1>1, <1>12 DEF WedgedDown
  <2> QED BY <2>1, <2>2, <2>3, <2>4 DEF HubOK
<1>14. RootsOK'
  <2>1. ASSUME NEW t \in UsedSlots', streams'[t].open, t # s PROVE t \in rooted'
    <3>1. t \in UsedSlots /\ streams[t].open
      BY <1>3, <1>11, <2>1
    <3> QED BY <1>1, <1>2, <2>1, <3>1 DEF IInv, RootsOK, Idle
  <2> QED BY <1>2, <2>1 DEF RootsOK
<1>15. PromptOK'
  <2>1. ASSUME prompt, NEW t \in UsedSlots' PROVE streams'[t].open
    <3>1. t # s => t \in UsedSlots /\ streams[t].open
      BY <1>9, <1>11, <2>1 DEF IInv, PromptOK
    <3> QED BY <1>3, <1>11, <3>1
  <2> QED BY <1>1, <1>12, <2>1 DEF PromptOK
<1> QED BY <1>7, <1>8, <1>10, <1>13, <1>14, <1>15 DEF IInv

----------------------------------------------------------------------------
(* The calls on the stack.                                                 *)

\* The top of the stack.
LEMMA TopFrame ==
  ASSUME IInv, Busy, NEW n, n = Len(stack)
  PROVE  /\ n \in Depth /\ Top = stack[n] /\ Top \in Frames /\ FrameOK(n)
         /\ \A i \in Depth : i \in 1..(n - 1) \/ i = n
         /\ \A i \in 1..(n - 1) : i \in Depth
         /\ \A i \in Depth : stack[i].op = "gone" =>
              stack[i].pipe[1] \in Devs /\ hub[stack[i].pipe[1]] = "closing"
<1>1. n \in Nat \ {0} /\ n \in Depth /\ Top \in Frames
  BY PopStack DEF IInv, Typed
<1>2. \A i \in Depth : FrameOK(i)
  BY DEF IInv, FramesOK
<1>3. \A i \in Depth : stack[i].op = "gone" =>
        stack[i].pipe[1] \in Devs /\ hub[stack[i].pipe[1]] = "closing"
  BY <1>2 DEF FrameOK, LoopOK, Loops
<1> QED BY <1>1, <1>2, <1>3 DEF Top, Depth

\* The end of a stop, which with a prompt library frees its slot.
LEMMA ReturnKeeps ==
  ASSUME IInv, TopIs("stop"), Finish(Top.slot, streams[Top.slot], Below),
         UNCHANGED <<hub, rooted, vm, prompt, wedged>>,
         prompt => streams[Top.slot].inflight = 0
  PROVE  IInv'
<1> PICK n : n = Len(stack)
  OBVIOUS
<1> PICK s : s = Top.slot
  OBVIOUS
<1>1. Busy /\ Top \in StopFrames /\ s \in Slots /\ stack[n].op = "stop" /\ Typed
  BY TopFrame, FrameKinds DEF TopIs, StopFrames, IInv
<1>2. /\ stack' = Below
      /\ \A t \in Slots : t # s =>
           streams'[t] = streams[t] /\ \A x \in Of(t) : xfer'[x] = xfer[x]
      /\ \/ /\ streams'[s] = Unused
            /\ \A x \in Of(s) : xfer'[x] = "free"
         \/ /\ streams[s].inflight # 0 /\ streams'[s] = streams[s]
            /\ \A x \in Of(s) : xfer'[x] = xfer[x]
      /\ streams' = [streams EXCEPT ![s] = streams'[s]]
      /\ xfer' \in [Xfers -> XferStates]
  BY <1>1, FinishCases
<1>3. SlotsOK'
  BY <1>2, SlotFreed, SlotSame DEF IInv, SlotsOK
<1>4. Quiet
  <2>1. \A t \in Slots : SlotQuiet(t)
    BY <1>2, SameQuiet DEF IInv, SlotsOK, SlotQuiet
  <2>2. \A x \in Xfers : xfer'[x] = "queued" => xfer[x] = "queued"
    BY <1>2, OfSlot
  <2> QED BY <2>1, <2>2 DEF Quiet
<1>5. \A i \in 1..(n - 1) : stack[i].op = "gone" => hub'[stack[i].pipe[1]] = "closing"
  BY <1>1, TopFrame
<1>6. FramesOK' /\ stack' \in Seq(Frames)
  BY <1>1, <1>2, <1>4, <1>5, FramesPopped DEF IInv
<1>7. Typed'
  <2>1. Unused \in SlotType
    BY SizesAssumption DEF Unused, SlotType
  <2>2. streams' \in [Slots -> SlotType]
    BY <1>1, <1>2, <2>1 DEF Typed
  <2> QED BY <1>2, <1>6, <2>2 DEF IInv, Typed
<1>8. \A i \in 1..(n - 1) : i \in Depth' /\ stack'[i] = stack[i]
  BY <1>1, <1>2, PopStack DEF IInv, Typed, Depth
<1>9. \A i \in Depth : i \in 1..(n - 1) \/ i = n
  BY <1>1, TopFrame
<1>10. HubOK'
  BY <1>1, <1>3, <1>4, <1>8, <1>9, ComesKept, HubKept DEF IInv
<1>11. RootsOK'
  BY <1>4, RootsKept DEF IInv
<1>12. PromptOK'
  <2>1. \A t \in Slots : streams'[t].used => streams'[t].open = streams[t].open
    BY <1>2 DEF Unused
  <2>2. prompt => ~streams'[s].used
    BY <1>2 DEF Unused
  <2>3. stack[n].slot = s
    BY <1>1, TopFrame
  <2> QED BY <1>4, <1>8, <1>9, <2>1, <2>2, <2>3, PromptKept DEF IInv
<1> QED BY <1>3, <1>6, <1>7, <1>10, <1>11, <1>12 DEF IInv

\* The second wait is over: with a prompt library everything is back, halted or
\* returned by a device that is gone.
LEMMA HaltEndsKeeps == ASSUME IInv, HaltEnds PROVE IInv'
<1> PICK n : n = Len(stack)
  OBVIOUS
<1> PICK s : s = Top.slot
  OBVIOUS
<1>1. /\ Busy /\ Top \in StopFrames /\ s \in Slots /\ stack[n].op = "stop" /\ stack[n].slot = s
      /\ Top.at \in {"halt", "again"} /\ Top = stack[n] /\ FrameOK(n) /\ SlotOK(s)
  BY TopFrame, FrameKinds DEF HaltEnds, TopIs, StopFrames, IInv, SlotsOK
<1>2. StopOK(n)
  BY <1>1 DEF FrameOK
<1>3. ASSUME prompt PROVE streams[s].inflight = 0
  <2>1. CASE ~streams[s].used
    BY <1>1, <2>1 DEF SlotOK, Unused
  <2>2. CASE streams[s].used
    <3>1. \A x \in Of(s) : xfer[x] # "queued"
      BY <1>1, <1>2, <2>2 DEF StopOK, SlotOK
    <3>2. streams[s].inflight = 0 \/ \A x \in Of(s) : xfer[x] # "done"
      BY <1>3 DEF HaltEnds, WaitOver
    <3>3. (\A x \in Of(s) : xfer[x] # "done") => Held(s) = {}
      BY <3>1 DEF Held, InLibrary
    <3> QED BY <1>1, <3>2, <3>3, HeldFinite DEF SlotOK
  <2> QED BY <2>1, <2>2
<1> QED BY <1>3, ReturnKeeps DEF HaltEnds

\* The first wait is over.
LEMMA RetireEndsKeeps == ASSUME IInv, RetireEnds PROVE IInv'
<1> PICK n : n = Len(stack)
  OBVIOUS
<1> PICK s : s = Top.slot
  OBVIOUS
<1>1. /\ Busy /\ Top \in StopFrames /\ s \in Slots /\ stack[n].op = "stop" /\ stack[n].slot = s
      /\ Top = stack[n] /\ FrameOK(n) /\ n \in Depth
      /\ UNCHANGED <<hub, rooted, vm, prompt, wedged>>
  BY TopFrame, FrameKinds DEF RetireEnds, TopIs, StopFrames, IInv
<1>2. StopOK(n)
  BY <1>1 DEF FrameOK
<1>3. ASSUME NEW at \in {"again", "halt"}, stack' = Append(Below, StopOf(s, at)),
             UNCHANGED streams, SlotsOK', Quiet, xfer' \in [Xfers -> XferStates],
             at = "halt" => \A x \in Of(s) : xfer'[x] # "queued",
             at = "again" => streams[s].gone
      PROVE  IInv'
  <2> DEFINE f == StopOf(s, at)
  <2>1. f \in Frames /\ f.op = "stop" /\ f.slot = s /\ f.at = at
    BY <1>1 DEF StopOf, Frames, StopFrames
  <2> HIDE DEF f
  <2>2. /\ Len(stack') = n /\ stack'[n] = f /\ \A i \in 1..(n - 1) : stack'[i] = stack[i]
    BY <1>1, <1>3, <2>1, ReplaceTop DEF f, IInv, Typed
  <2>3. Depth' = Depth
    BY <2>2 DEF Depth
  <2>4. n - 1 \in 1..(n - 1)
    BY <1>1, <1>2, PopStack DEF StopOK, IInv, Typed
  <2>5. FrameOK(n)'
    <3>1. Of(s)' = Of(s)
      BY DEF Of, Xfers
    <3>2. stack'[n - 1] = stack[n - 1]
      BY <2>2, <2>4
    <3>3. StopOK(n)'
      BY <1>1, <1>2, <1>3, <2>1, <2>2, <3>1, <3>2 DEF StopOK, Dev
    <3>4. stack'[n].op \notin Loops
      BY <2>1, <2>2 DEF Loops
    <3> QED BY <3>3, <3>4 DEF FrameOK
  <2>6. FramesOK' /\ stack' \in Seq(Frames)
    <3>1. stack' = Append(Below, f) /\ f.op # "gone"
      BY <1>3, <2>1 DEF f
    <3> QED BY <1>1, <1>3, <2>1, <2>5, <3>1, FramesReplaced DEF IInv
  <2>7. Typed'
    BY <1>1, <1>3, <2>6 DEF IInv, Typed
  <2>8. \A i \in Depth : i \in 1..(n - 1) \/ i = n
    BY <1>1, TopFrame
  <2>9. HubOK'
    BY <1>1, <1>3, <2>2, <2>3, <2>8, ComesKept, HubKept DEF IInv
  <2>10. RootsOK'
    BY <1>1, <1>3, RootsKept DEF IInv
  <2>11. PromptOK'
    BY <1>1, <1>3, <2>1, <2>2, <2>3, <2>8, PromptKept DEF IInv
  <2> QED BY <1>3, <2>6, <2>7, <2>9, <2>10, <2>11 DEF IInv
<1>4. CASE streams[s].inflight = 0
  <2>1. Finish(s, streams[s], Below)
    BY <1>4 DEF RetireEnds
  <2> QED BY <1>1, <1>4, <2>1, ReturnKeeps DEF RetireEnds
<1>5. CASE streams[s].inflight # 0 /\ streams[s].gone
  <2>1. stack' = Append(Below, StopOf(s, "again")) /\ UNCHANGED <<streams, xfer>>
    BY <1>5 DEF RetireEnds
  <2>2. Quiet /\ SlotsOK' /\ xfer' \in [Xfers -> XferStates]
    BY <2>1, StreamsSame DEF IInv, Typed
  <2> QED BY <1>3, <1>5, <2>1, <2>2
<1>6. CASE streams[s].inflight # 0 /\ ~streams[s].gone
  <2>1. /\ stack' = Append(Below, StopOf(s, "halt")) /\ UNCHANGED streams
        /\ xfer' = [x \in Xfers |->
             IF x[1] = s /\ xfer[x] = "queued" THEN "done" ELSE xfer[x]]
    BY <1>6 DEF RetireEnds
  <2>2. xfer' \in [Xfers -> XferStates]
    BY <2>1 DEF IInv, Typed, XferStates
  <2>3. \A x \in Xfers : xfer'[x] = xfer[x] \/ (xfer[x] = "queued" /\ xfer'[x] = "done")
    BY <2>1
  <2>4. SlotsOK'
    BY <2>1, <2>3, SlotDone DEF IInv, SlotsOK, Of
  <2>5. Quiet
    BY <2>1, <2>3, SameQuiet DEF Quiet, IInv, SlotsOK
  <2>6. \A x \in Of(s) : xfer'[x] # "queued"
    BY <2>1 DEF Of
  <2> QED BY <1>3, <2>1, <2>2, <2>4, <2>5, <2>6
<1> QED BY <1>4, <1>5, <1>6

\* A loop comes to the next of its streams, and begins to stop it.
LEMMA LoopStopKeeps == ASSUME IInv, LoopStop PROVE IInv'
<1> PICK n : n = Len(stack)
  OBVIOUS
<1>1. /\ Busy /\ Top.op \in Loops /\ Top \in LoopFrames /\ Top = stack[n] /\ n \in Depth
      /\ LoopOK(n) /\ UNCHANGED <<hub, rooted, vm, prompt, wedged>> /\ stack[n].op # "stop"
      /\ \A i \in Depth : i \in 1..(n - 1) \/ i = n
      /\ \A i \in 1..(n - 1) : i \in Depth
  BY TopFrame, FrameKinds DEF LoopStop, FrameOK
<1> PICK gone \in BOOLEAN : gone = (Top.op = "gone")
  OBVIOUS
<1>g. gone <=> Top.op = "gone"
  BY Zenon
<1>2. PICK s \in Meant(Top) :
        /\ \A t \in Meant(Top) : s <= t
        /\ StopBegin(s, gone, Append(Below, [Top EXCEPT !.next = s + 1]))
  BY DEF LoopStop
<1>3. /\ s \in Slots /\ streams[s].used /\ s >= Top.next /\ SlotOK(s) /\ streams[s] \in SlotType
      /\ gone => Dev(s) = Top.pipe[1]
  BY <1>2 DEF Meant, UsedSlots, IInv, SlotsOK, Typed
<1> PICK l : l = [Top EXCEPT !.next = s + 1]
  OBVIOUS
<1>4. l \in LoopFrames /\ l.op = Top.op /\ l.pipe = Top.pipe /\ l.next = s + 1
  <2>1. s + 1 \in 1..(MaxSlots + 1)
    BY <1>3, SizesAssumption DEF Slots
  <2> QED BY <1>1, <2>1 DEF LoopFrames
<1>5. gone => \A x \in Of(s) : xfer[x] # "queued"
  <2> SUFFICES ASSUME gone, NEW x \in Of(s), xfer[x] = "queued" PROVE FALSE
    OBVIOUS
  <2>1. Dev(s) \in Devs /\ hub[Dev(s)] = "closing"
    BY <1>1, <1>3, TopFrame
  <2>2. ~wedged
    BY <2>1 DEF IInv, HubOK, WedgedDown
  <2>3. x \in Xfers /\ x[1] = s
    BY DEF Of
  <2> QED BY <2>1, <2>2, <2>3 DEF IInv, HubOK, QueuedAttached
<1> DEFINE st == [streams[s] EXCEPT !.open = FALSE, !.gone = @ \/ gone]
<1>6. /\ st \in SlotType /\ st.used /\ ~st.open /\ st.pipe = streams[s].pipe
      /\ st.inflight = streams[s].inflight /\ (streams[s].gone => st.gone)
      /\ (gone => st.gone)
  BY <1>3 DEF SlotType
<1>7. \/ /\ st.inflight = 0 /\ Finish(s, st, Append(Below, l))
      \/ /\ stack' = Append(Append(Below, l), StopOf(s, "retire"))
         /\ streams' = [streams EXCEPT ![s] = st] /\ UNCHANGED xfer
  BY <1>2 DEF StopBegin
\* What becomes of the slots.
<1>8. /\ \A t \in Slots : t # s =>
           streams'[t] = streams[t] /\ \A x \in Of(t) : xfer'[x] = xfer[x]
      /\ xfer' \in [Xfers -> XferStates] /\ streams' \in [Slots -> SlotType]
      /\ \/ /\ streams'[s] = Unused /\ \A x \in Of(s) : xfer'[x] = "free"
            /\ stack' = Append(Below, l)
         \/ /\ streams'[s] = st /\ \A x \in Of(s) : xfer'[x] = xfer[x]
            /\ stack' = Append(Append(Below, l), StopOf(s, "retire"))
  <2> HIDE DEF st
  <2>1. CASE st.inflight = 0 /\ Finish(s, st, Append(Below, l))
    <3>1. /\ stack' = Append(Below, l)
          /\ \A t \in Slots : t # s =>
               streams'[t] = streams[t] /\ \A x \in Of(t) : xfer'[x] = xfer[x]
          /\ streams'[s] = Unused /\ \A x \in Of(s) : xfer'[x] = "free"
          /\ streams' = [streams EXCEPT ![s] = streams'[s]]
          /\ xfer' \in [Xfers -> XferStates]
      <4> DEFINE rest == Append(Below, l)
      <4>1. s \in Slots /\ Finish(s, st, rest) /\ Typed
        BY <1>3, <2>1 DEF IInv
      <4> HIDE DEF rest
      <4>2. /\ stack' = rest
            /\ \A t \in Slots : t # s =>
                 streams'[t] = streams[t] /\ \A x \in Of(t) : xfer'[x] = xfer[x]
            /\ \/ /\ st.inflight = 0 /\ streams'[s] = Unused
                  /\ \A x \in Of(s) : xfer'[x] = "free"
               \/ st.inflight # 0
            /\ streams' = [streams EXCEPT ![s] = streams'[s]]
            /\ xfer' \in [Xfers -> XferStates]
        BY <4>1, FinishCases
      <4> QED BY <2>1, <4>2 DEF rest
    <3>2. Unused \in SlotType
      BY SizesAssumption DEF Unused, SlotType
    <3>3. streams' \in [Slots -> SlotType]
      BY <3>1, <3>2 DEF IInv, Typed
    <3> QED BY <3>1, <3>3
  <2>2. CASE /\ stack' = Append(Append(Below, l), StopOf(s, "retire"))
             /\ streams' = [streams EXCEPT ![s] = st] /\ UNCHANGED xfer
    BY <1>3, <1>6, <2>2 DEF IInv, Typed
  <2> QED BY <1>7, <2>1, <2>2
<1>9. SlotsOK'
  <2>1. SlotOK(s)'
    BY <1>3, <1>5, <1>8, SlotFreed, SlotStopped
  <2> QED BY <1>8, <2>1, SlotSame DEF IInv, SlotsOK
<1> HIDE DEF st
<1>10. Quiet
  <2>1. SlotQuiet(s)
    BY <1>3, <1>6, <1>8 DEF SlotQuiet
  <2>2. \A t \in Slots : t # s => SlotQuiet(t)
    BY <1>8, SameQuiet DEF IInv, SlotsOK
  <2>3. \A x \in Xfers : xfer'[x] = "queued" => xfer[x] = "queued"
    BY <1>8, OfSlot
  <2> QED BY <2>1, <2>2, <2>3 DEF Quiet
<1>11. ~streams'[s].open /\ (streams'[s].used /\ gone => streams'[s].gone)
  BY <1>6, <1>8 DEF Unused
\* The loop that stays has passed the stream.
<1>12. stack'[n] = l /\ n \in Depth' /\ \A i \in 1..(n - 1) : i \in Depth' /\ stack'[i] = stack[i]
  <2>1. l \in Frames
    BY <1>4 DEF Frames
  <2>2. /\ Append(Below, l) \in Seq(Frames) /\ Len(Append(Below, l)) = n /\ Append(Below, l)[n] = l
        /\ \A i \in 1..(n - 1) : Append(Below, l)[i] = stack[i]
    BY <1>1, <2>1, ReplaceTop DEF IInv, Typed
  <2>3. CASE stack' = Append(Below, l)
    BY <1>1, <2>2, <2>3, PopStack DEF Depth, IInv, Typed
  <2>4. CASE stack' = Append(Append(Below, l), StopOf(s, "retire"))
    <3>1. StopOf(s, "retire") \in Frames
      BY <1>3 DEF StopOf, Frames, StopFrames
    <3>2. /\ Len(stack') = n + 1 /\ \A i \in 1..n : stack'[i] = Append(Below, l)[i]
      BY <2>2, <2>4, <3>1, PushStack
    <3>3. n \in Nat \ {0}
      BY <1>1, PopStack DEF IInv, Typed
    <3> QED BY <2>2, <3>2, <3>3 DEF Depth
  <2> QED BY <1>8, <2>3, <2>4
<1>13. FrameOK(n)'
  <2>1. ASSUME NEW t \in UsedSlots', t < s + 1, For(l, t)' PROVE ~streams'[t].open
    <3>1. CASE t = s
      BY <1>11, <3>1
    <3>2. CASE t # s
      <4>1. t \in UsedSlots /\ t \in Slots /\ streams'[t] = streams[t] /\ t < s
        BY <1>3, <1>8, <2>1, <3>2, SizesAssumption DEF UsedSlots, Slots
      <4>2. For(Top, t)
        BY <1>4, <2>1, <4>1 DEF For, Dev
      <4>3. CASE t < Top.next
        BY <1>1, <4>1, <4>2, <4>3 DEF LoopOK
      <4>4. CASE ~(t < Top.next)
        <5>1. t >= Top.next
          BY <1>1, <4>1, <4>4, SizesAssumption DEF LoopFrames, Slots
        <5>2. Top.op = "down" => \E d \in Devs : hub[d] # "absent"
          BY <1>2 DEF Meant
        <5>3. t \in Meant(Top)
          BY <4>1, <4>2, <5>1, <5>2 DEF Meant, For
        <5>4. s <= t
          BY <1>2, <5>3
        <5> QED BY <1>3, <4>1, <5>4, SizesAssumption DEF Slots
      <4> QED BY <4>3, <4>4
    <3> QED BY <3>1, <3>2
  <2>2. LoopOK(n)'
    <3>1. /\ l.op = "gone" => l.pipe \in Devs \X {None} /\ hub'[l.pipe[1]] = "closing"
          /\ l.op # "gone" => n = 1
          /\ l.op \in {"release", "close", "stopall"} => vm'.at = "call"
          /\ l.op = "down" => vm'.at = "down"
      BY <1>1, <1>4 DEF LoopOK
    <3>2. \A t \in UsedSlots' : t < l.next /\ For(l, t)' => ~streams'[t].open
      BY <1>4, <2>1
    <3> QED BY <1>12, <3>1, <3>2 DEF LoopOK, For, Dev
  <2> QED BY <1>1, <1>4, <1>12, <2>2 DEF FrameOK
<1>14. FramesOK' /\ stack' \in Seq(Frames)
  <2>1. l \in Frames
    BY <1>4 DEF Frames
  <2>2. CASE stack' = Append(Below, l)
    BY <1>1, <1>4, <1>10, <1>13, <2>1, <2>2, FramesReplaced DEF IInv
  <2>3. CASE stack' = Append(Append(Below, l), StopOf(s, "retire"))
    <3> DEFINE g == StopOf(s, "retire")
    <3>1. g \in StopFrames /\ g.op = "stop" /\ g.slot = s /\ g.at = "retire"
      BY <1>3 DEF StopOf, StopFrames
    <3> HIDE DEF g
    <3>2. n \in Nat \ {0} /\ Len(Append(Below, l)) = n /\ Append(Below, l) \in Seq(Frames)
      BY <1>1, <2>1, PopStack, ReplaceTop DEF IInv, Typed
    <3>3. stack'[n + 1] = g
      BY <2>3, <3>1, <3>2, PushStack DEF g, Frames
    <3>4. n + 1 > 1 /\ n + 1 - 1 = n
      BY <3>2
    <3>5. streams'[s].used => Dev(s)' = Dev(s)
      BY <1>3, <1>10, QuietUsed
    <3>6. StopOK(n + 1)'
      <4> PICK m : m = n + 1
        OBVIOUS
      <4>1. /\ stack'[m].slot = s /\ stack'[m].at = "retire"
            /\ stack'[m - 1] = l /\ m > 1 /\ ~streams'[s].open
        BY <1>11, <1>12, <3>1, <3>3, <3>4
      <4>2. l.op \in Loops /\ l.next = s + 1
        BY <1>1, <1>4
      <4>3. streams'[s].used /\ l.op = "gone" => streams'[s].pipe[1] = l.pipe[1]
        BY <1>g, <1>3, <1>4, <3>5 DEF Dev
      <4>4. StopOK(m)'
        BY <4>1, <4>2, <4>3 DEF StopOK, Dev
      <4> QED BY <4>4
    <3>7. FrameOK(n + 1)'
      BY <3>1, <3>3, <3>6 DEF FrameOK, Loops
    <3>8. stack' = Append(Append(Below, l), g)
      BY <2>3 DEF g
    <3> QED BY <1>1, <1>4, <1>10, <1>13, <2>1, <3>1, <3>7, <3>8, FramesStopped DEF IInv
  <2> QED BY <1>8, <2>2, <2>3
<1>15. Typed'
  BY <1>1, <1>8, <1>14 DEF IInv, Typed
<1>16. HubOK'
  <2>1. ASSUME NEW t \in Slots, GoneComes(t), streams'[t].used, ~streams'[t].gone PROVE GoneComes(t)'
    <3>1. Dev(t)' = Dev(t) /\ streams[t].used
      BY <1>10, <2>1, QuietUsed
    <3>2. PICK j \in Depth : stack[j].op = "gone" /\ stack[j].pipe[1] = Dev(t) /\ stack[j].next <= t
      BY <2>1 DEF GoneComes
    <3>3. CASE j # n
      <4>1. j \in Depth' /\ stack'[j] = stack[j]
        BY <1>1, <1>12, <3>3
      <4> QED BY <3>1, <3>2, <4>1 DEF GoneComes, Dev
    <3>4. CASE j = n
      <4>1. t \in Meant(Top)
        <5>1. Top.op = "gone" /\ Dev(t) = Top.pipe[1] /\ Top.next <= t
          BY <1>1, <3>2, <3>4
        <5>2. t >= Top.next
          BY <1>1, <5>1, SizesAssumption DEF LoopFrames, Slots
        <5>3. t \in UsedSlots
          BY <3>1 DEF UsedSlots
        <5> QED BY <5>1, <5>2, <5>3 DEF Meant
      <4>2. s <= t /\ t # s
        BY <1>g, <1>1, <1>2, <1>11, <2>1, <3>2, <3>4, <4>1
      <4>3. l.next <= t
        BY <1>3, <1>4, <4>2, SizesAssumption DEF Slots
      <4>4. stack'[n].op = "gone" /\ stack'[n].pipe[1] = Dev(t) /\ stack'[n].next <= t
        BY <1>1, <1>4, <1>12, <3>2, <3>4, <4>3
      <4> QED BY <1>12, <3>1, <4>4 DEF GoneComes, Dev
    <3> QED BY <3>3, <3>4
  <2> QED BY <1>1, <1>9, <1>10, <2>1, HubKept DEF IInv
<1>17. RootsOK'
  BY <1>1, <1>10, RootsKept DEF IInv
<1>18. PromptOK'
  <2>1. streams'[s].used => \E i \in Depth' : stack'[i].op = "stop" /\ stack'[i].slot = s
    <3> SUFFICES ASSUME stack' = Append(Append(Below, l), StopOf(s, "retire"))
                 PROVE  \E i \in Depth' : stack'[i].op = "stop" /\ stack'[i].slot = s
      BY <1>8 DEF Unused
    <3> DEFINE g == StopOf(s, "retire")
    <3>1. g \in Frames /\ g.op = "stop" /\ g.slot = s
      BY <1>3 DEF StopOf, StopFrames, Frames
    <3> HIDE DEF g
    <3>2. l \in Frames
      BY <1>4 DEF Frames
    <3>3. n \in Nat \ {0} /\ Len(Append(Below, l)) = n /\ Append(Below, l) \in Seq(Frames)
      BY <1>1, <3>2, PopStack, ReplaceTop DEF IInv, Typed
    <3>4. stack'[n + 1] = g /\ Len(stack') = n + 1
      BY <3>1, <3>3, PushStack DEF g
    <3>5. n + 1 \in Depth'
      BY <3>3, <3>4 DEF Depth
    <3> QED BY <3>1, <3>4, <3>5
  <2>2. \A t \in Slots : streams'[t].used =>
          \/ streams'[t].open = streams[t].open
          \/ \E i \in Depth' : stack'[i].op = "stop" /\ stack'[i].slot = t
    BY <1>8, <2>1
  <2>3. \A i \in Depth : stack[i].op = "stop" =>
          \E j \in Depth' : stack'[j].op = "stop" /\ stack'[j].slot = stack[i].slot
    BY <1>1, <1>12
  <2> QED BY <1>1, <1>10, <2>2, <2>3, PromptKept DEF IInv
<1> QED BY <1>9, <1>14, <1>15, <1>16, <1>17, <1>18 DEF IInv

\* A loop ends: what it was for no longer streams, so the device is closed.
LEMMA LoopEndsKeeps == ASSUME IInv, LoopEnds PROVE IInv'
<1> PICK n : n = Len(stack)
  OBVIOUS
<1>1. /\ Busy /\ Top.op \in Loops /\ Top \in LoopFrames /\ Top = stack[n] /\ n \in Depth
      /\ LoopOK(n) /\ stack[n].op # "stop"
      /\ \A i \in Depth : i \in 1..(n - 1) \/ i = n
      /\ \A i \in 1..(n - 1) : i \in Depth
      /\ \A i \in Depth : stack[i].op = "gone" =>
           stack[i].pipe[1] \in Devs /\ hub[stack[i].pipe[1]] = "closing"
  BY TopFrame, FrameKinds DEF LoopEnds, FrameOK
<1>2. /\ stack' = Below /\ Meant(Top) = {} /\ UNCHANGED <<streams, xfer, rooted, prompt>>
      /\ hub' = CASE Top.op = "gone" -> [hub EXCEPT ![Top.pipe[1]] = "absent"]
                  [] Top.op = "down" -> [d \in Devs |-> "absent"]
                  [] OTHER -> hub
      /\ vm' = CASE Top.op \in {"close", "down"} -> [at |-> "roots"]
                 [] Top.op = "stopall" -> [at |-> "down"]
                 [] Top.op = "release" -> [at |-> "idle"]
                 [] OTHER -> vm
      /\ wedged' = (wedged \/ (Top.op = "down" /\ UsedSlots # {}))
  BY DEF LoopEnds
<1>3. Quiet /\ SlotsOK'
  BY <1>2, StreamsSame DEF IInv
<1>4. \A i \in 1..(n - 1) : i \in Depth' /\ stack'[i] = stack[i]
  BY <1>1, <1>2, PopStack DEF IInv, Typed, Depth
<1>5. Top.op # "gone" => n = 1 /\ ~\E i \in 1..(n - 1) : TRUE
  BY <1>1 DEF LoopOK
<1>6. \A s \in UsedSlots : s \in Slots /\ Dev(s) \in Devs
  BY DEF UsedSlots, IInv, SlotsOK, SlotOK, Dev, Pipes
\* What the loop was for does not stream.
<1>7. ASSUME NEW s \in UsedSlots, For(Top, s),
             Top.op = "down" => \E d \in Devs : hub[d] # "absent"
      PROVE  ~streams[s].open /\ s < Top.next
  <2>1. ~(s >= Top.next)
    BY <1>2, <1>7 DEF Meant, For
  <2>2. s < Top.next
    BY <1>1, <1>6, <2>1, SizesAssumption DEF LoopFrames, Slots
  <2> QED BY <1>1, <1>7, <2>2 DEF LoopOK
<1>8. Top.op = "down" => \A s \in UsedSlots : ~streams[s].open
  <2> SUFFICES ASSUME Top.op = "down", NEW s \in UsedSlots, streams[s].open PROVE FALSE
    OBVIOUS
  <2>1. hub[Dev(s)] # "absent"
    BY DEF IInv, HubOK, GoneClosesStreams
  <2>2. For(Top, s)
    BY DEF For
  <2> QED BY <1>6, <1>7, <2>1, <2>2
\* A prompt library leaves no slot behind.
<1>9. prompt /\ Top.op = "down" => UsedSlots = {}
  <2> SUFFICES ASSUME prompt, Top.op = "down", NEW s \in UsedSlots PROVE FALSE
    OBVIOUS
  <2>1. \E i \in Depth : stack[i].op = "stop"
    BY <1>8 DEF IInv, PromptOK
  <2> QED BY <1>1, <1>5, <2>1
<1>10. \A i \in 1..(n - 1) : stack[i].op = "gone" => hub'[stack[i].pipe[1]] = "closing"
  <2> SUFFICES ASSUME NEW i \in 1..(n - 1), stack[i].op = "gone"
               PROVE  hub'[stack[i].pipe[1]] = "closing"
    OBVIOUS
  <2>1. Top.op = "gone" /\ i # n /\ i \in Depth
    BY <1>1, <1>5
  <2>2. stack[i].pipe[1] # Top.pipe[1]
    BY <1>1, <2>1 DEF IInv, FramesOK, GoneApart
  <2>3. hub' = [hub EXCEPT ![Top.pipe[1]] = "absent"]
    BY <1>2, <2>1
  <2> QED BY <1>1, <2>1, <2>2, <2>3 DEF IInv, Typed
<1>11. n > 1 => vm' = vm
  <2> SUFFICES ASSUME n > 1 PROVE vm' = vm
    OBVIOUS
  <2>1. Top.op = "gone"
    BY <1>1, <1>5
  <2> QED BY <1>2, <2>1
<1>12. FramesOK' /\ stack' \in Seq(Frames)
  BY <1>1, <1>2, <1>3, <1>10, <1>11, FramesPopped DEF IInv
<1>13. Typed'
  <2>1. hub' \in [Devs -> {"absent", "open", "leaving", "closing"}]
    BY <1>2 DEF IInv, Typed
  <2>2. vm' \in [at : {"idle", "call", "roots", "down"}] \cup [at : {"opened"}, slot : Slots]
    BY <1>2 DEF IInv, Typed
  <2>3. wedged' \in BOOLEAN
    BY <1>2 DEF IInv, Typed
  <2> QED BY <1>2, <1>12, <2>1, <2>2, <2>3 DEF IInv, Typed
<1>14. ASSUME NEW s \in Slots, streams[s].used, GoneComes(s), Top.op = "gone" => Dev(s) # Top.pipe[1]
       PROVE  GoneComes(s)'
  <2>1. PICK j \in Depth : stack[j].op = "gone" /\ stack[j].pipe[1] = Dev(s) /\ stack[j].next <= s
    BY <1>14 DEF GoneComes
  <2>2. j # n
    BY <1>1, <1>14, <2>1
  <2>3. j \in Depth' /\ stack'[j] = stack[j]
    BY <1>1, <1>4, <2>2
  <2> QED BY <1>2, <2>1, <2>3 DEF GoneComes, Dev
<1>15. HubOK'
  <2>1. CASE Top.op = "gone"
    <3> PICK d : d = Top.pipe[1]
      OBVIOUS
    <3>1. /\ d \in Devs /\ hub[d] = "closing" /\ ~wedged /\ ~wedged'
          /\ \A c \in Devs : hub'[c] = IF c = d THEN "absent" ELSE hub[c]
      BY <1>1, <1>2, <2>1 DEF IInv, Typed, HubOK, WedgedDown
    <3>2. GoneClosesStreams'
      <4>1. ASSUME NEW s \in UsedSlots, streams[s].open PROVE hub'[Dev(s)] # "absent"
        <5>1. Dev(s) # d
          BY <1>7, <2>1, <4>1 DEF For
        <5> QED BY <1>6, <3>1, <4>1, <5>1 DEF IInv, HubOK, GoneClosesStreams
      <4> QED BY <1>2, <4>1 DEF GoneClosesStreams, UsedSlots, Dev
    <3>3. QueuedAttached'
      <4>1. ASSUME NEW x \in Xfers, xfer[x] = "queued" PROVE hub'[Dev(x[1])] = "open"
        <5>1. hub[Dev(x[1])] = "open"
          BY <3>1, <4>1 DEF IInv, HubOK, QueuedAttached
        <5>2. x[1] \in UsedSlots
          BY <4>1, OfSlot DEF UsedSlots, IInv, SlotsOK, SlotOK
        <5> QED BY <1>6, <3>1, <5>1, <5>2
      <4> QED BY <1>2, <4>1 DEF QueuedAttached, Dev
    <3>4. Attached'
      <4>1. ASSUME NEW s \in UsedSlots, ~streams[s].gone
            PROVE  hub'[Dev(s)] \in {"open", "leaving"} \/ GoneComes(s)'
        <5>1. Dev(s) # d
          <6> SUFFICES ASSUME Dev(s) = d PROVE FALSE
            OBVIOUS
          <6>1. s < Top.next
            BY <1>7, <2>1 DEF For
          <6>2. PICK j \in Depth : stack[j].op = "gone" /\ stack[j].pipe[1] = d /\ stack[j].next <= s
            BY <3>1, <4>1 DEF IInv, HubOK, Attached, GoneComes
          <6>3. j = n
            BY <1>1, <2>1, <6>2 DEF IInv, FramesOK, GoneApart
          <6> QED BY <1>1, <1>6, <6>1, <6>2, <6>3, SizesAssumption DEF LoopFrames, Slots
        <5>2. hub[Dev(s)] \in {"open", "leaving"} \/ GoneComes(s)
          BY <3>1, <4>1 DEF IInv, HubOK, Attached
        <5>3. GoneComes(s) => GoneComes(s)'
          BY <1>6, <1>14, <5>1 DEF UsedSlots
        <5> QED BY <1>6, <3>1, <5>1, <5>2, <5>3
      <4> QED BY <1>2, <4>1 DEF Attached, UsedSlots, Dev
    <3>5. WedgedDown'
      BY <3>1 DEF WedgedDown
    <3> QED BY <3>2, <3>3, <3>4, <3>5 DEF HubOK
  <2>2. CASE Top.op = "down"
    <3>1. /\ \A d \in Devs : hub'[d] = "absent"
          /\ UsedSlots # {} => wedged'
          /\ UsedSlots' = UsedSlots
      BY <1>2, <2>2 DEF UsedSlots
    <3>2. GoneClosesStreams'
      BY <1>2, <1>8, <2>2, <3>1 DEF GoneClosesStreams
    <3>3. QueuedAttached'
      <4>1. ASSUME NEW x \in Xfers, xfer[x] = "queued" PROVE wedged'
        <5>1. x[1] \in UsedSlots
          BY <4>1, OfSlot DEF UsedSlots, IInv, SlotsOK, SlotOK
        <5> QED BY <3>1, <5>1
      <4> QED BY <1>2, <4>1 DEF QueuedAttached
    <3>4. Attached'
      BY <3>1 DEF Attached
    <3>5. WedgedDown'
      BY <3>1 DEF WedgedDown
    <3> QED BY <3>2, <3>3, <3>4, <3>5 DEF HubOK
  <2>3. CASE Top.op \notin {"gone", "down"}
    <3>1. hub' = hub /\ wedged' = wedged
      BY <1>2, <2>3 DEF IInv, Typed
    <3>2. \A s \in Slots : GoneComes(s) /\ streams'[s].used => GoneComes(s)'
      BY <1>2, <1>14, <2>3
    <3> QED BY <1>3, <3>1, <3>2, HubKept DEF IInv
  <2> QED BY <2>1, <2>2, <2>3
<1>16. RootsOK'
  <2>1. vm.at = "opened" => vm' = vm
    <3> SUFFICES ASSUME vm.at = "opened" PROVE vm' = vm
      OBVIOUS
    <3>1. Top.op = "gone"
      BY <1>1 DEF LoopOK, Loops
    <3> QED BY <1>2, <3>1
  <2> QED BY <1>2, <1>3, <2>1, RootsKept DEF IInv
<1>17. PromptOK'
  <2> SUFFICES ASSUME prompt PROVE PromptOK'
    BY <1>2 DEF PromptOK
  <2>1. ~wedged'
    BY <1>2, <1>9 DEF IInv, PromptOK
  <2>2. wedged' = wedged
    BY <2>1, <1>2 DEF IInv, PromptOK, Typed
  <2>3. \A i \in Depth : stack[i].op = "stop" => i \in Depth' /\ stack'[i] = stack[i]
    BY <1>1, <1>4
  <2> QED BY <1>2, <1>3, <2>2, <2>3, PromptKept DEF IInv
<1> QED BY <1>3, <1>12, <1>13, <1>15, <1>16, <1>17 DEF IInv

----------------------------------------------------------------------------
(* The theorems.                                                           *)

\* At first nothing is open and no call is in progress.
LEMMA InitIInv == Init => IInv
<1> SUFFICES ASSUME Init PROVE IInv
  OBVIOUS
<1>1. Depth = {} /\ stack \in Seq(Frames)
  BY EmptySeq DEF Init, Depth
<1>2. Unused \in SlotType /\ ~Unused.used /\ ~Unused.open /\ ~Unused.gone /\ Unused.inflight = 0
  BY SizesAssumption DEF Unused, SlotType
<1>3. Typed
  BY <1>1, <1>2 DEF Init, Typed, XferStates
<1>4. \A x \in Xfers : xfer[x] = "free"
  BY DEF Init
<1>5. ASSUME NEW s \in Slots PROVE SlotOK(s)
  <2>1. Held(s) = {} /\ \A x \in Of(s) : xfer[x] = "free"
    BY <1>4 DEF Held, InLibrary, Of
  <2>2. streams[s] = Unused
    BY DEF Init
  <2> QED BY <1>2, <2>1, <2>2, HeldFinite DEF SlotOK
<1>6. UsedSlots = {} /\ ~wedged
  BY <1>2 DEF Init, UsedSlots
<1>7. FramesOK
  BY <1>1 DEF FramesOK, GoneApart
<1>8. HubOK
  BY <1>4, <1>6 DEF HubOK, GoneClosesStreams, QueuedAttached, Attached, WedgedDown
<1> QED BY <1>3, <1>5, <1>6, <1>7, <1>8 DEF IInv, SlotsOK, RootsOK, PromptOK

\* Every step keeps the invariant, one lemma for each action.
LEMMA NextIInv == IInv /\ [Next]_vars => IInv'
<1> SUFFICES ASSUME IInv, [Next]_vars PROVE IInv'
  OBVIOUS
<1>1. ASSUME NEW x \in Xfers, Complete(x) \/ Callback(x) PROVE IInv'
  BY <1>1, CompleteKeeps, CallbackKeeps
<1>2. ASSUME NEW d \in Devs, Unplug(d) \/ NewDev(d) \/ GoneBegin(d) PROVE IInv'
  BY <1>2, UnplugKeeps, NewDevKeeps, GoneBeginKeeps
<1>3. CASE StackGoesOn
  BY <1>3, RetireEndsKeeps, HaltEndsKeeps, LoopStopKeeps, LoopEndsKeeps DEF StackGoesOn
<1>4. ASSUME NEW q \in Pipes, Release(q) PROVE IInv'
  BY <1>4, CallKeeps DEF Release, Calls, Push
<1>5. ASSUME NEW q \in Pipes, Close(q) \/ Open(q) PROVE IInv'
  BY <1>5, CloseKeeps, OpenKeeps
<1>6. CASE Opened \/ Roots
  BY <1>6, OpenedKeeps, RootsKeeps
<1>7. CASE HostStop
  BY <1>7, CallKeeps DEF HostStop, Calls, Push
<1>8. CASE TearDown
  BY <1>8, CallKeeps DEF TearDown, Push
<1>9. CASE UNCHANGED vars
  <2>1. Quiet /\ SlotsOK' /\ Typed'
    BY <1>9, StreamsSame DEF vars, IInv, Typed
  <2>2. \A s \in Slots : streams'[s].open = streams[s].open
    BY <1>9 DEF vars
  <2> QED BY <1>9, <2>1, <2>2, BusKeeps DEF vars, Typed
<1> QED BY <1>1, <1>2, <1>3, <1>4, <1>5, <1>6, <1>7, <1>8, <1>9 DEF Next

\* The discipline of the stack, the counters and the roots holds always.
THEOREM Invariance == Spec => []IInv
BY InitIInv, NextIInv, PTL DEF Spec

\* The invariant implies what the run checks.
LEMMA IInvConsistent == IInv => Consistent
<1> SUFFICES ASSUME IInv PROVE Consistent
  OBVIOUS
<1>1. TypeOK
  <2>1. \A i \in 1..Len(stack) : stack[i].op \in Loops \cup {"stop"}
    BY ElementOfSeq, FrameKinds DEF IInv, Typed
  <2> QED BY <2>1 DEF TypeOK, IInv, Typed, SlotType, XferStates
<1>2. InflightExact
  BY DEF InflightExact, IInv, SlotsOK, SlotOK, Held
<1>3. LossIsCounted
  BY DEF LossIsCounted, IInv, SlotsOK, SlotOK, UsedSlots
<1>4. RingRooted
  BY DEF RingRooted, Idle, IInv, RootsOK
<1>5. SlotsComeBack
  BY EmptySeq DEF SlotsComeBack, Busy, IInv, PromptOK, Depth
<1> QED BY <1>1, <1>2, <1>3, <1>4, <1>5 DEF Consistent, IInv, HubOK

\* For any number of devices, slots and transfers: a stop may free on the
\* counter, a closed device has no stream that submits, a lost transfer is
\* counted, the rings in use are rooted, and with a library that delivers within
\* the waits no slot is left behind (usbif_host_stream.c).
THEOREM StreamsConsistent == Spec => []Consistent
BY Invariance, IInvConsistent, PTL

----------------------------------------------------------------------------
(* What a stop does to the library.                                        *)

\* The transfers of a slot whose counter is down are with their stream.
LEMMA CountedOut ==
  ASSUME IInv, NEW s \in Slots, streams[s].inflight = 0
  PROVE  \A x \in Of(s) : ~InLibrary(x)
<1>1. Held(s) = {}
  BY HeldFinite DEF IInv, SlotsOK, SlotOK
<1> QED BY <1>1 DEF Held

\* So a stop that ends frees nothing that is out.
LEMMA FinishFrees ==
  ASSUME IInv, NEW s \in Slots, NEW st, NEW rest, Finish(s, st, rest),
         st.inflight = streams[s].inflight
  PROVE  \A x \in Xfers : InLibrary(x) => xfer'[x] # "free"
<1> SUFFICES ASSUME NEW x \in Xfers, InLibrary(x) PROVE xfer'[x] # "free"
  OBVIOUS
<1>1. st.inflight = 0 => x[1] # s
  BY CountedOut DEF Of
<1>2. xfer'[x] = xfer[x]
  BY <1>1 DEF Finish, IInv, Typed
<1> QED BY <1>2 DEF InLibrary

\* Whatever is freed is back: nothing but the end of a stop frees.
LEMMA NextFrees ==
  ASSUME IInv, [Next]_vars
  PROVE  \A x \in Xfers : InLibrary(x) => xfer'[x] # "free"
<1> DEFINE Goal == \A x \in Xfers : InLibrary(x) => xfer'[x] # "free"
<1>1. ASSUME NEW x \in Xfers, Complete(x) \/ Callback(x) PROVE Goal
  <2>1. \E a \in {"done", "caller", "queued"} : xfer' = [xfer EXCEPT ![x] = a]
    BY <1>1 DEF Complete, Callback
  <2> QED BY <2>1 DEF IInv, Typed, InLibrary
<1>2. ASSUME NEW d \in Devs, Unplug(d) PROVE Goal
  BY <1>2 DEF Unplug, InLibrary
<1>3. CASE xfer' = xfer
  BY <1>3 DEF InLibrary
<1>4. CASE RetireEnds
  <2> PICK s : s = Top.slot
    OBVIOUS
  <2>1. s \in Slots
    BY <1>4, TopFrame, FrameKinds DEF RetireEnds, TopIs, StopFrames
  <2>2. CASE streams[s].inflight = 0
    BY <1>4, <2>1, <2>2, FinishFrees DEF RetireEnds
  <2>3. CASE streams[s].inflight # 0
    <3>1. \/ xfer' = xfer
          \/ xfer' = [x \in Xfers |->
               IF x[1] = s /\ xfer[x] = "queued" THEN "done" ELSE xfer[x]]
      BY <1>4, <2>3 DEF RetireEnds
    <3> QED BY <1>3, <3>1 DEF InLibrary
  <2> QED BY <2>2, <2>3
<1>5. CASE HaltEnds
  <2>1. Top.slot \in Slots
    BY <1>5, TopFrame, FrameKinds DEF HaltEnds, TopIs, StopFrames
  <2> QED BY <1>5, <2>1, FinishFrees DEF HaltEnds
<1>6. CASE LoopStop
  <2>1. PICK s \in Slots : StopBegin(s, Top.op = "gone", Append(Below, [Top EXCEPT !.next = s + 1]))
    BY <1>6 DEF LoopStop, Meant, UsedSlots
  <2> DEFINE st == [streams[s] EXCEPT !.open = FALSE, !.gone = @ \/ (Top.op = "gone")]
  <2>2. st.inflight = streams[s].inflight
    BY DEF IInv, Typed, SlotType
  <2>3. CASE xfer' = xfer
    BY <1>3, <2>3
  <2>4. CASE Finish(s, st, Append(Below, [Top EXCEPT !.next = s + 1]))
    <3> HIDE DEF st
    <3> QED BY <2>2, <2>4, FinishFrees
  <2> QED BY <2>1, <2>3, <2>4 DEF StopBegin
<1>7. ASSUME NEW q \in Pipes, Open(q) PROVE Goal
  <2>1. PICK s \in Slots \ UsedSlots, k \in MinXfer..NumXfer : \E ok \in SUBSET (1..k) \ {{}} :
          xfer' = [x \in Xfers |->
            IF x[1] # s \/ x[2] > k THEN xfer[x] ELSE IF x[2] \in ok THEN "queued" ELSE "caller"]
    BY <1>7 DEF Open
  <2> QED BY <2>1 DEF InLibrary
<1>8. ASSUME NEW d \in Devs, NewDev(d) \/ GoneBegin(d) PROVE Goal
  BY <1>3, <1>8 DEF NewDev, GoneBegin
<1>9. ASSUME NEW q \in Pipes, Release(q) \/ Close(q) PROVE Goal
  BY <1>3, <1>9 DEF Release, Close
<1>10. CASE LoopEnds \/ Opened \/ Roots \/ HostStop \/ TearDown \/ UNCHANGED vars
  BY <1>3, <1>10 DEF LoopEnds, Opened, Roots, HostStop, TearDown, vars
<1> QED BY <1>1, <1>2, <1>4, <1>5, <1>6, <1>7, <1>8, <1>9, <1>10 DEF Next, StackGoesOn

\* With one call below the top, the stack has two.
LEMMA TwoDeep == \A n \in Nat : \A j \in 1..n : n - 1 = 1 => j = n \/ j = n - 1
OBVIOUS

\* A stop whose first wait is over and whose stream was not told that its device
\* is gone finds the device there, or about to go: the loop that began the stop
\* is right below, and no other loop is for the device.
LEMMA NotGoneAttached ==
  ASSUME IInv, ~wedged, TopIs("stop"), streams[Top.slot].inflight # 0,
         ~streams[Top.slot].gone
  PROVE  hub[Dev(Top.slot)] \in {"open", "leaving"}
<1> PICK n : n = Len(stack)
  OBVIOUS
<1> PICK s : s = Top.slot
  OBVIOUS
<1>1. /\ Busy /\ s \in Slots /\ stack[n].op = "stop" /\ stack[n].slot = s /\ Top = stack[n]
      /\ FrameOK(n) /\ n \in Depth
  BY TopFrame, FrameKinds DEF TopIs, StopFrames
<1>2. StopOK(n) /\ n - 1 \in Depth /\ n \in Nat
  BY <1>1 DEF FrameOK, StopOK, Depth, IInv, Typed
<1>3. s \in UsedSlots
  BY <1>1 DEF IInv, SlotsOK, SlotOK, Unused, UsedSlots
<1>4. ~GoneComes(s)
  <2> SUFFICES ASSUME NEW j \in Depth, stack[j].op = "gone", stack[j].pipe[1] = Dev(s),
                      stack[j].next <= s
               PROVE  FALSE
    BY DEF GoneComes
  <2>1. CASE stack[n - 1].op = "gone"
    <3>1. Dev(s) = stack[n - 1].pipe[1] /\ stack[n - 1].next = s + 1
      BY <1>1, <1>2, <1>3, <2>1 DEF StopOK, UsedSlots
    <3>2. j = n - 1
      BY <1>2, <2>1, <3>1 DEF IInv, FramesOK, GoneApart
    <3>3. s + 1 > s
      BY <1>1 DEF Slots
    <3> QED BY <1>1, <3>1, <3>2, <3>3 DEF Slots
  <2>2. CASE stack[n - 1].op # "gone"
    <3>1. FrameOK(n - 1) /\ stack[n - 1].op \in Loops
      BY <1>1, <1>2 DEF IInv, FramesOK, StopOK
    <3>2. n - 1 = 1
      BY <2>2, <3>1 DEF FrameOK, LoopOK
    <3>3. j \in 1..n
      BY DEF Depth
    <3>4. j = n \/ j = n - 1
      BY <1>2, <3>2, <3>3, TwoDeep, Zenon
    <3> QED BY <1>1, <2>2, <3>4
  <2> QED BY <2>1, <2>2
<1> QED BY <1>1, <1>3, <1>4 DEF IInv, HubOK, Attached

FreesReturned == \A x \in Xfers : InLibrary(x) => xfer'[x] # "free"
HaltsThere ==
  ~wedged => \A i \in DOMAIN stack : TopIs("stop") /\ i = Len(stack) /\ Top.at = "retire"
        /\ i \in DOMAIN stack' /\ stack'[i].op = "stop" /\ stack'[i].at = "halt"
          => hub[Dev(Top.slot)] \in {"open", "leaving"}

\* Only the end of a first wait puts a halt in its place.
LEMMA NextHalts == ASSUME IInv, [Next]_vars PROVE HaltsThere
<1> PICK n : n = Len(stack)
  OBVIOUS
<1> SUFFICES ASSUME ~wedged, TopIs("stop"), Top.at = "retire", n \in DOMAIN stack,
                    n \in DOMAIN stack', stack'[n].op = "stop", stack'[n].at = "halt"
             PROVE  hub[Dev(Top.slot)] \in {"open", "leaving"}
  BY Zenon DEF HaltsThere
<1>1. Top = stack[n] /\ stack \in Seq(Frames) /\ Busy /\ n \in Nat /\ n \in 1..Len(stack)
  BY PopStack DEF Top, IInv, Typed, TopIs
<1>2. stack' # stack
  BY <1>1
<1>3. ASSUME NEW f, f \in Frames, stack' = Append(stack, f) PROVE FALSE
  <2>1. stack'[n] = stack[n]
    BY <1>1, <1>3
  <2> QED BY <1>1, <2>1
<1>4. stack' # Below
  <2>1. Below \in Seq(Frames) /\ Len(Below) = n - 1
    BY <1>1, PopStack
  <2>2. stack' = Below => n \in 1..(n - 1)
    BY <2>1, Zenon, LenProperties
  <2> QED BY <1>1, <2>2
<1>5. CASE RetireEnds
  <2>1. CASE streams[Top.slot].inflight = 0
    BY <1>4, <1>5, <2>1 DEF RetireEnds, Finish
  <2>2. CASE streams[Top.slot].inflight # 0 /\ streams[Top.slot].gone
    <3>1. stack' = Append(Below, StopOf(Top.slot, "again"))
      BY <1>5, <2>2 DEF RetireEnds
    <3>2. Below \in Seq(Frames) /\ Len(Below) = n - 1
      BY <1>1, PopStack
    <3>3. stack'[n] = StopOf(Top.slot, "again")
      BY <1>1, <3>1, <3>2
    <3> QED BY <3>3 DEF StopOf
  <2> QED BY <2>1, <2>2, NotGoneAttached
<1>6. CASE LoopStop \/ LoopEnds \/ HaltEnds
  <2>1. Top.op # "stop" \/ Top.at # "retire"
    BY <1>6 DEF LoopStop, LoopEnds, HaltEnds, Loops
  <2> QED BY <2>1 DEF TopIs
<1>7. ASSUME NEW d \in Devs, GoneBegin(d) PROVE FALSE
  <2>1. stack' = Append(stack, Loop("gone", <<d, None>>))
    BY <1>7 DEF GoneBegin, Push
  <2>2. Loop("gone", <<d, None>>) \in Frames
    BY SizesAssumption DEF Loop, Frames, LoopFrames, Loops
  <2> QED BY <1>3, <2>1, <2>2
<1>8. ASSUME NEW q \in Pipes, Release(q) \/ Close(q) \/ Open(q) PROVE FALSE
  <2>1. ~Busy \/ stack' = stack
    BY <1>8 DEF Release, Close, Open
  <2> QED BY <1>1, <1>2, <2>1
<1>9. ASSUME NEW d \in Devs, Unplug(d) \/ NewDev(d) PROVE FALSE
  BY <1>2, <1>9 DEF Unplug, NewDev
<1>10. ASSUME NEW x \in Xfers, Complete(x) \/ Callback(x) PROVE FALSE
  BY <1>2, <1>10 DEF Complete, Callback
<1>11. CASE Opened \/ Roots \/ HostStop \/ TearDown \/ UNCHANGED vars
  BY <1>1, <1>2, <1>11 DEF Opened, Roots, HostStop, TearDown, vars
<1> QED BY <1>5, <1>6, <1>7, <1>8, <1>9, <1>10, <1>11 DEF Next, StackGoesOn

\* For any number of devices, slots and transfers, and however the stops are
\* nested: a stop frees no transfer the library still holds, and halts no endpoint
\* of a device that is closed (usbif_stream_stop_locked).
THEOREM StopsAreSafe == Spec => StopIsSafe
<1>1. IInv /\ [Next]_vars => [FreesReturned]_vars
  BY NextFrees DEF FreesReturned
<1>2. IInv /\ [Next]_vars => [HaltsThere]_vars
  BY NextHalts
<1>3. NothingFreedInLibrary <=> [][FreesReturned]_vars
  BY PTL DEF NothingFreedInLibrary, FreesReturned
<1>4. HaltsAttached <=> [][HaltsThere]_vars
  BY PTL DEF HaltsAttached, HaltsThere
<1> QED BY Invariance, <1>1, <1>2, <1>3, <1>4, PTL DEF Spec, StopIsSafe
=============================================================================
