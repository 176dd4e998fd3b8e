--------------------------- MODULE SinkContract ---------------------------
(***************************************************************************)
(* What usbif promises of a playback ring that producers on any task write *)
(* to while its owner may close and free it: the "guarantee" paragraph of  *)
(* src/src/shared/usbif_pcm_sink.h and points 1 to 4 of the contract in    *)
(* src/src/pcm_c_sink.h.  No counters, try-locks or indices: a caller is   *)
(* inside the ring or not, the ring's storage is held or not, and the ring *)
(* is a queue of bytes.                                                    *)
(***************************************************************************)
EXTENDS Naturals, Sequences, FiniteSets

CONSTANTS
  Callers,      \* the tasks that may write, the interpreter among them
  Size          \* the bytes the ring holds

VARIABLES
  stream,       \* the generation of the open stream, 0 while closed
  past,         \* every generation handed out so far
  inside,       \* [Callers -> generation the caller is inside under, or 0]
  held,         \* the ring's storage exists
  frame,        \* bytes in a frame of this stream
  queue         \* the bytes in the ring, oldest first

vars == <<stream, past, inside, held, frame, queue>>

\* Some bytes of one caller in whole frames: part k of a frame is the pair
\* <<caller, k>>, so a frame shared by two callers, cut short or shifted is
\* told from a whole one.
WholeFramesOf(c, n) == [i \in 1..n |-> <<c, (i - 1) % frame>>]

Init ==
  /\ stream = 0 /\ past = {}
  /\ inside = [c \in Callers |-> 0]
  /\ held = FALSE /\ frame = 1 /\ queue = <<>>

\* A fresh ring is put behind the closed gate.
Hold ==
  /\ stream = 0 /\ held' = TRUE /\ queue' = <<>> /\ frame' \in 1..Size
  /\ \A c \in Callers : inside[c] = 0
  /\ UNCHANGED <<stream, past, inside>>

\* A stream's generation is one no earlier stream had.
Open ==
  /\ held /\ stream = 0
  /\ stream' \in Nat \ (past \cup {0})
  /\ past' = past \cup {stream'}
  /\ UNCHANGED <<inside, held, frame, queue>>

\* A caller gets inside only under the generation that is open now.
Enter(c) ==
  /\ inside[c] = 0 /\ stream # 0
  /\ inside' = [inside EXCEPT ![c] = stream]
  /\ UNCHANGED <<stream, past, held, frame, queue>>

\* A caller inside adds whole frames of its own, all or none of them.
Write(c) ==
  /\ inside[c] # 0
  /\ \E n \in 1..Size :
       /\ n % frame = 0 /\ Len(queue) + n <= Size
       /\ queue' = queue \o WholeFramesOf(c, n)
  /\ UNCHANGED <<stream, past, inside, held, frame>>

Leave(c) ==
  /\ inside[c] # 0
  /\ inside' = [inside EXCEPT ![c] = 0]
  /\ UNCHANGED <<stream, past, held, frame, queue>>

\* The bus takes the oldest bytes, in whole frames.
Take ==
  /\ \E n \in 1..Len(queue) :
       n % frame = 0 /\ queue' = SubSeq(queue, n + 1, Len(queue))
  /\ UNCHANGED <<stream, past, inside, held, frame>>

CloseGate == stream' = 0 /\ UNCHANGED <<past, inside, held, frame, queue>>

\* The storage goes only when nobody is inside it.
Free ==
  /\ stream = 0 /\ held /\ \A c \in Callers : inside[c] = 0
  /\ held' = FALSE /\ queue' = <<>>
  /\ UNCHANGED <<stream, past, inside, frame>>

Next ==
  \/ Hold \/ Open \/ Take \/ CloseGate \/ Free
  \/ \E c \in Callers : Enter(c) \/ Write(c) \/ Leave(c)

Spec == Init /\ [][Next]_vars
===========================================================================
