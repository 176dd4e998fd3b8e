------------------------------ MODULE UvcModes ------------------------------
(***************************************************************************)
(* What a camera offers and what a host makes of it: the descriptors of    *)
(* CameraInterface (usb/device/video.py) and of a webcam of the trade, the *)
(* walks of _uvc.py over them, and the order in which Camera._negotiate    *)
(* (usb/host/video.py) proposes modes.                                     *)
(*                                                                         *)
(* A picture's size is a number, so max_size is one too; a frame interval  *)
(* is the rate it stands for.                                              *)
(***************************************************************************)
EXTENDS UsbDesc, SequencesExt

CONSTANTS
  Sizes,        \* CameraInterface's sizes, largest first
  Packet        \* its isochronous packet

\* Class-specific descriptors, by subtype: the subtypes of a video control
\* interface's units are those of a streaming interface's formats and frames.
Cs(sub, index) == [is |-> "cs", sub |-> sub, index |-> index, size |-> 0, rates |-> {}]
FrameDesc(sub, index, size, rates) == [Cs(sub, index) EXCEPT !.size = size, !.rates = rates]
IsocIn(packet) == [is |-> "ep", addr |-> [n |-> 1, in |-> TRUE], kind |-> "isoc",
                   packet |-> packet]
FormatSubs == {4, 6, 16}
FrameSubs == {5, 7}
Encoding(sub) == CASE sub = 6 -> "mjpeg" [] sub = 4 -> "yuy2" [] OTHER -> "frame-based"

\* CameraInterface.desc_cfg: one format, one rate, a frame descriptor for each size.
DescCfg(enc) ==
  <<Itf(0, 0, "vc"), Cs(1, 0), Cs(2, 0), Cs(3, 0), Itf(1, 0, "vs"), Cs(1, 0)>>
  \o <<Cs(IF enc = "mjpeg" THEN 6 ELSE 4, 1)>>
  \o [i \in DOMAIN Sizes |-> FrameDesc(IF enc = "mjpeg" THEN 7 ELSE 5, i, Sizes[i], {15})]
  \o <<Cs(13, 0), Itf(1, 1, "vs"), IsocIn(Packet)>>

\* A webcam with processing and extension units, both encodings, a frame-based
\* format that is not read, and two bandwidths.
Webcam ==
  <<Itf(0, 0, "vc"), Cs(1, 0), Cs(5, 2), Cs(6, 3), Itf(1, 0, "vs"), Cs(1, 0),
    Cs(4, 1), FrameDesc(5, 1, 1, {30}), FrameDesc(5, 2, 2, {15, 30}),
    Cs(16, 2), FrameDesc(17, 1, 2, {30}),
    Cs(6, 3), FrameDesc(7, 1, 2, {30}), FrameDesc(7, 2, 3, {15, 30}),
    Itf(1, 1, "vs"), IsocIn(1), Itf(1, 2, "vs"), IsocIn(2)>>

Blob(kind) == IF kind = "webcam" THEN Webcam ELSE DescCfg(kind)

----------------------------------------------------------------------------
(* _uvc.py.                                                                *)

\* The class-specific descriptors formats() looks at: streaming, alternate 0.
ReadHere(blob) ==
  {i \in DOMAIN blob : /\ blob[i].is = "cs" /\ Under(blob, i).class = "vs"
                       /\ Under(blob, i).alt = 0}
Formats(blob) == {i \in ReadHere(blob) : blob[i].sub \in FormatSubs}
\* A frame belongs to the format before it, if no interface came between.
FramesOf(blob, i) ==
  {j \in ReadHere(blob) : /\ blob[j].sub \in FrameSubs /\ j > i
                          /\ \A k \in i + 1 .. j : k \notin Formats(blob) \cup Itfs(blob)}

\* alt_settings and alt_for_payload: the smallest isochronous alternate that carries
\* the payload.
AltSettings(blob) ==
  {[alt |-> Under(blob, i).alt, packet |-> blob[i].packet] :
     i \in {j \in Eps(blob) : Under(blob, j).class = "vs" /\ blob[j].kind = "isoc"}}
AltForPayload(alts, payload) ==
  LET fits == {a \in alts : a.packet >= payload}
  IN IF fits = {} THEN None
     ELSE [is |-> "alt", alt |-> (CHOOSE a \in fits : \A b \in fits : a.packet <= b.packet).alt]

----------------------------------------------------------------------------
(* Camera._negotiate.                                                      *)

\* Every (format, frame, interval), named by its indices; `at' is its place.
Modes(blob) ==
  UNION {UNION {{[fmt |-> blob[i].index, frame |-> blob[j].index, at |-> j,
                  enc |-> Encoding(blob[i].sub), size |-> blob[j].size, rate |-> r] :
                   r \in blob[j].rates} : j \in FramesOf(blob, i)} : i \in Formats(blob)}

Wanted(blob, want) ==
  {m \in Modes(blob) : (want.enc = "any" \/ m.enc = want.enc) /\ m.size <= want.max}

\* Larger first, MJPEG before YUY2 at a size; a frame's rates from the nearest to the one
\* asked for, or from the highest.  No two frames of these cameras are equal in both, nor
\* two rates of a frame: equals would come in any order, MicroPython's list.sort not
\* being stable.
Distance(r, asked) == IF r >= asked THEN r - asked ELSE asked - r
Rank(m) == IF m.enc = "mjpeg" THEN 1 ELSE 0
RateFirst(m, n, asked) ==
  IF asked = 0 THEN m.rate >= n.rate ELSE Distance(m.rate, asked) <= Distance(n.rate, asked)
Before(m, n, asked) ==
  \/ m.size > n.size
  \/ m.size = n.size /\ Rank(m) > Rank(n)
  \/ m.at = n.at /\ RateFirst(m, n, asked)
\* Mutant: as declared, the camera's own order.
MutProposals(blob, want) == SetToSortSeq(Wanted(blob, want), LAMBDA m, n : m.at <= n.at)
Proposals(blob, want) ==
  SetToSortSeq(Wanted(blob, want), LAMBDA m, n : Before(m, n, want.rate))

\* What the program may ask for, and what each camera offers for it.
Cameras == {"yuy2", "mjpeg", "webcam"}
Wants == [enc : {"any", "mjpeg", "yuy2"}, max : 1 .. 3, rate : {0, 15}]
WantsOf ==
  [c \in Cameras |->
     IF c = "webcam" THEN Wants
     ELSE {w \in Wants : w.enc = "any" /\ w.rate = 0 /\ w.max <= Sizes[1]}]
ModesOf == [c \in Cameras |-> Modes(Blob(c))]
AltsOf == [c \in Cameras |-> AltSettings(Blob(c))]
OffersOf ==
  [c \in Cameras |-> {[want |-> w, todo |-> Proposals(Blob(c), w)] : w \in WantsOf[c]}]
=============================================================================
