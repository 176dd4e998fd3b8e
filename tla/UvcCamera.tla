----------------------------- MODULE UvcCamera ------------------------------
(***************************************************************************)
(* A camera and the host that watches it: CameraInterface (usb/device/     *)
(* video.py) with the program that feeds it frames (examples/              *)
(* usb_webcam.py), and Camera (usb/host/video.py) with the program that    *)
(* shows them (examples/uvc_display.py).  The computer is any other host:  *)
(* it makes the class's requests in any order.                             *)
(*                                                                         *)
(* A callback of the device runs between two bytecodes of its program, so  *)
(* everything the program reads may be old when it is used.                *)
(***************************************************************************)
EXTENDS UvcModes

CONSTANTS
  Limit,        \* in_limit of a host with a small FIFO
  NoLimit,      \* and of one without: more than any payload
  MaxFrames     \* frames the program builds

ASSUME CameraAssumption == MaxFrames \in Nat /\ Limit < NoLimit

VARIABLES
  format,       \* "yuy2" or "mjpeg": one camera of each kind; or the trade's webcam
  who,          \* the host on the cable: this one, or a computer
  cam,          \* CameraInterface: [alt, index, probe, pending, att]
  ring,         \* frames in its ring: [n, size, len]
  held,         \* the frame its program has: None, built, through its checks ("checked"), a
                \* JPEG whose length is written ("half"), or one whose session ended since ("late")
  made,         \* frames built so far
  cut,          \* a late put broke this session's frame boundaries
  try,          \* Camera.__init__ at work: [want, limit, todo, step, got]
  obj,          \* the program's Camera, or None
  hring,        \* frames in the host's ring
  shown         \* the last picture on the display, and whether a Camera saw it in time

vars == <<format, who, cam, ring, held, made, cut, try, obj, hring, shown>>
deviceVars == <<cam, ring, held, made, cut>>
hostVars == <<try, obj, hring, shown>>

First1 == <<1, 1>>
PairOf(m) == <<m.fmt, m.frame>>
PairsOf == [c \in Cameras |-> {PairOf(m) : m \in ModesOf[c]}]
Pairs == PairsOf[format]
SizesOf ==
  [c \in Cameras |-> [p \in PairsOf[c] |-> (CHOOSE m \in ModesOf[c] : PairOf(m) = p).size]]
SizeOf(pair) == SizesOf[format][pair]
\* _frame_bytes: a frame's length in YUY2, the most a JPEG may have.
FrameBytes(pair) == SizeOf(pair)
\* What a mode costs on the bus: CameraInterface's packet, whatever the mode.
PayloadOf(pair) ==
  IF format # "webcam" THEN Packet
  ELSE IF pair[1] = 3 THEN (SizeOf(pair) + 1) \div 2 ELSE 2 * SizeOf(pair) - 1
RingSize == 2 * FrameBytes(First1)

Closed == [is |-> "closed"]
NewCam == [alt |-> 0, index |-> First1, probe |-> First1, pending |-> None, att |-> 0]
NoFrame == [n |-> 0, size |-> 0, len |-> 0]

Init ==
  /\ format \in {"yuy2", "mjpeg", "webcam"} /\ who \in {"ours", "computer"}
  /\ format = "webcam" => who = "ours"
  /\ cam = NewCam /\ ring = <<>> /\ held = None /\ made = 0 /\ cut = FALSE
  /\ try = Closed /\ obj = None /\ hring = <<>> /\ shown = [NoFrame EXCEPT !.n = 0]

----------------------------------------------------------------------------
(* The device's requests, one operator for what each leaves.               *)

\* The status stage of any class request: what SET_CUR left pending is taken now.
\* Its data is what arrived, zeros (<<0, 0>>) if the host gave up before sending it.
Choose(d, pair) == [d EXCEPT !.index = pair]
Ack(d) ==
  IF d.pending = None THEN d
  ELSE LET pair == IF d.pending.pair \in Pairs THEN d.pending.pair ELSE First1
           e == [d EXCEPT !.pending = None, !.probe = pair]
       IN IF d.pending.control = "commit" /\ d.alt = 0 THEN Choose(e, pair) ELSE e
Pend(d, control, pair) ==
  [d EXCEPT !.pending = [is |-> "pending", control |-> control, pair |-> pair]]
SetCur(d, control, pair) == Ack(Pend(d, control, pair))
SetCurCut(d, control) == Pend(d, control, <<0, 0>>)
\* GET_CUR and the others answer in the setup stage.
Get(d) == Ack(d)

\* The put that a SET_INTERFACE overtakes: a YUY2 frame whose length was compared, a JPEG
\* whose length is in the ring.
Overtaken ==
  IF held # None /\ held.is = (IF format = "yuy2" THEN "checked" ELSE "half")
  THEN [held EXCEPT !.is = "late"] ELSE held

\* SET_INTERFACE: detach, empty the ring, attach.  Mutant: the ring keeps its frames.
AltSet(alt) ==
  /\ cam' = [cam EXCEPT !.alt = alt, !.att = IF alt = 0 THEN 0 ELSE FrameBytes(cam.index)]
  /\ held' = Overtaken /\ cut' = FALSE
MutSetAlt(alt) == AltSet(alt) /\ UNCHANGED ring
SetAlt(alt) == AltSet(alt) /\ ring' = <<>>

\* A bus reset, or the cable pulled and put back, maybe into another host.  The
\* request cut short stays pending, and the ring keeps what it had.
Reset ==
  /\ cam' = [cam EXCEPT !.alt = 0]
  /\ who' \in IF format = "webcam" THEN {"ours"} ELSE {"ours", "computer"}
  /\ try' = Closed /\ obj' = None /\ hring' = <<>>
  /\ UNCHANGED <<format, ring, held, made, cut, shown>>

\* What a computer does.
ComputerSets ==
  /\ who = "computer"
  /\ \E control \in {"probe", "commit"}, pair \in Pairs : cam' = SetCur(cam, control, pair)
  /\ UNCHANGED <<format, who, ring, held, made, cut, hostVars>>
ComputerAborts ==
  /\ who = "computer" /\ \E control \in {"probe", "commit"} : cam' = SetCurCut(cam, control)
  /\ UNCHANGED <<format, who, ring, held, made, cut, hostVars>>
ComputerGets ==
  /\ who = "computer" /\ cam' = Get(cam)
  /\ UNCHANGED <<format, who, ring, held, made, cut, hostVars>>
ComputerSelects ==
  /\ who = "computer" /\ \E alt \in {0, 1} : SetAlt(alt)
  /\ UNCHANGED <<format, who, made, hostVars>>

----------------------------------------------------------------------------
(* The device's program: usb_webcam.main's loop.                           *)

Used(frames) ==
  LET used[i \in 0 .. Len(frames)] == IF i = 0 THEN 0 ELSE used[i - 1] + frames[i].len
  IN used[Len(frames)]
Room(len) == Used(ring) + len <= RingSize

\* streaming and wants_frame, then a frame of the size the session has now.  A JPEG
\* is as long as its picture makes it.
Build ==
  /\ format # "webcam" /\ held = None /\ made < MaxFrames /\ cam.alt # 0 /\ Room(FrameBytes(cam.index))
  /\ \E len \in 1 .. FrameBytes(cam.index) :
       /\ format = "yuy2" => len = FrameBytes(cam.index)
       /\ held' = [is |-> "built", n |-> made + 1, size |-> SizeOf(cam.index), len |-> len]
  /\ made' = made + 1
  /\ UNCHANGED <<format, who, cam, ring, cut, hostVars>>

\* write_frame: the length is looked at, and a JPEG's room, then all of the frame is put,
\* or none; a JPEG behind its length, in a write of its own.  A callback may run between
\* any two of these.
Fits(f) ==
  IF format = "yuy2" THEN f.len = FrameBytes(cam.index)
  ELSE f.len <= FrameBytes(cam.index) /\ Room(f.len)
WriteFrame ==
  /\ held # None /\ held.is = "built"
  /\ held' = IF Fits(held) THEN [held EXCEPT !.is = "checked"] ELSE None
  /\ UNCHANGED <<format, who, cam, ring, made, cut, hostVars>>
WriteLength ==
  /\ format # "yuy2" /\ held # None /\ held.is = "checked" /\ held' = [held EXCEPT !.is = "half"]
  /\ UNCHANGED <<format, who, cam, ring, made, cut, hostVars>>

\* What a late put breaks: a YUY2 session of another length, or a JPEG's without the
\* length that was emptied.
Breaks(f) == f.is = "late" /\ cam.alt # 0 /\ (format = "yuy2" => f.len # cam.att)
Put(f) ==
  /\ ring' = IF Room(f.len) THEN Append(ring, [n |-> f.n, size |-> f.size, len |-> f.len]) ELSE ring
  /\ held' = None /\ cut' = (cut \/ Breaks(f))
WriteChecked ==
  /\ held # None /\ held.is \in {"late", IF format = "yuy2" THEN "checked" ELSE "half"} /\ Put(held)
  /\ UNCHANGED <<format, who, cam, made, hostVars>>

----------------------------------------------------------------------------
(* Camera, with the device's part of each request.                         *)

Mode == Head(try.todo)
Ours == who = "ours"

\* Camera(dev, ...): the program lets go of the one it had.
New ==
  /\ Ours /\ try = Closed /\ (obj # None => ~obj.open)
  /\ \E offer \in OffersOf[format], limit \in {Limit, NoLimit} :
       try' = IF offer.todo = <<>> THEN Closed
              ELSE [is |-> "trying", want |-> offer.want, limit |-> limit, todo |-> offer.todo,
                    step |-> "set", got |-> First1]
  /\ obj' = None
  /\ UNCHANGED <<format, who, deviceVars, hring, shown>>

\* _negotiate: PROBE, what the camera will do, and that committed.
SetProbe ==
  /\ try # Closed /\ try.step = "set"
  /\ cam' = SetCur(cam, "probe", PairOf(Mode)) /\ try' = [try EXCEPT !.step = "get"]
  /\ UNCHANGED <<format, who, ring, held, made, cut, obj, hring, shown>>
GetProbe ==
  /\ try # Closed /\ try.step = "get"
  /\ cam' = Get(cam) /\ try' = [try EXCEPT !.step = "commit", !.got = cam.probe]
  /\ UNCHANGED <<format, who, ring, held, made, cut, obj, hring, shown>>

\* COMMIT, then whether the bus can carry it: in_limit, and an alternate for it.
Carries(limit, payload) == payload <= limit /\ AltForPayload(AltsOf[format], payload) # None
Commit ==
  /\ try # Closed /\ try.step = "commit"
  /\ cam' = SetCur(cam, "commit", try.got)
  /\ IF Carries(try.limit, PayloadOf(try.got))
     THEN /\ try' = Closed
          /\ obj' = [is |-> "camera", mode |-> Mode, bytes |-> FrameBytes(try.got),
                     alt |-> AltForPayload(AltsOf[format], PayloadOf(try.got)).alt,
                     open |-> FALSE, quiet |-> cam.alt = 0, limit |-> try.limit,
                     want |-> try.want]
     ELSE /\ try' = IF Tail(try.todo) = <<>> THEN Closed
                    ELSE [try EXCEPT !.todo = Tail(@), !.step = "set"]
          /\ obj' = obj
  /\ UNCHANGED <<format, who, ring, held, made, cut, hring, shown>>

\* A request fails, on its way or after the device took it: __init__ raises.
NegotiationFails ==
  /\ try # Closed
  /\ \/ try.step \in {"set", "commit"}
        /\ cam' = SetCurCut(cam, IF try.step = "set" THEN "probe" ELSE "commit")
     \/ try.step = "commit" /\ cam' = SetCur(cam, "commit", try.got)
     \/ UNCHANGED cam
  /\ try' = Closed
  /\ UNCHANGED <<format, who, ring, held, made, cut, obj, hring, shown>>

\* SET_INTERFACE as Camera sends it: it may be lost.
Selects(alt, came) == IF came THEN SetAlt(alt) ELSE UNCHANGED <<cam, ring, held, cut>>

\* start: the alternate and then the stream; without one it parks, and raises.
Start ==
  /\ obj # None /\ ~obj.open /\ Ours
  /\ \E streams \in BOOLEAN :
       /\ Selects(IF streams THEN obj.alt ELSE 0, TRUE)
       /\ obj' = [obj EXCEPT !.open = streams]
  /\ hring' = <<>>
  /\ UNCHANGED <<format, who, made, try, shown>>
StartFails ==
  /\ obj # None /\ ~obj.open /\ Ours /\ \E came \in BOOLEAN : Selects(obj.alt, came)
  /\ UNCHANGED <<format, who, made, hostVars>>

\* stop, and _park, which ignores its failures.
Stop ==
  /\ obj # None /\ obj.open /\ \E came \in BOOLEAN : Selects(0, came)
  /\ obj' = [obj EXCEPT !.open = FALSE] /\ hring' = <<>>
  /\ UNCHANGED <<format, who, made, try, shown>>

\* What the endpoint takes for a frame: a JPEG by its length, in YUY2 cam.att bytes, of
\* one piece or the ends of two (behind the first every piece is of cam.att: WholeFrames).
Mixed == 0
Whole(f) ==
  [n |-> f.n, size |-> IF format = "mjpeg" /\ cut THEN Mixed ELSE f.size, len |-> f.len]
Ends(f, len) == [n |-> f.n, size |-> Mixed, len |-> len]
Rest(frames, taken) ==
  IF frames[1].len = taken THEN Tail(frames)
  ELSE [frames EXCEPT ![1] = Ends(frames[1], frames[1].len - taken)]

\* The host's ring takes a frame whole or not at all: it may lose packets, be over
\* max_frame, or find no room.
Arrives(picture) ==
  \/ /\ obj # None /\ obj.open /\ picture.len <= obj.bytes
     /\ Used(hring) + picture.len <= 2 * obj.bytes
     /\ hring' = Append(hring, picture)
  \/ hring' = hring
Cross ==
  LET len == IF format = "yuy2" THEN cam.att ELSE ring[1].len
      first == ring[1].len
  IN /\ cam.alt # 0 /\ ring # <<>>
     /\ IF first = len THEN ring' = Tail(ring) /\ Arrives(Whole(ring[1]))
        ELSE IF first > len THEN ring' = Rest(ring, len) /\ Arrives(Ends(ring[1], len))
        ELSE /\ Len(ring) > 1 /\ ring' = Rest(Tail(ring), len - first)
             /\ Arrives(Ends(ring[2], len))
     /\ UNCHANGED <<format, who, cam, held, made, cut, try, obj, shown>>

\* uvc_display's _tick: read takes the newest whole frame, and the picture is shown if
\* it is of the size the mode has.  Mutant: any picture is.
Newest(buf) ==
  LET fit == SelectSeq(hring, LAMBDA f : f.len <= buf)
  IN IF fit = <<>> THEN NoFrame ELSE Last(fit)
MutShows(f) == f.n # 0
Shows(f) ==
  /\ f.n # 0
  /\ IF obj.mode.enc = "mjpeg" THEN f.size = obj.mode.size ELSE f.len >= obj.mode.size
ShowTick ==
  /\ obj # None /\ obj.open /\ hring # <<>>
  /\ \E buf \in {obj.bytes, 1} :
       shown' = IF Shows(Newest(buf)) THEN Newest(buf) ELSE shown
  /\ hring' = <<>>
  /\ UNCHANGED <<format, who, deviceVars, try, obj>>

Next ==
  \/ Reset \/ ComputerSets \/ ComputerAborts \/ ComputerGets \/ ComputerSelects
  \/ Build \/ WriteFrame \/ WriteLength \/ WriteChecked
  \/ New \/ SetProbe \/ GetProbe \/ Commit \/ NegotiationFails
  \/ Start \/ StartFails \/ Stop \/ Cross \/ ShowTick

Spec == Init /\ [][Next]_vars

----------------------------------------------------------------------------
(* Properties.                                                             *)

\* "Every session starts at a frame boundary" (video.py), and stays at one: what a YUY2
\* endpoint reads are whole frames of the length it takes, from the first byte on, no frame of
\* another session or size before or among them; unless the one put that was under way when
\* the session began came first.  Then that piece is of another length, and no other.
WholeFrames ==
  cam.alt # 0 /\ format = "yuy2" =>
    \A i \in DOMAIN ring : i > 1 \/ ~cut => ring[i].len = cam.att

\* Camera took the largest mode this bus can carry: no larger one the camera has within
\* what was asked, and no MJPEG one as large, would have gone through.
LargestCarried ==
  obj # None =>
    /\ Carries(obj.limit, PayloadOf(PairOf(obj.mode)))
    /\ \A m \in ModesOf[format] :
         /\ obj.want.enc \in {"any", m.enc} /\ m.size <= obj.want.max
         /\ Carries(obj.limit, PayloadOf(PairOf(m)))
         => \/ m.size < obj.mode.size
            \/ m.size = obj.mode.size /\ Rank(m) <= Rank(obj.mode)

\* A display shows pictures of the mode its Camera announced, each later than the one
\* before, whatever hosts, resets and requests cut short came before it; unless the
\* camera was still streaming when the mode was committed, or a late put cut the session.
PictureTrue ==
  [][shown' # shown =>
       /\ shown'.n >= shown.n /\ (~cut => shown'.n > shown.n)
       /\ obj.quiet /\ ~cut => shown'.size = obj.mode.size]_vars
=============================================================================
