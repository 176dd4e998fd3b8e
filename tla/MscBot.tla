------------------------------- MODULE MscBot -------------------------------
\* Bulk-Only mass storage: the host's Drive (usb/host/msc.py) against the
\* device's MSCInterface (usb/device/msc.py).  A block is one packet, as it is
\* at high speed; a command block, a status and a sense reply are short packets,
\* which end the transfer they arrive in.  This device never stalls an endpoint
\* and never answers "phase error", so what Drive does then is left out; so are
\* the residue, which Drive does not read, and the inquiries a computer makes.  Its
\* eject is here, which Drive does not have, with examples/sd_drive.py, the program
\* that waits for it on the board.
EXTENDS Integers, Sequences

CONSTANTS
  Blocks,       \* blocks on the medium
  Chunk,        \* _CHUNK_BLOCKS: blocks in the device's one buffer
  MaxBlocks,    \* _MAX_BLOCKS: blocks in one command of the host
  MaxTag,       \* bound: a call begins while fewer commands than this were sent
  MaxCount,     \* bound: blocks a call asks for
  Tries,        \* TEST UNIT READYs of Drive.__init__: 20
  Bads          \* the sets of blocks that may raise when accessed

\* What a user of the module assumes of the constants.
SizesAssumption ==
  /\ Blocks \in Nat \ {0} /\ Chunk \in Nat \ {0} /\ MaxBlocks \in Nat \ {0}
  /\ MaxTag \in Nat /\ Tries \in Nat \ {0} /\ MaxCount \in Nat \ {0} /\ Bads \subseteq SUBSET (0..(Blocks - 1))

VARIABLES
  host,         \* where Drive is: in which call, and in which phase of a command
  cmd,          \* the command block it sent last
  out, in,      \* its two bulk transfers: what is yet to send, what has come
  dev,          \* the driver's fields and its two pending transfers
  medium,       \* what the block device holds
  escaped,      \* history: an exception left a callback of the device
  readonly, bad, prompt      \* chosen at the start: see Init and TimeOut

settings == <<readonly, bad, prompt>>
vars == <<host, cmd, out, in, dev, medium, escaped, settings>>

LBAs == 0..(Blocks - 1)
Zero == -1          \* a block of zeros
Junk == -2          \* a block that begins with a command block
Unused == -3        \* what the buffer holds at first
Boards == -4        \* what the board writes when the card is its own

\* Sense keys: _SENSE_NONE, _SENSE_NOT_READY, _SENSE_ILLEGAL_REQUEST,
\* _SENSE_DATA_PROTECT.
NoSense == 0
NotReady == 2
Illegal == 5
Protected == 7

Lesser(i, j) == IF i < j THEN i ELSE j

Command(op, lba, n, tag) == [op |-> op, lba |-> lba, n |-> n, tag |-> tag]
ToHost(c) == c.op \in {"read", "sense", "capacity"}
ToDevice(c) == c.op = "write"

\* Packets.  What a write puts in a block is told apart by its tag.
UsbPacket(kind, tag, val) == [kind |-> kind, tag |-> tag, val |-> val]
Short(p) == p.kind # "block"

-----------------------------------------------------------------------------
\* The device's handlers, from the driver's fields to the new ones; `raised' says
\* that one raised.  `buf', `csw' and `reply' are each one buffer, which a pending
\* transfer refers to and does not copy.

NoXfer == [at |-> "none", kind |-> "none", left |-> 0, done |-> 0]
Armed(kind, n) == [at |-> "armed", kind |-> kind, left |-> n, done |-> 0]
Raise(d) == [d EXCEPT !.raised = TRUE]

\* submit_xfer of usb.device.core: raises while one of the endpoint is pending.
SubmitIn(d, kind, n) == IF d.in.at # "none" THEN Raise(d) ELSE [d EXCEPT !.in = Armed(kind, n)]
SubmitOut(d, kind, n) == IF d.out.at # "none" THEN Raise(d) ELSE [d EXCEPT !.out = Armed(kind, n)]

ArmCbw(d) == IF d.out.at = "none" THEN SubmitOut(d, "cbw", 1) ELSE d

OnOpen(d) == ArmCbw(d)
\* on_interface_control_xfer, at the reset's ACK stage.
BotReset(d) == ArmCbw(d)

Status(d, status) == SubmitIn([d EXCEPT !.csw = UsbPacket("csw", d.cmd.tag, status)], "csw", 1)

Discard(d) == SubmitOut(d, "discard", Lesser(d.discard, Chunk))

\* Mutant: the failed command is answered at once, though data is to come.
MutFail(d, sense) ==
  LET e == [d EXCEPT !.sense = sense] IN
  IF ToHost(d.cmd)
  THEN SubmitIn([e EXCEPT !.buf = [i \in 1..Chunk |-> Zero], !.left = 0],
                "fail", Lesser(d.cmd.n, Chunk))
  ELSE Status(e, 1)

\* _fail: data that comes is dropped, a host that waits for data gets zeros, as
\* many as the buffer holds.
Fail(d, sense) ==
  LET e == [d EXCEPT !.sense = sense]
      k == Lesser(d.cmd.n, Chunk)
  IN CASE ToDevice(d.cmd) -> Discard([e EXCEPT !.discard = d.cmd.n])
       [] ToHost(d.cmd) ->
            SubmitIn([e EXCEPT !.buf = [i \in 1..Chunk |-> IF i <= k THEN Zero ELSE @[i]], !.left = 0],
                     "fail", k)
       [] OTHER -> Status(e, 1)

\* RAMBlockDev; another medium may raise.
readblocks(lba, k, buf) == [i \in 1..Chunk |-> IF i <= k THEN medium[lba + i - 1] ELSE buf[i]]
writeblocks(lba, k, buf) ==
  [b \in LBAs |-> IF b \in lba..(lba + k - 1) THEN buf[b - lba + 1] ELSE medium[b]]

\* _read_chunk: readblocks may raise.
ReadChunk(d) ==
  LET k == Lesser(d.left, Chunk)
      at == d.lba..(d.lba + k - 1)
  IN IF at \cap bad # {}
     THEN Raise(d)
     ELSE SubmitIn([d EXCEPT !.buf = readblocks(d.lba, k, @), !.lba = @ + k, !.left = @ - k], "data", k)

\* Mutant: a whole chunk is written, whatever was to come.
MutWriteChunkArm(d) == SubmitOut([d EXCEPT !.chunk = Chunk], "chunk", Lesser(d.left, Chunk))

WriteChunkArm(d) ==
  LET k == Lesser(d.left, Chunk) IN SubmitOut([d EXCEPT !.chunk = k], "chunk", k)

OutOfRange(c) == c.lba + c.n > Blocks

\* _send: all of the answer is asked for.
Send(d, kind, val) == SubmitIn([d EXCEPT !.reply = UsbPacket(kind, 0, val), !.left = 0], "reply", 1)

Dispatch(d) ==
  LET c == d.cmd IN
  CASE c.op = "eject" -> Status([d EXCEPT !.ejected = TRUE], 0)
    [] c.op = "sense" -> Send([d EXCEPT !.sense = NoSense], "reply", d.sense)
    [] d.ejected /\ c.op \notin {"eject", "sense"} -> Fail(d, NotReady)
    [] ~d.ejected /\ c.op = "ready" -> Status(d, 0)
    [] ~d.ejected /\ c.op = "capacity" -> Send(d, "capacity", Blocks)
    [] ~d.ejected /\ c.op = "read" ->
         IF OutOfRange(c) THEN Fail(d, Illegal) ELSE ReadChunk([d EXCEPT !.lba = c.lba, !.left = c.n])
    [] ~d.ejected /\ c.op = "write" ->
         IF readonly THEN Fail(d, Protected)
         ELSE IF OutOfRange(c) THEN Fail(d, Illegal)
         ELSE WriteChunkArm([d EXCEPT !.lba = c.lba, !.left = c.n])

\* _cbw_done: an exception of the dispatch is a failed command.
CbwDone(d) ==
  IF d.cbw.kind # "cbw" THEN ArmCbw(d)
  ELSE LET e == Dispatch([d EXCEPT !.cmd = d.cbw.val]) IN
       IF e.raised THEN Fail([e EXCEPT !.raised = FALSE], Illegal) ELSE e

\* Mutant: the status goes out behind the first chunk.
MutInDone(d) == Status(d, 0)

InDone(d) == IF d.left > 0 THEN ReadChunk(d) ELSE Status(d, 0)

\* _out_done, after writeblocks: what came is not counted.
OutDone(d) ==
  LET e == [d EXCEPT !.lba = @ + d.chunk, !.left = @ - d.chunk] IN
  IF e.left > 0 THEN WriteChunkArm(e) ELSE Status(e, 0)

\* _discard_done.  A command block that is taken for data counts for nothing: its
\* 31 bytes leave most of the block to come.
DiscardDone(d, n) ==
  LET e == [d EXCEPT !.discard = @ - n] IN IF e.discard > 0 THEN Discard(e) ELSE Status(e, 1)

-----------------------------------------------------------------------------
\* The device's steps: the callbacks of its transfers, each with the endpoint free
\* again, one at a time and in the order the transfers were done (`events').

Ran(d) == /\ escaped' = (escaped \/ d.raised)
          /\ dev' = [d EXCEPT !.raised = FALSE, !.events = Tail(@)]

OutCallback ==
  /\ dev.events # <<>> /\ Head(dev.events) = "out"
  /\ LET d == [dev EXCEPT !.out = NoXfer]
         at == d.lba..(d.lba + d.chunk - 1)
     IN CASE dev.out.kind = "cbw" -> Ran(CbwDone(d)) /\ UNCHANGED medium
          [] dev.out.kind = "discard" -> Ran(DiscardDone(d, dev.out.done)) /\ UNCHANGED medium
          [] dev.out.kind = "chunk" /\ at \cap bad # {} -> Ran(Raise(d)) /\ UNCHANGED medium
          [] dev.out.kind = "chunk" /\ at \cap bad = {} ->
               /\ Ran(OutDone(d))
               /\ medium' = writeblocks(d.lba, d.chunk, d.buf)
  /\ UNCHANGED <<host, cmd, out, in, settings>>

InCallback ==
  /\ dev.events # <<>> /\ Head(dev.events) = "in"
  /\ LET d == [dev EXCEPT !.in = NoXfer] IN
     Ran(CASE dev.in.kind \in {"data", "reply"} -> InDone(d)
           [] dev.in.kind = "fail" -> Status(d, 1)
           [] dev.in.kind = "csw" -> ArmCbw(d))
  /\ UNCHANGED <<host, cmd, out, in, medium, settings>>

-----------------------------------------------------------------------------
\* The board's program.

\* sd_drive.py's main has seen the eject and returns: the card is the board's again.
Leave ==
  /\ dev.ejected /\ dev.card = "computer" /\ dev' = [dev EXCEPT !.card = "board"]
  /\ UNCHANGED <<host, cmd, out, in, medium, escaped, settings>>
BoardWrites ==
  /\ dev.card = "board" /\ medium[0] # Boards /\ medium' = [medium EXCEPT ![0] = Boards]
  /\ UNCHANGED <<host, cmd, out, in, dev, escaped, settings>>
\* insert, when the board has done with it.
Insert ==
  /\ dev.ejected /\ dev' = [dev EXCEPT !.ejected = FALSE, !.card = "computer"]
  /\ UNCHANGED <<host, cmd, out, in, medium, escaped, settings>>

-----------------------------------------------------------------------------
\* The bus: a packet moves when both sides have a transfer for it.

CanSend == out # <<>> /\ dev.out.at = "armed"
CanFetch == in.room > 0 /\ dev.in.at = "armed"

\* A transfer is done when it is full, or when a packet was short.
Full(t, p) == t.left = 1 \/ Short(p)
Moved(t, p) == [t EXCEPT !.at = IF Full(t, p) THEN "done" ELSE @, !.left = @ - 1,
                         !.done = IF Short(p) THEN @ ELSE @ + 1]
Event(t, p, ep) == IF Full(t, p) THEN Append(dev.events, ep) ELSE dev.events

PacketOut ==
  /\ CanSend
  /\ LET p == Head(out) IN
     LET d == [dev EXCEPT !.out = Moved(@, p), !.events = Event(dev.out, p, "out")] IN
     dev' = IF dev.out.kind = "cbw"
            THEN [d EXCEPT !.cbw = p]
            ELSE [d EXCEPT !.buf[dev.out.done + 1] = IF Short(p) THEN Junk ELSE p.val]
  /\ out' = Tail(out)
  /\ UNCHANGED <<host, cmd, in, medium, escaped, settings>>

PacketIn ==
  /\ CanFetch
  /\ LET p == CASE dev.in.kind = "csw" -> dev.csw
                [] dev.in.kind = "reply" -> dev.reply
                [] OTHER -> UsbPacket("block", 0, dev.buf[dev.in.done + 1])
     IN /\ in' = [room |-> IF Short(p) THEN 0 ELSE in.room - 1, got |-> Append(in.got, p)]
        /\ dev' = [dev EXCEPT !.in = Moved(@, p), !.events = Event(dev.in, p, "in")]
  /\ UNCHANGED <<host, cmd, out, medium, escaped, settings>>

-----------------------------------------------------------------------------
\* The host: Drive._command and _io.

\* Between calls; in one: which blocks it is for, those yet to do, what has been
\* read, the data phase of the present command, and the tag of the last command
\* before it; in __init__, the tries it has had.  `known' is the Drive's blocks, or 0
\* while there is no Drive.
NoDrive == [at |-> "idle", op |-> "ready", blocks |-> {}, lba |-> 0, left |-> 0, read |-> <<>>,
            data |-> <<>>, since |-> 0, tries |-> 0, known |-> 0]
Idle == [NoDrive EXCEPT !.known = host.known]
NoRead == [room |-> 0, got |-> <<>>]
Read(n) == [room |-> n, got |-> <<>>]

\* _command's start: the next tag, and the command block.  h is the call it is for.
Sends(h, op, n) ==
  LET c == Command(op, h.lba, n, cmd.tag + 1) IN
  /\ cmd' = c /\ out' = <<UsbPacket("cbw", c.tag, c)>> /\ in' = NoRead
  /\ host' = [h EXCEPT !.at = "cbw", !.data = <<>>]

Returns == host' = Idle /\ out' = <<>> /\ in' = NoRead /\ UNCHANGED cmd

\* _io's next part.
NextPart(h) == Sends(h, h.op, Lesser(h.left, MaxBlocks))

\* __init__: TEST UNIT READY until it passes, each failure with its _sense, and then
\* READ CAPACITY, which has to.
OpenGoesOn(status) ==
  CASE cmd.op = "ready" /\ status # 0 -> Sends([host EXCEPT !.tries = @ + 1], "sense", 1)
    [] cmd.op = "ready" /\ status = 0 -> Sends(host, "capacity", 1)
    [] cmd.op = "sense" ->
         IF host.tries < Tries THEN Sends(host, "ready", 0) ELSE Sends(host, "capacity", 1)
    [] cmd.op = "capacity" ->
         /\ host' = [Idle EXCEPT !.known = IF status = 0 THEN host.data[1].val ELSE 0]
         /\ out' = <<>> /\ in' = NoRead /\ UNCHANGED cmd

\* Mutant: each part starts at the first block again.
MutSettle(status) ==
  LET h == [host EXCEPT !.left = @ - cmd.n, !.read = @ \o host.data] IN
  IF host.op = "open" THEN OpenGoesOn(status)
  ELSE IF cmd.op = "sense" THEN Returns
  ELSE IF status # 0 THEN Sends(host, "sense", 1)
  ELSE IF h.left > 0 THEN NextPart(h) ELSE Returns

\* What the caller of _command does with the status: the next part, the end, or
\* _sense and then an OSError.
Settle(status) ==
  LET h == [host EXCEPT !.lba = @ + cmd.n, !.left = @ - cmd.n, !.read = @ \o host.data] IN
  CASE host.op = "open" -> OpenGoesOn(status)
    [] host.op # "open" /\ cmd.op = "sense" -> Returns
    [] host.op # "open" /\ cmd.op # "sense" /\ status # 0 -> Sends(host, "sense", 1)
    [] host.op # "open" /\ cmd.op # "sense" /\ status = 0 ->
         IF h.left > 0 THEN NextPart(h) ELSE Returns

\* __init__, readblocks, writeblocks; and a computer's eject, which is one command.
Call(op, lba, n) ==
  /\ host.at = "idle" /\ cmd.tag < MaxTag /\ (host.known = 0 <=> op = "open")
  /\ CASE op = "open" -> n = 1 /\ lba = 0 /\ Sends([NoDrive EXCEPT !.op = op], "ready", 0)
       [] op = "eject" -> n = 1 /\ lba = 0 /\ ~dev.ejected /\ Sends([Idle EXCEPT !.op = op], op, 0)
       [] OTHER ->
            NextPart([Idle EXCEPT !.op = op, !.blocks = lba..(lba + n - 1), !.lba = lba, !.left = n,
                                  !.since = cmd.tag])
  /\ UNCHANGED <<dev, medium, escaped, settings>>

\* The command block is out: the data phase, if there is one.
CbwSent ==
  /\ host.at = "cbw" /\ out = <<>>
  /\ host' = [host EXCEPT !.at = IF cmd.n = 0 THEN "csw" ELSE "data"]
  /\ in' = IF cmd.n = 0 THEN Read(1) ELSE IF ToHost(cmd) THEN Read(cmd.n) ELSE NoRead
  /\ out' = IF ToDevice(cmd) THEN [i \in 1..cmd.n |-> UsbPacket("block", 0, cmd.tag)] ELSE <<>>
  /\ UNCHANGED <<cmd, dev, medium, escaped, settings>>

\* Then the read of the status.  How much data came is not looked at.
DataOver == host' = [host EXCEPT !.at = "csw", !.data = in.got] /\ in' = Read(1) /\ out' = <<>>
DataEnds ==
  /\ host.at = "data" /\ out = <<>> /\ in.room = 0
  /\ DataOver /\ UNCHANGED <<cmd, dev, medium, escaped, settings>>

\* The signature and the tag.
IsOwn(p) == p.kind = "csw" /\ p.tag = cmd.tag

CswEnds ==
  /\ host.at = "csw" /\ in.room = 0
  /\ LET p == in.got[1] IN
     IF IsOwn(p) THEN Settle(p.val)
     ELSE host' = [host EXCEPT !.at = "reset"] /\ UNCHANGED <<cmd, out, in>>
  /\ UNCHANGED <<dev, medium, escaped, settings>>

\* _reset: the device starts over on a fresh command
\* block if it is not in the middle of receiving.
Reset ==
  /\ host.at = "reset" /\ dev.events = <<>>
  /\ Settle(2) /\ dev' = BotReset(dev)
  /\ UNCHANGED <<medium, escaped, settings>>

\* A transfer's time is up: the call raises, but a read with part of its data
\* returns that (usbif_xfer_ep).  With `prompt' the device is quick: nothing more
\* would have come.
TimeOut ==
  /\ host.at \in {"cbw", "data", "csw"} /\ (out # <<>> \/ in.room > 0)
  /\ prompt => ~CanSend /\ ~CanFetch /\ dev.events = <<>>
  /\ IF in.got # <<>> THEN DataOver /\ UNCHANGED cmd ELSE Returns
  /\ UNCHANGED <<dev, medium, escaped, settings>>

\* The cable is pulled and put back between calls: the callbacks of what was pending see
\* that it failed and return, on_reset and on_open start over, and the Drive is gone.
\* Whether the drive was ejected stays.
Replug ==
  /\ host.at = "idle" /\ host.known # 0 /\ cmd.tag < MaxTag
  /\ host' = NoDrive /\ out' = <<>> /\ in' = NoRead /\ escaped' = FALSE
  /\ dev' = OnOpen([dev EXCEPT !.out = NoXfer, !.in = NoXfer, !.events = <<>>])
  /\ UNCHANGED <<cmd, medium, settings>>

-----------------------------------------------------------------------------
Init ==
  /\ host \in {[NoDrive EXCEPT !.known = k] : k \in {0, Blocks}} /\ cmd = Command("ready", 0, 0, 0) /\ out = <<>> /\ in = NoRead
  /\ dev = OnOpen([cmd |-> Command("ready", 0, 0, 0), cbw |-> UsbPacket("none", 0, 0),
            csw |-> UsbPacket("none", 0, 0), reply |-> UsbPacket("none", 0, 0),
            buf |-> [i \in 1..Chunk |-> Unused], lba |-> 0, left |-> 0, chunk |-> 0, discard |-> 0,
            sense |-> NoSense, out |-> NoXfer, in |-> NoXfer, events |-> <<>>,
            raised |-> FALSE, ejected |-> FALSE, card |-> "computer"])
  /\ medium = [b \in LBAs |-> 0] /\ escaped = FALSE
  /\ readonly \in BOOLEAN /\ prompt \in BOOLEAN /\ bad \in Bads

Next ==
  \/ \E op \in {"read", "write", "open", "eject"}, b \in LBAs, n \in 1..MaxCount : Call(op, b, n)
  \/ Replug \/ CbwSent \/ DataEnds \/ CswEnds \/ Reset \/ TimeOut
  \/ Leave \/ BoardWrites \/ Insert \/ PacketOut \/ PacketIn \/ OutCallback \/ InCallback

Spec == Init /\ [][Next]_vars

-----------------------------------------------------------------------------
TypeOK ==
  /\ host.at \in {"idle", "cbw", "data", "csw", "reset"} /\ host.left \in Nat
  /\ dev.lba + dev.left <= Blocks \/ dev.left = 0
  /\ dev.out.at \in {"none", "armed", "done"} /\ dev.in.at \in {"none", "armed", "done"}
  /\ \A b \in LBAs : medium[b] \in 0..(cmd.tag) \cup {Zero, Junk, Unused, Boards}
  /\ ~dev.raised
  /\ \A ep \in {"out", "in"} : dev[ep].at = "done" <=> \E i \in DOMAIN dev.events : dev.events[i] = ep

\* With a device that is quick, the two are in step between calls: the device is
\* ready for the next command block, whatever failed before, unless an exception
\* left one of its callbacks.
InStep ==
  prompt /\ host.at = "idle" /\ dev.events = <<>> /\ ~escaped =>
    dev.out.at = "armed" /\ dev.out.kind = "cbw" /\ dev.in.at = "none"

\* The state is well formed, and the two sides are in step.
Consistent == TypeOK /\ InStep

\* A call that returns has done what it says: a read has given the blocks of the
\* medium, a write has put its data there; and the sense that a failed one asks for
\* tells why.  (With a device that is quick.)
Passed == host.at = "csw" /\ in.room = 0 /\ IsOwn(in.got[1]) /\ in.got[1].val = 0
CallIsDone ==
  [][prompt /\ Passed /\ host'.at = "idle" =>
       LET read == host.read \o host.data
           first == CHOOSE b \in host.blocks : \A c \in host.blocks : b <= c
       IN CASE cmd.op = "read" -> \A b \in host.blocks : read[b - first + 1].val = medium[b]
            [] cmd.op = "write" -> \A b \in host.blocks : medium[b] > host.since
            [] cmd.op = "sense" -> host.data[1].val # NoSense
            [] cmd.op = "capacity" -> host'.known = Blocks
            [] OTHER -> TRUE]_vars

\* The medium changes only where the host's present command writes, and to what
\* it writes.  (With a device that is quick: see OnlyTheirsAlways.)
OnlyTheirs ==
  [][prompt /\ dev.card = "computer" => \A b \in LBAs : medium'[b] # medium[b] =>
       /\ cmd.op = "write" /\ ~readonly
       /\ b \in cmd.lba..(cmd.lba + cmd.n - 1) /\ medium'[b] = cmd.tag]_vars

\* One writer: from the eject the board may write the card, and until insert() no
\* command reaches it, however late and out of step.
OneWriter == [][dev.ejected /\ medium' # medium => dev.card = "board" /\ medium'[0] = Boards]_vars

\* A Drive knows the medium's size, or there is no Drive.
SizeKnown == [](host.known \in {0, Blocks})

\* A quick device leaves a command unanswered only when an exception left its
\* callback, or when the host took the status for data: that of a failed read
\* longer than the device's buffer.
TimesOut == host.at \in {"cbw", "data", "csw"} /\ (out # <<>> \/ in.room > 0) /\ host'.at = "idle"
Unanswered ==
  \/ escaped
  \/ cmd.op = "read" /\ cmd.n > Chunk /\ dev.sense # NoSense
       /\ \E i \in DOMAIN host.data : host.data[i].kind = "csw"
NoSilence == [][prompt /\ TimesOut => Unanswered]_vars

\* A command does what it says and nothing else, it is answered, and after the eject it
\* does nothing at all.
CommandsTrue == CallIsDone /\ OnlyTheirs /\ OneWriter /\ SizeKnown /\ NoSilence

\* The same without the exceptions; neither holds.
OnlyTheirsAlways ==
  [][\A b \in LBAs : medium'[b] # medium[b] =>
       cmd.op = "write" /\ b \in cmd.lba..(cmd.lba + cmd.n - 1) /\ medium'[b] = cmd.tag]_vars
FailureIsTold == [][prompt /\ TimesOut => escaped]_vars
=============================================================================
