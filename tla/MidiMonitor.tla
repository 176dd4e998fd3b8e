---------------------------- MODULE MidiMonitor ----------------------------
(***************************************************************************)
(* examples/midi_host.py: the board hosts a MIDI instrument, plays a chord *)
(* on it and prints what it plays.  midiports' ports on usb.core give and  *)
(* take plain MIDI bytes; a read may end anywhere in them.                 *)
(***************************************************************************)
EXTENDS Integers, Sequences

CONSTANTS
  MaxPlayed,    \* messages the instrument plays
  Unplugs       \* the instrument may be unplugged

VARIABLES
  main,         \* how far the program is, and whether the port runs
  messages,     \* Messages: [msg, need, sysex]
  unread,       \* bytes the port has to give
  played,       \* the messages the instrument has played, and whether it is in a SysEx
  printed,      \* the messages printed so far
  plug          \* the instrument: plugged in, with an OUT pipe

vars == <<main, messages, unread, played, printed, plug>>

\* The messages the instrument plays: a note, a program change, a tune request,
\* the clock.  A SysEx comes in two packets, with anything of the clock's between.
Kinds == {<<144, 60, 100>>, <<192, 5>>, <<246>>, <<248>>}
SysExStart == <<240, 125, 2>>
SysExEnd == <<3, 247>>
\* midiports.message_length: the data bytes after a status.
message_length(b) == CASE b = 144 -> 2 [] b = 192 -> 1 [] OTHER -> 0

Init ==
  /\ main = [at |-> "start", runs |-> FALSE]
  /\ messages = [msg |-> <<>>, need |-> 0, sysex |-> FALSE]
  /\ unread = <<>> /\ played = [msgs |-> <<>>, sysex |-> FALSE] /\ printed = <<>>
  /\ plug \in [plugged : {TRUE}, outPipe : BOOLEAN]

----------------------------------------------------------------------------
(* Messages.feed.                                                          *)

Gives(m, out) == [m |-> m, out |-> out]
Nothing(m) == Gives(m, <<>>)

\* Mutant: what is left of a message is dropped when the clock ticks.
MutFeedByte(m, b) ==
  IF b >= 248 THEN Gives([m EXCEPT !.sysex = FALSE], <<<<b>>>>)
  ELSE IF m.sysex THEN Nothing([m EXCEPT !.sysex = b # 247])
  ELSE IF b = 240 THEN Nothing([m EXCEPT !.sysex = TRUE])
  ELSE IF b >= 128
  THEN Gives([m EXCEPT !.msg = <<b>>, !.need = message_length(b)],
             IF message_length(b) = 0 THEN <<<<b>>>> ELSE <<>>)
  ELSE IF m.msg = <<>> THEN Nothing(m)
  ELSE LET msg == Append(m.msg, b) IN
       IF Len(msg) = m.need + 1 THEN Gives([m EXCEPT !.msg = <<>>], <<msg>>)
       ELSE Nothing([m EXCEPT !.msg = msg])
\* A byte: of the clock, of a SysEx, a status, or data of the message begun.
FeedByte(m, b) ==
  CASE b >= 248 -> Gives(m, <<<<b>>>>)
    [] b < 248 /\ m.sysex -> Nothing([m EXCEPT !.sysex = b # 247])
    [] b = 240 /\ ~m.sysex -> Nothing([m EXCEPT !.sysex = TRUE])
    [] b \in 128 .. 247 \ {240} /\ ~m.sysex ->
         Gives([m EXCEPT !.msg = <<b>>, !.need = message_length(b)],
               IF message_length(b) = 0 THEN <<<<b>>>> ELSE <<>>)
    [] b < 128 /\ ~m.sysex /\ m.msg # <<>> ->
         LET msg == Append(m.msg, b) IN
         IF Len(msg) = m.need + 1 THEN Gives([m EXCEPT !.msg = <<>>], <<msg>>)
         ELSE Nothing([m EXCEPT !.msg = msg])
    [] OTHER -> Nothing(m)

Feed(data) ==
  LET Next2(g, b) == LET h == FeedByte(g.m, b) IN Gives(h.m, g.out \o h.out)
      fed[i \in 0 .. Len(data)] ==
        IF i = 0 THEN Nothing(messages) ELSE Next2(fed[i - 1], data[i])
  IN fed[Len(data)]

----------------------------------------------------------------------------
(* main.                                                                   *)

\* What main prints of the messages: not what is realtime.
Worth(msgs) == SelectSeq(msgs, LAMBDA m : m[1] < 248)

Rest == UNCHANGED <<messages, unread, played, printed>>

\* usb.core.start, and find_midi: until the instrument is there or 10 s are over.
Start == main.at = "start" /\ main' = [at |-> "finding", runs |-> TRUE] /\ UNCHANGED plug /\ Rest
Find ==
  /\ main.at = "finding"
  /\ \/ plug.plugged /\ main' = [main EXCEPT !.at = "open"]
     \/ main' = [at |-> "ended", runs |-> FALSE]
  /\ UNCHANGED plug /\ Rest

\* The ports, and the chord's notes on if there is an OUT pipe.  None of it is guarded: a
\* call that fails is main's end, with the port running.
Chord ==
  /\ main.at = "open" /\ (plug.plugged \/ ~plug.outPipe)
  /\ main' = [main EXCEPT !.at = "listening"] /\ UNCHANGED plug /\ Rest

\* readinto, and feed: as many bytes as have come.
Listen(n) ==
  /\ main.at = "listening" /\ n \in 1 .. Len(unread)
  /\ LET g == Feed(SubSeq(unread, 1, n))
     IN messages' = g.m /\ printed' = printed \o Worth(g.out)
  /\ unread' = SubSeq(unread, n + 1, Len(unread))
  /\ UNCHANGED <<main, played, plug>>

\* A call raises, with the instrument there or gone: nothing is closed.
Breaks ==
  /\ main.at \in {"open", "listening"}
  /\ main' = [main EXCEPT !.at = "raised"] /\ UNCHANGED plug /\ Rest

\* The 30 s are over: the chord's notes off, which may fail unnoticed; then close and stop.
Ends ==
  /\ main.at = "listening"
  /\ main' = [at |-> "ended", runs |-> FALSE] /\ UNCHANGED plug /\ Rest

----------------------------------------------------------------------------
(* The instrument.                                                         *)

Plays(bytes, m) ==
  /\ main.at \in {"open", "listening"} /\ plug.plugged
  /\ unread' = unread \o bytes /\ played' = [played EXCEPT !.msgs = @ \o m]
  /\ UNCHANGED <<main, messages, printed, plug>>
Play(m) ==
  /\ Len(played.msgs) < MaxPlayed /\ (played.sysex => m = <<248>>)
  /\ Plays(m, <<m>>)
PlaySysEx ==
  /\ main.at = "listening" /\ plug.plugged /\ Len(unread) <= MaxPlayed
  /\ unread' = unread \o (IF played.sysex THEN SysExEnd ELSE SysExStart)
  /\ played' = [played EXCEPT !.sysex = ~@]
  /\ UNCHANGED <<main, messages, printed, plug>>

Unplug ==
  /\ Unplugs /\ plug.plugged /\ main.at \notin {"ended", "raised"}
  /\ plug' = [plug EXCEPT !.plugged = FALSE] /\ UNCHANGED main /\ Rest

Next ==
  \/ Start \/ Find \/ Chord \/ Breaks \/ Ends \/ Unplug \/ PlaySysEx
  \/ \E n \in 1 .. Len(unread) : Listen(n)
  \/ \E m \in Kinds : Play(m)

----------------------------------------------------------------------------
\* What is printed is what was played, but for the clock, in order and with nothing of a
\* SysEx in it, wherever the reads cut the bytes, the clock ticks and calls fail; and when
\* all has been read, all of it.
MessagesTrue ==
  /\ Len(printed) <= Len(Worth(played.msgs))
  /\ printed = SubSeq(Worth(played.msgs), 1, Len(printed))
  /\ unread = <<>> => printed = Worth(played.msgs)
=============================================================================
