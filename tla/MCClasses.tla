----------------------------- MODULE MCClasses -----------------------------
(***************************************************************************)
(* The port and the class drivers in Python, each with what is at its      *)
(* other end: a behaviour picks one of them.  They share no state.         *)
(***************************************************************************)
EXTENDS UvcCamera, TLC

CONSTANTS
  Keys, Locks, Mods, LeftCtrl, Slots,                               \* HidLink
  MaxPacket, MaxBytes, MaxWant, Polls, MaxSent, Settings,           \* SerialPort ... UsbPort
  Blocks, Chunk, MaxBlocks, MaxTag, MaxCount, Tries, Bads,          \* MscBot
  Rate, Target, Drift,                                              \* UacAudio
  Sockets, Makes, Silent, MaxChanges,                               \* HostWatch
  Widths, Heights, PanelWidths, PanelHeights, Pads, Upscales, MaxDrawn,   \* PictureDraw
  Played, Channels, Buttons, MaxWaiting,                            \* MidiEffect
  MaxPlayed, Unplugs                                                \* MidiMonitor

VARIABLES
  part,                                                           \* which one
  line, phys, pipe, owed, lamp, got, dec, events, keys, leds, took,    \* HidLink
  wire, typed, pending, rd, given, torn,                            \* SerialPort
  tet, cmd, query, ready, net, sent, second, left, told, answered,   \* RndisTether
  mod, port, missed, seen,                                          \* UsbPort
  slots, handler, counts, watch,                                    \* HostWatch
  host, cbw, send, come, dev, medium, escaped, readonly, bad, prompt,           \* MscBot
  device, says, card, setting, level, primed, due, svc, clk, stream, latest,      \* UacAudio
  screen, fbs, front, tick,                                         \* PictureDraw
  effect, waiting, pressed, sounding,                                  \* MidiEffect
  main, messages, unread, melody, printed, plug                     \* MidiMonitor

SizesDef == <<2, 1>>

Hid == INSTANCE HidLink WITH shown <- keys, out <- events
Serial == INSTANCE SerialPort WITH made <- typed
Tether == INSTANCE RndisTether WITH took <- answered, asked <- query
Port == INSTANCE UsbPort
Watch == INSTANCE HostWatch
Msc == INSTANCE MscBot WITH cmd <- cbw, out <- send, in <- come
Audio == INSTANCE UacAudio WITH asked <- setting
Draw == INSTANCE PictureDraw
Effect == INSTANCE MidiEffect WITH held <- pressed
Monitor == INSTANCE MidiMonitor WITH played <- melody

ASSUME ConstantsAssumption ==
  /\ Hid!KeysAssumption /\ Serial!SizesAssumption /\ Tether!PollsAssumption
  /\ Watch!WatchAssumption
  /\ Msc!SizesAssumption /\ Audio!AudioAssumption /\ Audio!OffersAssumption

hidVars == <<line, phys, pipe, owed, lamp, got, dec, events, keys, leds, took>>
serialVars == <<wire, typed, pending, rd, given, torn>>
tetherVars == <<tet, cmd, query, ready, net, sent, second, left, told, answered>>
portVars == <<mod, port, missed, seen>>
watchVars == <<slots, handler, counts, watch>>
coreVars == <<portVars, watchVars>>
mscVars == <<host, cbw, send, come, dev, medium, escaped, readonly, bad, prompt>>
audioVars == <<device, says, card, setting, level, primed, due, svc, clk, stream, latest>>
drawVars == <<screen, fbs, front, tick>>
effectVars == <<effect, waiting, pressed, sounding>>
monitorVars == <<main, messages, unread, melody, printed, plug>>
otherVars == <<drawVars, effectVars, monitorVars>>
allVars == <<part, hidVars, serialVars, tetherVars, coreVars, mscVars, audioVars, otherVars, vars>>

OneScreen ==
  [enc |-> "mjpeg", w |-> 2, h |-> 1, dw |-> 4, dh |-> 2, pad |-> 0, two |-> FALSE,
   swaps |-> FALSE, shares |-> FALSE, tearFree |-> FALSE, scale |-> 1]

ClassesInit ==
  /\ part \in {"hid", "serial", "tether", "port", "msc", "video", "audio", "effect", "monitor", "watch", "draw"}
  /\ Hid!Init /\ Serial!Init /\ Tether!Init /\ Port!Init /\ Watch!Init /\ Msc!Init /\ Audio!Init
  /\ Effect!Init /\ Monitor!Init
  /\ Init
  \* what is not run has one initial state
  /\ part # "hid" => line.kind = "keyboard" /\ ~line.repeats
  /\ part # "msc" => readonly /\ bad = {} /\ prompt /\ host.known = 0
  /\ part = "msc" /\ readonly => bad = {}
  \* what is asked of a device that is not quick does not turn on the medium (MscBot)
  /\ part = "msc" /\ ~prompt => ~readonly /\ bad = {}
  /\ part # "effect" => effect.who = "fixed"
  /\ part # "monitor" => plug.outPipe
  /\ part # "audio" => device = "board" /\ clk.clock = Rate
  /\ part # "video" => format = "yuy2" /\ who = "ours"
  /\ Draw!Init
  /\ part # "draw" => screen = OneScreen

HidStep ==
  /\ part = "hid" /\ Hid!Next
  /\ UNCHANGED <<part, serialVars, tetherVars, coreVars, mscVars, audioVars, otherVars, vars>>
SerialStep ==
  /\ part = "serial" /\ Serial!Next
  /\ UNCHANGED <<part, hidVars, tetherVars, coreVars, mscVars, audioVars, otherVars, vars>>
TetherStep ==
  /\ part = "tether" /\ Tether!Next
  /\ UNCHANGED <<part, hidVars, serialVars, coreVars, mscVars, audioVars, otherVars, vars>>
PortStep ==
  /\ part = "port" /\ Port!Next
  /\ UNCHANGED <<part, hidVars, serialVars, tetherVars, watchVars, mscVars, audioVars, otherVars, vars>>
WatchStep ==
  /\ part = "watch" /\ Watch!Next
  /\ UNCHANGED <<part, hidVars, serialVars, tetherVars, portVars, mscVars, audioVars, otherVars, vars>>
MscStep ==
  /\ part = "msc" /\ Msc!Next
  /\ UNCHANGED <<part, hidVars, serialVars, tetherVars, coreVars, audioVars, otherVars, vars>>
VideoStep ==
  /\ part = "video" /\ Next
  /\ UNCHANGED <<part, hidVars, serialVars, tetherVars, coreVars, mscVars, audioVars, otherVars>>
AudioStep ==
  /\ part = "audio" /\ Audio!Next
  /\ UNCHANGED <<part, hidVars, serialVars, tetherVars, coreVars, mscVars, otherVars, vars>>

DrawStep ==
  /\ part = "draw" /\ Draw!Next
  /\ UNCHANGED <<part, hidVars, serialVars, tetherVars, coreVars, mscVars, audioVars, effectVars, monitorVars, vars>>
EffectStep ==
  /\ part = "effect" /\ Effect!Next
  /\ UNCHANGED <<part, hidVars, serialVars, tetherVars, coreVars, mscVars, audioVars, drawVars, monitorVars, vars>>
MonitorStep ==
  /\ part = "monitor" /\ Monitor!Next
  /\ UNCHANGED <<part, hidVars, serialVars, tetherVars, coreVars, mscVars, audioVars, drawVars, effectVars, vars>>

ClassesNext ==
  \/ HidStep \/ SerialStep \/ TetherStep \/ PortStep \/ WatchStep
  \/ MscStep \/ VideoStep \/ AudioStep \/ DrawStep \/ EffectStep \/ MonitorStep

ClassesSpec == ClassesInit /\ [][ClassesNext]_allVars

\* HidLink: when every report has been read, the program's keys are the keys held.
KeysTrue == part = "hid" => Hid!KeysTrue
\* HidLink: presses and releases alternate, and no held key is reported up.
EventsTrue == Hid!EventsTrue
\* HidLink, of the decoder's docstring: a modifier is down around the keys it modifies.
ModifierAround == part = "hid" => Hid!ModifierAround
\* SerialPort: each byte is given once, in order.
BytesOnce == part = "serial" => Serial!BytesOnce
\* RndisTether: a command ends with its own answer.
AnswerIsOurs == part = "tether" => Tether!AnswerIsOurs
\* UsbPort: the port runs as the module says it does.
PortTruth == part = "port" => Port!PortTruth
\* UsbPort, of core.py:75: a start() that returned leaves the port running.
StartStarts == part = "port" => Port!StartStarts
\* MscBot: a call that returns has done what it says, the medium changes only where a
\* write of the host says and not after an eject, and no command is left unanswered.
CommandsTrue == Msc!CommandsTrue
\* MscBot: the two ends' books.
Consistent == part = "msc" => Msc!Consistent
\* UacAudio: the volume heard is the one the computer set last.
VolumeTrue == part = "audio" => Audio!VolumeTrue
\* UacAudio: the feedback endpoint says what service() last worked out, and with it the
\* ring, once primed, runs neither dry nor over.
PaceHolds == part = "audio" => Audio!PaceHolds
\* UacAudio: a clock runs at the rate of the stream started last on it.
PlaysAtPitch == part = "audio" => Audio!PlaysAtPitch
\* MidiEffect: no harmony outlives its note or its setting.
NoNoteLeft == part = "effect" => Effect!NoNoteLeft
\* What two programs print is so.  MidiMonitor: it is what was played.  HostWatch: it
\* adds up to what is plugged in.
PrintedTrue == (part = "monitor" => Monitor!MessagesTrue) /\ (part = "watch" => Watch!WatchTrue)
\* UvcCamera: pictures are of the mode announced, each later than the one before.
\* PictureDraw: the panel shows the last of them, every pixel in its place.
DisplayTrue == PictureTrue /\ [](part = "draw" => Draw!PanelTrue)
=============================================================================
