------------------------------ MODULE UacAudio ------------------------------
(***************************************************************************)
(* A sound card and its host.  The board's card is SpeakerInterface        *)
(* (usb/device/audio.py), with the computer's volume control, the program  *)
(* that empties its ring and calls service(), and the feedback that steers *)
(* the computer's clock.  The host is Speaker and Microphone (usb/host/    *)
(* audio.py), one program with one of each, on that card or on one of the  *)
(* trade.                                                                  *)
(*                                                                         *)
(* A callback of the device may run inside service().  The ring is its     *)
(* level, in samples; the feedback is samples in a period of 1000.         *)
(***************************************************************************)
EXTENDS UacStreams

CONSTANTS
  Target,       \* the level service() holds, half the ring
  Drift         \* how far the program's clock may be off, in a thousandth of the rate

\* What a user of the module assumes of the constants.
AudioAssumption == Target \in Nat \ {0} /\ Drift \in Nat

Dirs == {"out", "in"}

\* What it assumes of the descriptors: a stream goes the way it was asked for, and where
\* rates are said, its rate is one the device can be set to.
OffersAssumption ==
  \A v \in Devices, answers \in BOOLEAN, d \in Dirs : \A offer \in OffersOf[v][answers][d] :
    offer.pick # None =>
      offer.pick.s.dir = d /\ (offer.pick.s.rates # {} => offer.rate \in Runs[v])

VARIABLES
  device, says, \* the card; whether its clock answers RANGE
  card,         \* SpeakerInterface: [alt, mute, volume, pending, fb, att]
  asked,        \* ghost: the mute and volume the computer last set
  level, primed, due, svc,  \* the ring; ghost; service() is owed; service() under way
  clk,          \* the rate each of the device's clocks runs at
  stream,       \* the program's Speaker and Microphone
  latest        \* ghost: the one started last, or "none"

vars == <<device, says, card, asked, level, primed, due, svc, clk, stream, latest>>
ringVars == <<level, primed, due, svc>>
hostVars == <<clk, stream, latest>>

Nominal == 1000
NewCard == [alt |-> 0, mute |-> FALSE, volume |-> 0, pending |-> None, fb |-> Nominal,
            att |-> None]
Feeds(v) == [is |-> "feedback", value |-> v]

\* A 1.0 stream's rate is its endpoint's; the headset may start at either of its rates.
KeyOf(pick) == IF pick.s.clock # 0 THEN "clock" ELSE pick.s.dir
CanRun == Runs[device]

Init ==
  /\ device \in Devices /\ says \in BOOLEAN
  /\ device = "board" => says
  /\ card = NewCard /\ asked = [mute |-> FALSE, volume |-> 0]
  /\ level = 0 /\ primed = FALSE /\ due = FALSE /\ svc = None
  /\ clk \in [{"clock", "out", "in"} -> CanRun]
  /\ stream = [d \in Dirs |-> None] /\ latest = "none"

----------------------------------------------------------------------------
(* The card's requests.                                                    *)

Board == device = "board"

\* A SET's data lands in a buffer of zeros; its status stage takes what arrived.
SetUp(control) ==
  [card EXCEPT !.pending =
     [is |-> "pending", control |-> control, value |-> IF control = "mute" THEN FALSE ELSE 0]]
Take(c) ==
  IF c.pending = None THEN c
  ELSE [c EXCEPT !.pending = None,
                 !.mute = IF c.pending.control = "mute" THEN c.pending.value ELSE @,
                 !.volume = IF c.pending.control = "volume" THEN c.pending.value ELSE @]
Values(control) == IF control = "mute" THEN BOOLEAN ELSE {0, -10}

SetVolume ==
  /\ Board /\ \E control \in {"mute", "volume"} : \E v \in Values(control) :
       /\ card' = Take([SetUp(control) EXCEPT !.pending.value = v])
       /\ asked' = [asked EXCEPT ![control] = v]
  /\ UNCHANGED <<device, says, ringVars, hostVars>>
\* The computer gives up before it has sent the data.
SetVolumeCut ==
  /\ Board /\ \E control \in {"mute", "volume"} : card' = SetUp(control)
  /\ UNCHANGED <<device, says, asked, ringVars, hostVars>>
\* A GET's status stage takes nothing, nor does a stalled request have one.  Mutant:
\* any status stage takes what is pending.
MutGetAck(c) == Take(c)
GetAck(c) == c
GetVolume ==
  /\ Board /\ card' = GetAck(card)
  /\ UNCHANGED <<device, says, asked, ringVars, hostVars>>
\* The rate can be set, to no effect.
SetClockAck(c) == [c EXCEPT !.pending = None]

\* SET_INTERFACE: the ring attached or not, and the feedback anew, or none.  Mutant:
\* it starts at the nominal rate, and fb stays what it was.
MutSetAlt(c, alt) ==
  [c EXCEPT !.alt = alt, !.att = IF alt = 0 THEN None ELSE Feeds(Nominal)]
SetAlt(c, alt) ==
  [c EXCEPT !.alt = alt, !.fb = IF alt = 0 THEN @ ELSE Nominal,
            !.att = IF alt = 0 THEN None ELSE Feeds(Nominal)]

\* A bus reset: the program's streams are of a device that is gone.
Reset ==
  /\ Board /\ card' = [card EXCEPT !.alt = 0] /\ primed' = FALSE
  /\ stream' = [d \in Dirs |-> None] /\ latest' = "none"
  /\ UNCHANGED <<device, says, asked, level, due, svc, clk>>

----------------------------------------------------------------------------
(* The card's ring.                                                        *)

\* A period: the computer sends what the feedback says, the program takes its own
\* rate's worth.
Flow ==
  /\ Board /\ card.alt # 0 /\ card.att # None /\ ~due
  /\ \E d \in {-Drift, 0, Drift} :
       LET sum == level + card.att.value - (Nominal + d)
       IN level' = IF sum < 0 THEN 0 ELSE IF sum > 2 * Target THEN 2 * Target ELSE sum
  /\ primed' = (primed \/ level' = Target) /\ due' = TRUE
  /\ UNCHANGED <<device, says, card, asked, svc, hostVars>>

\* service(): a ring an eighth off target moves the request by a thousandth, and never
\* by more than a hundredth.  Mutant: fuller asks for more, too.
Clamp(fb) ==
  LET hundredth == Nominal \div 100
  IN IF fb < Nominal - hundredth THEN Nominal - hundredth
     ELSE IF fb > Nominal + hundredth THEN Nominal + hundredth ELSE fb
Step(error) == (Nominal * error * 8) \div (1000 * Target)
MutWanted(lvl) ==
  Clamp(Nominal - (IF lvl > Target THEN Step(Target - lvl) ELSE Step(lvl - Target)))
Wanted(lvl) == Clamp(Nominal - Step(lvl - Target))

\* It reads alt and the level, and then may find the session changed.
ServiceReads ==
  /\ Board /\ svc = None /\ due
  /\ IF card.alt = 0 THEN due' = FALSE /\ UNCHANGED svc
     ELSE svc' = Feeds(Wanted(level)) /\ UNCHANGED due
  /\ UNCHANGED <<device, says, card, asked, level, primed, hostVars>>
ServiceSets ==
  /\ svc # None /\ svc' = None /\ due' = FALSE
  /\ card' = IF svc.value = card.fb THEN card ELSE [card EXCEPT !.fb = svc.value, !.att = svc]
  /\ UNCHANGED <<device, says, asked, level, primed, hostVars>>

----------------------------------------------------------------------------
(* The host.                                                               *)

\* Speaker(dev, ...), Microphone(dev, ...).
New ==
  /\ \E d \in Dirs : \E offer \in OffersOf[device][says][d] :
       /\ stream[d] # None => ~stream[d].open
       /\ stream' = [stream EXCEPT ![d] =
            IF offer.pick = None THEN None
            ELSE [is |-> "obj", pick |-> offer.pick, rate |-> offer.rate, open |-> FALSE]]
       /\ latest' = IF latest = d THEN "none" ELSE latest
  /\ UNCHANGED <<device, says, card, asked, ringVars, clk>>

\* SET_INTERFACE reaches the card, or is lost.
Selects(alt, came) == card' = IF Board /\ came THEN SetAlt(card, alt) ELSE card

\* _start: the alternate, the rate (which a clock of one rate may refuse), the stream;
\* or without a stream, parked.  Mutant: it trusts the rate is set.
MutSetsRate(o) == clk
SetsRate(o) ==
  IF o.rate \in CanRun THEN [clk EXCEPT ![KeyOf(o.pick)] = o.rate] ELSE clk
Start(d) ==
  /\ stream[d] # None /\ ~stream[d].open
  /\ \E opens \in BOOLEAN :
       /\ LET c == SetClockAck(SetAlt(card, stream[d].pick.s.alt))
          IN card' = IF ~Board THEN card ELSE IF opens THEN c ELSE SetAlt(c, 0)
       /\ stream' = [stream EXCEPT ![d].open = opens]
       /\ latest' = IF opens THEN d ELSE IF latest = d \/ (latest # "none" /\
            KeyOf(stream[latest].pick) = KeyOf(stream[d].pick)) THEN "none" ELSE latest
  /\ clk' = SetsRate(stream[d])
  /\ primed' = FALSE
  /\ UNCHANGED <<device, says, asked, level, due, svc>>
\* The claim is refused, or SET_INTERFACE fails: nothing more is tried.
StartFails(d) ==
  /\ stream[d] # None /\ ~stream[d].open
  /\ \E came \in BOOLEAN : Selects(stream[d].pick.s.alt, came)
  /\ primed' = FALSE
  /\ UNCHANGED <<device, says, asked, level, due, svc, hostVars>>
\* stop, and _park, which ignores its failures.
Stop(d) ==
  /\ stream[d] # None /\ stream[d].open /\ \E came \in BOOLEAN : Selects(0, came)
  /\ stream' = [stream EXCEPT ![d].open = FALSE]
  /\ latest' = IF latest = d THEN "none" ELSE latest
  /\ primed' = FALSE
  /\ UNCHANGED <<device, says, asked, level, due, svc, clk>>

Next ==
  \/ SetVolume \/ SetVolumeCut \/ GetVolume \/ Reset \/ Flow \/ ServiceReads \/ ServiceSets
  \/ New \/ (\E d \in Dirs : Start(d) \/ StartFails(d) \/ Stop(d))

Spec == Init /\ [][Next]_vars

----------------------------------------------------------------------------
(* Properties.                                                             *)

\* mute and volume are what the computer last set, whatever it gave up on between.
VolumeTrue == card.mute = asked.mute /\ card.volume = asked.volume

\* While the card streams, its feedback endpoint says what service() last worked out:
\* a service() that a change of session cut in two leaves no older value there.
FeedbackTrue ==
  card.alt # 0 => card.att = Feeds(card.fb)

\* Once its ring has reached the target it neither runs dry nor over, however the two
\* clocks drift within the bound, as long as the session lasts.
RingHolds == primed => 0 < level /\ level < 2 * Target

\* The computer is paced by the ring's level.
PaceHolds == FeedbackTrue /\ RingHolds

\* The stream started last runs at the rate its object has, and so plays at its pitch,
\* on every device that says its rates, and on one that does not if it can run at it.
PlaysAtPitch ==
  latest # "none" =>
    LET o == stream[latest]
    IN o.pick.s.rates # {} \/ o.rate \in CanRun => clk[KeyOf(o.pick)] = o.rate
=============================================================================
