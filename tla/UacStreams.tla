----------------------------- MODULE UacStreams -----------------------------
(***************************************************************************)
(* What an audio device offers and what a host makes of it: the            *)
(* descriptors of SpeakerInterface (usb/device/audio.py) and of two        *)
(* devices of the trade, the walk and the choice of _uac.py, and _streams  *)
(* of usb/host/audio.py, which asks a clock for its rates.                 *)
(*                                                                         *)
(* Rates are in kHz; a stream's endpoint is its direction.                 *)
(***************************************************************************)
EXTENDS UsbDesc

CONSTANT Rate           \* SpeakerInterface's

Devices == {"board", "headset", "dac"}

AcHeader(version) == [is |-> "header", version |-> version]
Clock(id) == [is |-> "clock", id |-> id]
Terminal(id, source) == [is |-> "terminal", id |-> id, source |-> source]
General(term, channels) == [is |-> "general", term |-> term, channels |-> channels]
FormatType(bits, channels, rates) ==
  [is |-> "format", bits |-> bits, channels |-> channels, rates |-> rates]
Iso(dir, usage) == [is |-> "ep", addr |-> dir, kind |-> "isoc", usage |-> usage]

\* SpeakerInterface.desc_cfg: USB Audio 2.0, one clock, and a feedback endpoint after
\* the stream's.
DescCfgAudio ==
  <<Itf(0, 0, "control"), AcHeader(2), Clock(4), Terminal(1, 4), Terminal(3, 4),
    Itf(1, 0, "streaming"), Itf(1, 1, "streaming"), General(1, 2), FormatType(16, 0, {}),
    Iso("out", "data"), Iso("in", "feedback")>>

\* A 2.0 headset: both directions on the second of its clocks, the microphone in
\* stereo; and a 1.0 device, whose rates are in its descriptors.
Headset ==
  <<Itf(0, 0, "control"), AcHeader(2), Clock(7), Clock(4), Terminal(1, 4), Terminal(2, 4),
    Itf(1, 0, "streaming"), Itf(1, 1, "streaming"), General(1, 2), FormatType(16, 0, {}),
    Iso("out", "data"), Iso("in", "feedback"),
    Itf(1, 2, "streaming"), General(1, 2), FormatType(24, 0, {}), Iso("out", "data"),
    Itf(2, 0, "streaming"), Itf(2, 1, "streaming"), General(2, 2), FormatType(16, 0, {}),
    Iso("in", "data")>>
Dac ==
  <<Itf(0, 0, "control"), AcHeader(1), Itf(1, 0, "streaming"),
    Itf(1, 1, "streaming"), General(1, 0), FormatType(16, 2, {48}), Iso("out", "data"),
    Itf(1, 2, "streaming"), General(1, 0), FormatType(24, 2, {44}), Iso("out", "data"),
    Itf(2, 0, "streaming"), Itf(2, 1, "streaming"), General(2, 0), FormatType(16, 1, {44, 48}),
    Iso("in", "data")>>
BlobOf == [board |-> DescCfgAudio, headset |-> Headset, dac |-> Dac]

\* The rates a device can really be set to, and what its clock answers RANGE with.
Runs == [board |-> {Rate}, headset |-> {44, 48}, dac |-> {44, 48}]
RangesOf ==
  [board |-> {[lo |-> Rate, hi |-> Rate, res |-> 0]},
   headset |-> {[lo |-> 44, hi |-> 44, res |-> 0], [lo |-> 46, hi |-> 50, res |-> 1]},
   dac |-> {}]

----------------------------------------------------------------------------
(* _uac.py.                                                                *)

Of(b, is) == {i \in DOMAIN b : b[i].is = is}
Version2(b) == \E i \in Of(b, "header") : b[i].version = 2
\* The descriptors of one alternate setting.
Part(b, i, is) == {j \in Of(b, is) : Under(b, j) = b[i]}
LastOf(b, is) == b[Max(is)]

\* The endpoint of a stream: isochronous, and not its feedback.  Mutant: the last one.
MutDataEps(b, i) == Part(b, i, "ep")
DataEps(b, i) == {j \in Part(b, i, "ep") : b[j].usage # "feedback"}

\* A 2.0 stream is clocked by what its terminal names, or by the first clock there is.
ClockOf(b, term) ==
  LET named == {j \in Of(b, "terminal") : b[j].id = term}
  IN IF ~Version2(b) THEN 0
     ELSE IF named # {} THEN LastOf(b, named).source ELSE b[Min(Of(b, "clock"))].id

Streams(b) ==
  {LET i == s
       fmt == LastOf(b, Part(b, i, "format"))
       general == LastOf(b, Part(b, i, "general"))
   IN [alt |-> b[i].alt, dir |-> LastOf(b, DataEps(b, i)).addr, bits |-> fmt.bits,
       channels |-> IF Version2(b) THEN general.channels ELSE fmt.channels,
       rates |-> fmt.rates, clock |-> ClockOf(b, general.term)] :
     s \in {i \in Itfs(b) : b[i].class = "streaming" /\ b[i].alt # 0 /\ DataEps(b, i) # {}}}

\* rates_from_ranges: a discrete rate as it is, of a range the standard rates on its steps.
Standard == {44, 48, 96}
RatesFromRanges(ranges) ==
  UNION {IF r.res = 0 \/ r.lo = r.hi THEN {r.lo}
         ELSE {x \in Standard : r.lo <= x /\ x <= r.hi /\ (x - r.lo) % r.res = 0} : r \in ranges}

\* _streams: a 2.0 stream has its clock's rates, or none if the clock will not say.
Found(v, answers) ==
  {IF s.rates # {} \/ s.clock = 0 THEN s
   ELSE [s EXCEPT !.rates = IF answers THEN RatesFromRanges(RangesOf[v]) ELSE {}] :
     s \in Streams(BlobOf[v])}

\* choose: of those that match, the highest rate, then the most bits, then channels.
Unset == 0
Top(rates) == IF rates = {} THEN 0 ELSE Max(rates)
Better(s, t) ==
  \/ Top(s.rates) > Top(t.rates)
  \/ Top(s.rates) = Top(t.rates) /\ s.bits > t.bits
  \/ Top(s.rates) = Top(t.rates) /\ s.bits = t.bits /\ s.channels >= t.channels
ChooseStream(found, dir, want) ==
  LET fit == {s \in found : /\ s.dir = dir /\ want.rate \in s.rates \cup {Unset}
                            /\ want.channels \in {Unset, s.channels}
                            /\ want.bits \in {Unset, s.bits}}
  IN IF fit = {} THEN None
     ELSE [is |-> "stream", s |-> CHOOSE s \in fit : \A t \in fit : Better(s, t),
           downmix |-> FALSE]

\* _Stream.__init__: a stereo microphone will do for one asked for in mono.
Picks(found, dir, want) ==
  LET direct == ChooseStream(found, dir, want)
      stereo == ChooseStream(found, dir, [want EXCEPT !.channels = 2, !.bits = 16])
  IN IF direct # None \/ want.channels # 1 \/ dir # "in" \/ want.bits \notin {Unset, 16}
     THEN direct
     ELSE IF stereo = None THEN None ELSE [stereo EXCEPT !.downmix = TRUE]

\* The rate it then asks for: the caller's, the highest, or 48 if there are none.
RateFor(pick, want) ==
  IF want.rate # Unset THEN want.rate
  ELSE IF pick = None \/ pick.s.rates = {} THEN 48 ELSE Max(pick.s.rates)

\* What a program can end up with, on each device, its clock answering or not.
AskFor == [rate : {Unset, 44, 48}, channels : {Unset, 1, 2}, bits : {Unset, 16}]
OffersOf ==
  [v \in Devices |-> [answers \in BOOLEAN |-> [dir \in {"out", "in"} |->
     LET found == Found(v, answers)
     IN {LET pick == Picks(found, dir, w)
         IN [pick |-> pick, rate |-> RateFor(pick, w)] : w \in AskFor}]]]
=============================================================================
