------------------------------ MODULE HidLink ------------------------------
(***************************************************************************)
(* A keyboard's keys, from where they are pressed to the events a program  *)
(* sees: usb_hid.py on a board (or a keyboard of the trade) makes reports, *)
(* hid.py reads them packet by packet, and the decoder of                  *)
(* examples/hid_host.py turns them into key events and lock lights.        *)
(*                                                                         *)
(* A report is what is held; the packets it travels in keep only their     *)
(* lengths: 8 is a full packet, a keyboard's report with its ID is 8 + 1,  *)
(* a mouse's is 5.                                                         *)
(***************************************************************************)
EXTENDS Integers, Sequences, FiniteSets

CONSTANTS
  Keys,         \* usages a report's slots can hold; Locks are some of them
  Locks,
  Mods,         \* the modifier bits; LeftCtrl is the bit a report ID of 1 sets
  LeftCtrl,
  Slots         \* keys a report can carry: 6

\* What a user of the module assumes of the constants.
KeysAssumption ==
  /\ IsFiniteSet(Keys) /\ IsFiniteSet(Mods) /\ Keys \cap Mods = {}
  /\ Locks \subseteq Keys /\ LeftCtrl \in Mods

VARIABLES
  line,         \* what is at the two ends; chosen once
  phys,         \* what is held: [mod, keys]
  pipe,         \* packets the interrupt endpoint still has to send
  owed,         \* the last change was not put in a report, and its sender knows
  lamp,         \* the LED report the device keeps
  got,          \* the packets of the read that is under way
  dec,          \* KeyboardDecoder: [held, mod]
  out,          \* the events of the report just fed
  shown,        \* the keys the events so far say are down
  leds,         \* main's leds
  took          \* its last set_leds returned

vars == <<line, phys, pipe, owed, lamp, got, dec, out, shown, leds, took>>

\* Where the reports come from, which interface the host found, and the two
\* settings of a session: whether a packet due within 2 ms comes in that time,
\* and whether the keyboard took SET_IDLE (some stall it, and keep repeating).
Line == [kind : {"board", "boardBoot", "keyboard"}, first : {"keyboard", "mouse"},
         late : BOOLEAN, repeats : BOOLEAN]

\* hid.Device.__init__: boot is only for an interface with a boot protocol, which
\* usb_hid's is not; a host that asked it for boot protocol has protocol 0 set.
Boot == line.kind # "board"

Init ==
  /\ line \in {l \in Line : /\ (l.first = "mouse" => l.kind # "keyboard")
                             /\ (l.repeats => l.kind = "keyboard")
                             /\ (l.late => l.kind = "board")}
  /\ phys = [mod |-> {}, keys |-> {}] /\ pipe = <<>> /\ owed = FALSE
  /\ lamp = {} /\ got = <<>>
  /\ dec = [held |-> {}, mod |-> {}] /\ out = <<>> /\ shown = {} /\ leds = {} /\ took = FALSE

----------------------------------------------------------------------------
(* The device.                                                             *)

\* The report's packets: with an ID in front, or in boot protocol without.  The
\* slots of a keyboard that is out of them do not say what is held.
Rollover(p) == Cardinality(p.keys) > Slots
Packets(p) ==
  LET rep == [mod |-> p.mod, keys |-> p.keys, roll |-> Rollover(p)]
  IN IF Boot THEN <<[len |-> 8, id |-> FALSE, rep |-> rep]>>
     ELSE <<[len |-> 8, id |-> TRUE, rep |-> rep], [len |-> 1, id |-> TRUE, rep |-> rep]>>
MousePacket == [len |-> 5, id |-> TRUE, rep |-> [mod |-> {}, keys |-> {}, roll |-> FALSE]]

\* In boot protocol only the first device's report is sent; the call for
\* another returns as if it had been.
NotSent(who) == line.kind = "boardBoot" /\ line.first # who

\* Mutant: the wait for the last report is left out, and its buffer refilled.
MutSubmit(who, packets) ==
  IF NotSent(who) THEN pipe' = pipe ELSE pipe' = packets
\* _send: waits while the endpoint is busy, up to 100 ms.
Submit(who, packets) ==
  pipe = <<>> /\ IF NotSent(who) THEN pipe' = pipe ELSE pipe' = packets

\* The keys change and the program, or the keyboard, reports it.  send_report
\* raises when the endpoint stays busy.
Change(p) ==
  /\ p # phys /\ (Rollover(p) => line.kind = "keyboard") /\ phys' = p
  /\ \/ Submit("keyboard", Packets(p)) /\ owed' = FALSE
     \/ pipe # <<>> /\ owed' = TRUE /\ UNCHANGED pipe
  /\ UNCHANGED <<line, lamp, got, dec, shown, leds, took>> /\ out' = <<>>

\* The program tries again.
Resend ==
  /\ owed /\ Submit("keyboard", Packets(phys)) /\ owed' = FALSE
  /\ UNCHANGED <<line, phys, lamp, got, dec, shown, leds, took>> /\ out' = <<>>

\* A keyboard whose idle rate was not set to 0 repeats what is held.
Repeat ==
  /\ line.kind = "keyboard" /\ line.repeats /\ pipe = <<>> /\ ~owed /\ pipe' = Packets(phys)
  /\ UNCHANGED <<line, phys, owed, lamp, got, dec, shown, leds, took>> /\ out' = <<>>

MoveMouse ==
  /\ line.kind # "keyboard" /\ Submit("mouse", <<MousePacket>>)
  /\ UNCHANGED <<line, phys, owed, lamp, got, dec, shown, leds, took>> /\ out' = <<>>

----------------------------------------------------------------------------
(* The host.                                                               *)

Newest == got[Len(got)]
\* hid.read goes on after a full packet, outside boot protocol: all but the newest are full.
Goes == got # <<>> /\ ~Boot /\ Newest.len = 8
Length == 8 * (Len(got) - 1) + Newest.len

Take ==
  /\ pipe # <<>> /\ (got = <<>> \/ Goes)
  /\ got' = Append(got, Head(pipe)) /\ pipe' = Tail(pipe)
  /\ UNCHANGED <<line, phys, owed, lamp, dec, shown, leds, took>> /\ out' = <<>>

\* keyboard_report, by length.  The 8 bytes of a longer report that came late put
\* its ID where the modifiers are.
Report ==
  CASE Length = 8 /\ ~got[1].id -> got[1].rep
    [] Length = 8 /\ got[1].id -> [got[1].rep EXCEPT !.mod = {LeftCtrl}]
    [] Length = 9 -> got[1].rep
    [] OTHER -> [roll |-> TRUE]

\* The events of a set of keys that went up, or down: one of each, in any order.
Listed(set) ==
  CHOOSE s \in [1 .. Cardinality(set) -> set] :
    /\ \A u \in set : \E i \in DOMAIN s : s[i] = u
    /\ \A i, j \in DOMAIN s : s[i] = s[j] => i = j
Events(up, set) == [i \in 1 .. Cardinality(set) |-> [up |-> up, u |-> Listed(set)[i]]]

\* Mutant: a report of more keys than it can carry is taken as one of none.
MutFeed(rep) ==
  LET now == IF rep.roll THEN {} ELSE rep.keys
  IN /\ out' = Events(TRUE, dec.mod \ rep.mod) \o Events(TRUE, dec.held \ now)
             \o Events(FALSE, now \ dec.held) \o Events(FALSE, rep.mod \ dec.mod)
     /\ dec' = [held |-> now, mod |-> rep.mod]
\* KeyboardDecoder.feed: the modifiers that went up, the keys up, the keys down,
\* the modifiers that went down.  ErrorRollOver leaves everything alone.
Feed(rep) ==
  IF rep.roll THEN out' = <<>> /\ UNCHANGED dec
  ELSE /\ out' = Events(TRUE, dec.mod \ rep.mod) \o Events(TRUE, dec.held \ rep.keys)
               \o Events(FALSE, rep.keys \ dec.held) \o Events(FALSE, rep.mod \ dec.mod)
       /\ dec' = [held |-> rep.keys, mod |-> rep.mod]

\* What is down after some events: a key goes by the last of them that is about it.
Seen(s, es) ==
  LET about(u) == {i \in DOMAIN es : es[i].u = u}
      down == {i \in DOMAIN es : ~es[i].up /\ \A j \in about(es[i].u) : j <= i}
  IN {u \in s : about(u) = {}} \cup {es[i].u : i \in down}

\* The lock keys that went down each turn their light over.
Lights == {out'[i].u : i \in {j \in DOMAIN out' : ~out'[j].up}} \cap Locks
\* on_set_report files what came under the report ID of one of the devices.
\* set_leds sends it with ID 0 (wValue 0x0200): a keyboard of the trade keeps it.
Kept(new) == IF line.kind = "keyboard" THEN new ELSE lamp
\* Device.set_leds; main lets a refusal (USBError) go.
SetLeds ==
  IF Lights = {} THEN UNCHANGED <<leds, lamp, took>>
  ELSE /\ leds' = (leds \ Lights) \cup (Lights \ leds)
       /\ took' \in BOOLEAN /\ lamp' = IF took' THEN Kept(leds') ELSE lamp

\* The read ends: a short packet, boot protocol, or nothing more within 2 ms.  A
\* report that is not a keyboard's is passed over.
Deliver ==
  /\ got # <<>> /\ (Goes => pipe = <<>> \/ line.late)
  /\ IF Report = [roll |-> TRUE] THEN out' = <<>> /\ UNCHANGED dec ELSE Feed(Report)
  /\ shown' = Seen(shown, out') /\ got' = <<>>
  /\ SetLeds
  /\ UNCHANGED <<line, phys, pipe, owed>>

Next ==
  \/ \E m \in SUBSET Mods, k \in SUBSET Keys : Change([mod |-> m, keys |-> k])
  \/ Resend \/ Repeat \/ MoveMouse \/ Take \/ Deliver

Spec == Init /\ [][Next]_vars

----------------------------------------------------------------------------
(* What the events promise.                                                *)

\* Once every report has been read, the keys the program thinks are down are the
\* keys that are down: packets are never taken for another report's, a report
\* that is repeated, dropped or over the slots changes nothing, and one that was
\* not sent was refused to its sender (but for the device that boot protocol silences).
KeysTrue ==
  (pipe = <<>> /\ got = <<>> /\ ~owed /\ ~NotSent("keyboard") /\ ~line.late /\ ~Rollover(phys))
    => shown = phys.mod \cup phys.keys

\* Presses and releases alternate for each key, and a key is never reported up by
\* a report in which it was held.
EventsTrue ==
  [][(got # <<>> /\ got' = <<>>) =>
       \A i \in DOMAIN out' :
         /\ out'[i].up <=> (out'[i].u \in Seen(shown, SubSeq(out', 1, i - 1)))
         /\ (out'[i].up /\ ~line.late) => out'[i].u \notin got[1].rep.mod \cup got[1].rep.keys]_vars

\* examples/hid_host.py:63: "a modifier down before the key it modifies and up after
\* it".  It does not hold: Feed puts it the other way round.
ModifierAround ==
  \A i, j \in DOMAIN out :
    out[i].u \in Mods /\ out[j].u \in Keys /\ out[i].up = out[j].up
      => (i < j <=> ~out[i].up)

\* usb_hid.py:22: the LED report is kept for get_last_received_report.  It does not
\* hold of set_leds of hid.py, whose report has no ID.
LedsKept == took => lamp = leds
=============================================================================
