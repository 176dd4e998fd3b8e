----------------------------- MODULE MidiEffect -----------------------------
(***************************************************************************)
(* examples/midi_harmonizer.py and midi_harmonizer_ui.py: the board puts   *)
(* harmonies on the notes a computer plays into it and sends them back.    *)
(* In the second the player changes the chord and its direction while      *)
(* notes are held.  What comes back is a synthesizer's.                    *)
(***************************************************************************)
EXTENDS Integers, Sequences

CONSTANTS
  Played,       \* the notes the player has keys for
  Channels,     \* the channels the player uses; 0 is the first
  Buttons,      \* the chords the player taps
  MaxWaiting    \* messages that may wait for the program

VARIABLES
  effect,       \* which program, and its chord, direction and harmony
  waiting,      \* messages that have come in
  held,         \* <<channel, note>> of the keys that are down
  sounding      \* what the synthesizer sounds

vars == <<effect, waiting, held, sounding>>

\* A message; its velocity is 0 or not.
Note(on, c, n, loud) == [is |-> "note", on |-> on, c |-> c, n |-> n, loud |-> loud]
AllNotesOff(c) == [is |-> "allOff", c |-> c]

\* The synthesizer starts a note on a note-on, but one of velocity 0 is a note-off.
Starts(m) == m.is = "note" /\ m.on /\ m.loud

----------------------------------------------------------------------------
CHORDS == <<{4, 7}, {3, 7}, {4, 7, 10}, {7}, {12}>>
DIRECTIONS == {"Up", "Down", "Both"}
HARMONY == {4, 7}

\* The intervals, both ways.
Intervals(chord, direction) ==
  (IF direction \in {"Up", "Both"} THEN CHORDS[chord] ELSE {})
    \cup (IF direction \in {"Down", "Both"} THEN {-iv : iv \in CHORDS[chord]} ELSE {})

\* _emit, and harmonize: the note, and its harmonies that are notes.
Stack(n, harmony) == {n} \cup {h \in {n + iv : iv \in harmony} : h \in 0 .. 127}
\* The notes that what is sent for a message is about: its stack, or all of a channel.
About(m, x) == x[1] = m.c /\ (m.is = "note" => x[2] \in Stack(m.n, effect.harmony))

Init ==
  /\ effect \in [who : {"fixed", "ui"}, chord : {1}, direction : {"Up"}, harmony : {HARMONY}]
  /\ waiting = <<>> /\ held = {} /\ sounding = {}

\* run: everything that waits, message by message, so that a note goes by the last of
\* them that is about it.
Quiet(i, x) == \A j \in i + 1 .. Len(waiting) : ~About(waiting[j], x)
Drained ==
  LET starts == {i \in DOMAIN waiting : Starts(waiting[i])}
      started(i) == {<<waiting[i].c, n>> : n \in Stack(waiting[i].n, effect.harmony)}
  IN {x \in sounding : Quiet(0, x)} \cup UNION {{x \in started(i) : Quiet(i, x)} : i \in starts}
\* _pump, from LVGL's timer, does the same.
Pump ==
  /\ waiting # <<>> /\ waiting' = <<>> /\ sounding' = Drained
  /\ UNCHANGED <<effect, held>>

\* Mutant: the setting is changed and nothing is sent.
MutRebuilds(chord, direction) ==
  /\ effect' = [effect EXCEPT !.chord = chord, !.direction = direction,
                              !.harmony = Intervals(chord, direction)]
  /\ sounding' = sounding
\* _rebuild_harmony: its All Notes Off has status 0xB0.
Rebuilds(chord, direction) ==
  /\ effect' = [effect EXCEPT !.chord = chord, !.direction = direction,
                              !.harmony = Intervals(chord, direction)]
  /\ sounding' = {x \in sounding : x[1] # 0}

\* on_change, of each row of buttons.  LVGL runs it and _pump one at a time.
OnChange ==
  /\ effect.who = "ui"
  /\ \/ \E chord \in Buttons : Rebuilds(chord, effect.direction)
     \/ \E direction \in DIRECTIONS : Rebuilds(effect.chord, direction)
  /\ UNCHANGED <<waiting, held>>

----------------------------------------------------------------------------
(* The player.                                                             *)

Sends(m) == Len(waiting) < MaxWaiting /\ waiting' = Append(waiting, m) /\ UNCHANGED <<effect, sounding>>

Press(c, n) == <<c, n>> \notin held /\ held' = held \cup {<<c, n>>} /\ Sends(Note(TRUE, c, n, TRUE))
\* Some keyboards end a note with a note-on of velocity 0: that of the first channel.
Release(c, n) ==
  <<c, n>> \in held /\ held' = held \ {<<c, n>>} /\ Sends(Note(c = 0, c, n, FALSE))
Panic(c) == Sends(AllNotesOff(c)) /\ UNCHANGED held

Next ==
  \/ Pump \/ OnChange
  \/ \E c \in Channels : Panic(c) \/ \E n \in Played : Press(c, n) \/ Release(c, n)

Spec == Init /\ [][Next]_vars

----------------------------------------------------------------------------
Owed(x) == \E k \in held : k[1] = x[1] /\ x[2] \in Stack(k[2], effect.harmony)

\* No harmony outlives its note or the setting that made it: when nothing waits, what
\* sounds is a key that is held or one of its harmonies, under the chord and
\* direction of now.  In the program with buttons, on the first channel.
NoNoteLeft ==
  waiting = <<>> => \A x \in sounding : effect.who = "fixed" \/ x[1] = 0 => Owed(x)

\* Of its docstring: on every channel.
NoNoteLeftAnywhere == waiting = <<>> => \A x \in sounding : Owed(x)
=============================================================================
