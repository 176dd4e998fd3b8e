------------------------------ MODULE UsbPort ------------------------------
(***************************************************************************)
(* The host port as usb/core.py and usb_host.py keep it: what the module   *)
(* believes, over what the C module did.  host_start refuses (a wedged     *)
(* host, memory) and, like full_speed and the class filter, does nothing   *)
(* to a host that runs; host_stop always leaves the port off.              *)
(***************************************************************************)
CONSTANTS Settings      \* full_speed and classes, as start() compares them

VARIABLES
  mod,          \* _started, and _full_speed with _classes: [started, how]
  port,         \* [on, how]
  missed,       \* a restart raised, and neither a stop nor a good start since
  seen          \* what find() and running() last said: [found, runs], or Nothing

vars == <<mod, port, missed, seen>>

Default == CHOOSE s \in Settings : TRUE
Off == [started |-> FALSE, how |-> Default]
Nothing == [found |-> "none", runs |-> FALSE]

Init == mod = Off /\ port = [on |-> FALSE, how |-> Default] /\ missed = FALSE /\ seen = Nothing

HostStart(p, how) == IF p.on THEN p ELSE [on |-> TRUE, how |-> how]
HostStop(p) == [p EXCEPT !.on = FALSE]

\* Mutant: a setting that changed is passed on without the stop.
MutStartWith(how) ==
  IF mod.started /\ how = mod.how THEN UNCHANGED <<mod, port, missed>>
  ELSE /\ port' = HostStart(port, how) /\ mod' = [started |-> TRUE, how |-> how]
       /\ missed' = FALSE
\* start(): nothing when it was started with the same settings; otherwise a stop, if
\* it was started, and host_start, which may raise.
StartWith(how) ==
  IF mod.started /\ how = mod.how THEN UNCHANGED <<mod, port, missed>>
  ELSE LET stopped == IF mod.started THEN HostStop(port) ELSE port
       IN \/ /\ port' = HostStart(stopped, how) /\ mod' = [started |-> TRUE, how |-> how]
             /\ missed' = FALSE
          \/ port' = stopped /\ missed' = mod.started /\ UNCHANGED mod

Start(how) == StartWith(how) /\ seen' = Nothing

\* stop(), Port.deinit, the end of a `with Port()'; a soft reset does both halves too.
Stop ==
  /\ port' = IF mod.started THEN HostStop(port) ELSE port
  /\ mod' = Off /\ missed' = FALSE /\ seen' = Nothing

\* find(): start() if it was never started, the wait of _SETTLE_MS, and the list of
\* what is plugged in, empty when the host is off.
Find ==
  /\ IF mod.started THEN UNCHANGED <<mod, port, missed>> ELSE StartWith(Default)
  /\ seen' = [found |-> IF mod'.started /\ port'.on THEN "all" ELSE "none",
              runs |-> mod'.started /\ port'.on]

\* running(), and stats()'s "running".
Running == /\ seen' = [seen EXCEPT !.runs = mod.started /\ port.on]
           /\ UNCHANGED <<mod, port, missed>>

Next == (\E how \in Settings : Start(how)) \/ Stop \/ Find \/ Running

\* The port runs as the module says it does: with the settings it was last asked for,
\* and never unknown to it, so that running() is the truth; it is off behind the
\* module's back only after a restart that raised.
PortTruth ==
  /\ port.on => mod.started /\ port.how = mod.how
  /\ mod.started => port.on \/ missed

\* core.py:75: start() starts the port, or restarts it, and it runs when the call
\* returns.  It does not hold: after a restart that raised, a start() with the old
\* settings returns at once, as find()'s own does, and the port stays off.
StartStarts == mod.started => port.on
=============================================================================
