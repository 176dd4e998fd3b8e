---------------------------- MODULE RndisTether ----------------------------
(***************************************************************************)
(* Tether of usb-host-net/usb/host/net.py: the RNDIS handshake over        *)
(* encapsulated commands.  The phone answers each in its own time, a       *)
(* command gives up after so many looks, and an answer that comes later    *)
(* waits for the next command's.                                           *)
(***************************************************************************)
EXTENDS Integers, Sequences

CONSTANTS
  Polls,        \* looks for an answer: 50 of up to a second each
  MaxSent       \* commands sent in all (bound)

\* What a user of the module assumes of the constants.
PollsAssumption == Polls \in Nat \ {0} /\ MaxSent \in Nat

VARIABLES
  tet,          \* the Tether in use: [req, up, mac]
  cmd,          \* the command under way: idle, or [type, id, n, polls]
  asked,        \* commands the phone has not answered
  ready,        \* its answers not fetched: [type, id, n, ok]
  net,          \* host_net_start's interface: [on, mac]
  sent,         \* commands sent so far, which number them
  second,       \* a Tether was made after another had given up on a command
  left,         \* the phone went while the interface was up, and no stop since
  told,         \* how the last active() ended: returned or raised
  took          \* the numbers of the last command that ended and of its answer

vars == <<tet, cmd, asked, ready, net, sent, second, left, told, took>>

Idle == [type |-> "idle"]
NoMac == 0
Fresh == [req |-> 0, up |-> FALSE, mac |-> NoMac]

Init ==
  /\ tet = Fresh /\ cmd = Idle /\ asked = <<>> /\ ready = <<>> /\ sent = 0
  /\ net = [on |-> FALSE, mac |-> NoMac] /\ second = FALSE /\ left = FALSE /\ told = "returned"
  /\ took = [cmd |-> 0, answer |-> 0]

After == [init |-> "query", query |-> "set", set |-> "start"]

Raises == cmd' = Idle /\ told' = "raised"

\* The first half of _command: the object's count, then SEND_ENCAPSULATED_COMMAND,
\* which may fail.
SendAs(t, type, id) ==
  /\ t.req < MaxSent /\ tet' = [t EXCEPT !.req = @ + 1]
  /\ \/ /\ sent < MaxSent /\ sent' = sent + 1
        /\ cmd' = [type |-> type, id |-> id, n |-> sent + 1, polls |-> Polls]
        /\ asked' = Append(asked, [type |-> type, id |-> id, n |-> sent + 1])
        /\ UNCHANGED told
     \/ Raises /\ UNCHANGED <<sent, asked>>

\* Mutant: every command of a kind has the same id.
MutSendCommand(t, type) == SendAs(t, type, 1)
SendCommand(t, type) == SendAs(t, type, t.req + 1)

\* active(True): INITIALIZE, the MAC address, the packet filter.
Activate ==
  /\ cmd = Idle /\ ~tet.up /\ SendCommand(tet, "init")
  /\ UNCHANGED <<ready, net, second, left, took>>

\* The phone.
Answer ==
  /\ asked # <<>> /\ asked' = Tail(asked)
  /\ \E ok \in BOOLEAN :
       ready' = Append(ready, [type |-> Head(asked).type, id |-> Head(asked).id,
                               n |-> Head(asked).n, ok |-> ok])
  /\ UNCHANGED <<tet, cmd, net, sent, second, left, told, took>>

\* GET_ENCAPSULATED_RESPONSE finds nothing, or fails; the last look raises.
NotYet ==
  /\ cmd # Idle
  /\ IF cmd.polls > 1 THEN cmd' = [cmd EXCEPT !.polls = @ - 1] /\ UNCHANGED told ELSE Raises
  /\ UNCHANGED <<tet, asked, ready, net, sent, second, left, took>>

Ours(r) == r.type = cmd.type /\ r.id = cmd.id

\* An answer to another command is passed over.
PassOver ==
  /\ cmd # Idle /\ ready # <<>> /\ ~Ours(Head(ready)) /\ ready' = Tail(ready)
  /\ IF cmd.polls > 1 THEN cmd' = [cmd EXCEPT !.polls = @ - 1] /\ UNCHANGED told ELSE Raises
  /\ UNCHANGED <<tet, asked, net, sent, second, left, took>>

\* What active() does with an answer: the next command, and host_net_start after
\* the last, which may raise (an interface is up, memory).
NextCommand(mac) ==
  IF cmd.type = "set"
  THEN \/ /\ ~net.on /\ net' = [on |-> TRUE, mac |-> tet.mac] /\ tet' = [tet EXCEPT !.up = TRUE]
          /\ cmd' = Idle /\ told' = "returned" /\ UNCHANGED <<sent, asked>>
       \/ Raises /\ UNCHANGED <<net, tet, sent, asked>>
  ELSE /\ SendCommand(IF cmd.type = "query" THEN [tet EXCEPT !.mac = mac] ELSE tet, After[cmd.type])
       /\ UNCHANGED net

TakeAnswer ==
  /\ cmd # Idle /\ ready # <<>> /\ Ours(Head(ready)) /\ ready' = Tail(ready)
  /\ took' = [cmd |-> cmd.n, answer |-> Head(ready).n]
  /\ IF Head(ready).ok THEN NextCommand(Head(ready).n)
     ELSE Raises /\ UNCHANGED <<net, tet, sent, asked>>
  /\ UNCHANGED <<second, left>>

\* active(False).
Deactivate ==
  /\ cmd = Idle /\ tet.up /\ tet' = [tet EXCEPT !.up = FALSE]
  /\ net' = [net EXCEPT !.on = FALSE] /\ left' = FALSE /\ told' = "returned"
  /\ UNCHANGED <<cmd, asked, ready, sent, second, took>>

\* DEV_GONE takes the interface down (HostNet); nothing tells the Tether.
PhoneGoes ==
  /\ net.on /\ net' = [net EXCEPT !.on = FALSE] /\ left' = TRUE /\ asked' = <<>> /\ ready' = <<>>
  /\ UNCHANGED <<tet, cmd, sent, second, told, took>>

\* Another Tether on the same phone; the one there was is dropped as it is.
Remake ==
  /\ cmd = Idle /\ tet.req > 0 /\ tet' = Fresh
  /\ second' = (second \/ asked # <<>> \/ ready # <<>>) /\ told' = "returned"
  /\ left' = FALSE
  /\ UNCHANGED <<cmd, asked, ready, net, sent, took>>

Next ==
  \/ Activate \/ Answer \/ NotYet \/ PassOver \/ TakeAnswer \/ Deactivate \/ PhoneGoes
  \/ Remake

\* A command ends with its own answer and never with one that an earlier command
\* stopped waiting for, unless a second Tether started its count again while
\* answers to the first were still to come; the interface is up with the address an
\* answer gave; and up is true of it, unless the phone has gone.
AnswerIsOurs ==
  /\ second \/ took.cmd = took.answer
  /\ net.on => net.mac # NoMac
  /\ tet.up => net.on \/ left
=============================================================================
