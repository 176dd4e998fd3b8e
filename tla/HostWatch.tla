----------------------------- MODULE HostWatch ------------------------------
(***************************************************************************)
(* examples/host_enum.py: a program that watches what is plugged in.  It   *)
(* polls the host's counters and lists the devices again only when they    *)
(* moved; a listing takes the rows of the devices at once (find) and then  *)
(* asks each for its strings, one control transfer after another, while    *)
(* the host task goes on opening and closing devices under it.             *)
(***************************************************************************)
EXTENDS Integers, Sequences, FiniteSets, Bags

CONSTANTS
  Sockets,      \* the addresses the stack gives; one that is free is given again
  Makes,        \* vendor, product and strings of the devices that come
  Silent,       \* the makes whose three string indices are 0
  MaxChanges    \* bound: attaches and detaches

\* What a user of the module assumes of the constants.
WatchAssumption == Silent \subseteq Makes /\ MaxChanges \in Nat

VARIABLES
  slots,        \* usbif_host_devs: the make open at an address, or NoMake
  handler,      \* the host task: [step, at], between two writes of a handler
  counts,       \* usbif_host_attaches and usbif_host_detaches: [on, off]
  watch         \* main: [at, stats, rows, row, desc, names, lines, now, told, early]

vars == <<slots, handler, counts, watch>>

NoMake == "none"
NoRow == [at |-> 0, make |-> NoMake]
Dash == "-"
Fields == 3     \* manufacturer, product, serial number

Init ==
  /\ slots = [s \in Sockets |-> NoMake]
  /\ handler = [step |-> "idle", at |-> 0]
  /\ counts = [on |-> 0, off |-> 0]
  /\ watch = [at |-> "first", stats |-> counts, rows |-> {}, row |-> NoRow, desc |-> NoMake,
              names |-> <<>>, lines |-> EmptyBag, now |-> EmptyBag, told |-> EmptyBag,
              early |-> FALSE]

----------------------------------------------------------------------------
(* The host task.                                                          *)

\* on_new_dev: the row is there before the attach is counted.
NewDev(s, m) ==
  /\ handler.step = "idle" /\ slots[s] = NoMake /\ counts.on + counts.off < MaxChanges
  /\ slots' = [slots EXCEPT ![s] = m] /\ handler' = [step |-> "opened", at |-> s]
  /\ watch' = [watch EXCEPT !.early = @ \/ watch.at = "look"]
  /\ UNCHANGED counts
NewDevCounts ==
  /\ handler.step = "opened" /\ counts' = [counts EXCEPT !.on = @ + 1]
  /\ handler' = [step |-> "idle", at |-> 0] /\ UNCHANGED <<slots, watch>>

\* on_dev_gone: the device answers no more; it is counted before its row goes.
DevGone(s) ==
  /\ handler.step = "idle" /\ slots[s] # NoMake /\ counts.on + counts.off < MaxChanges
  /\ handler' = [step |-> "gone", at |-> s] /\ UNCHANGED <<slots, counts, watch>>
DevGoneCounts ==
  /\ handler.step = "gone" /\ counts' = [counts EXCEPT !.off = @ + 1]
  /\ handler' = [handler EXCEPT !.step = "counted"]
  /\ watch' = [watch EXCEPT !.early = @ \/ watch.at = "look"]
  /\ UNCHANGED slots
DevGoneFrees ==
  /\ handler.step = "counted" /\ slots' = [slots EXCEPT ![handler.at] = NoMake]
  /\ handler' = [step |-> "idle", at |-> 0] /\ UNCHANGED <<counts, watch>>

----------------------------------------------------------------------------
(* The program.                                                            *)

\* find(find_all=True): a Device for every row, as it is at this moment.
Rows == {[at |-> s, make |-> slots[s]] : s \in {t \in Sockets : slots[t] # NoMake}}
Find ==
  /\ \/ watch.at = "first" /\ watch' = [watch EXCEPT !.at = "look", !.rows = Rows,
                                          !.early = handler.step = "counted"]
     \/ /\ watch.at = "settle" /\ handler.step = "idle"   \* 500 ms: what it counted is done
        /\ watch' = [watch EXCEPT !.at = "again", !.rows = Rows, !.early = FALSE]
  /\ UNCHANGED <<slots, handler, counts>>

Lists == watch.at \in {"look", "again"}

\* listing goes on to the next row.
Describe ==
  /\ Lists /\ watch.row = NoRow
  /\ \E r \in watch.rows :
       watch' = [watch EXCEPT !.row = r, !.rows = @ \ {r}, !.desc = NoMake, !.names = <<>>]
  /\ UNCHANGED <<slots, handler, counts>>

\* A control transfer goes to the address; a device that is going fails it.
Answers(s) == slots[s] # NoMake /\ ~(handler.at = s /\ handler.step \in {"gone", "counted"})

Line(names) == [make |-> watch.row.make, names |-> names]
AddLine(names) ==
  watch' = [watch EXCEPT !.lines = @ (+) SetToBag({Line(names)}), !.row = NoRow, !.names = <<>>,
                         !.desc = NoMake]
Unreadable == <<"?">>

\* _device_desc: the descriptor, read once and kept.
DeviceDesc ==
  /\ Lists /\ watch.row # NoRow /\ watch.desc = NoMake /\ Answers(watch.row.at)
  /\ watch' = [watch EXCEPT !.desc = slots[watch.row.at]]
  /\ UNCHANGED <<slots, handler, counts>>

\* _string and util.get_string: None for index 0; otherwise the language IDs and the
\* string, from whoever has the address now.  (A string that two fields share is
\* read once, which changes only the number of transfers.)
StringRead ==
  /\ Lists /\ watch.desc # NoMake
  /\ LET s == watch.row.at
         more == Append(watch.names, IF watch.desc \in Silent THEN Dash ELSE slots[s])
     IN /\ watch.desc \notin Silent => Answers(s) /\ slots[s] \notin Silent
        /\ IF Len(more) = Fields THEN AddLine(more) ELSE watch' = [watch EXCEPT !.names = more]
  /\ UNCHANGED <<slots, handler, counts>>

\* describe lets a USBError go: the device left, did not answer in a second, or is
\* another by now and stalls for want of that string.
Unread ==
  /\ Lists /\ watch.row # NoRow /\ (watch.desc = NoMake \/ watch.desc \notin Silent)
  /\ AddLine(Unreadable)
  /\ UNCHANGED <<slots, handler, counts>>

Listed == Lists /\ watch.rows = {} /\ watch.row = NoRow

\* The first listing is printed, and then the counters are read.
FirstStats ==
  /\ watch.at = "look" /\ Listed
  /\ watch' = [watch EXCEPT !.at = "watch", !.now = watch.lines, !.told = watch.lines,
                            !.lines = EmptyBag, !.stats = counts]
  /\ UNCHANGED <<slots, handler, counts>>

\* Every 250 ms: nothing to do while the counters are what they were.
Poll ==
  /\ watch.at = "watch" /\ counts # watch.stats
  /\ watch' = [watch EXCEPT !.at = "settle", !.stats = counts]
  /\ UNCHANGED <<slots, handler, counts>>

\* Mutant: the counters are taken to be what they are after the listing.
MutCompared ==
  /\ watch.at = "again" /\ Listed
  /\ LET seen == watch.lines
     IN watch' = [watch EXCEPT !.at = "watch", !.now = seen, !.lines = EmptyBag, !.stats = counts,
                               !.told = (@ (-) (watch.now (-) seen)) (+) (seen (-) watch.now)]
  /\ UNCHANGED <<slots, handler, counts>>
\* The lines that went are printed as detaches and the new ones as attaches; two of
\* the same make count as two.
Compared ==
  /\ watch.at = "again" /\ Listed
  /\ LET seen == watch.lines
     IN watch' = [watch EXCEPT !.at = "watch", !.now = seen, !.lines = EmptyBag,
                               !.told = (@ (-) (watch.now (-) seen)) (+) (seen (-) watch.now)]
  /\ UNCHANGED <<slots, handler, counts>>

\* The time is up, or Ctrl-C at any moment: usb.core.stop() closes every device.
Ends ==
  /\ watch.at # "done" /\ slots' = [s \in Sockets |-> NoMake]
  /\ watch' = [watch EXCEPT !.at = "done"] /\ handler' = [step |-> "idle", at |-> 0]
  /\ UNCHANGED counts

HostTask ==
  \/ \E s \in Sockets : (\E m \in Makes : NewDev(s, m)) \/ DevGone(s)
  \/ NewDevCounts \/ DevGoneCounts \/ DevGoneFrees

Next ==
  \/ watch.at # "done" /\ HostTask
  \/ Find \/ Describe \/ DeviceDesc \/ StringRead \/ Unread \/ FirstStats \/ Poll \/ Compared
  \/ Ends

----------------------------------------------------------------------------
(* What the program knows.                                                 *)

MakesIn(rows) == BagOfAll(LAMBDA r : r.make, rows)
OwnNames(m) == [i \in 1..Fields |-> IF m \in Silent THEN Dash ELSE m]

\* The counters are what the program last saw, and the task is at rest.
Settled == watch.at = "watch" /\ watch.stats = counts /\ handler.step = "idle"

\* What the program printed adds up to what it takes to be plugged in; and once the
\* counters it read are still the host's, that is what is plugged in, make by make,
\* with no device's strings on another's line.  The devices may come, go, and take
\* each other's address at any point of a listing.  Only what happens between the
\* first listing and the first reading of the counters may be missed.
WatchTrue ==
  /\ watch.at \in {"watch", "settle"} => watch.told = watch.now
  /\ (Settled /\ ~watch.early) =>
       /\ MakesIn(watch.now) = MakesIn(SetToBag(Rows))
       /\ \A l \in BagToSet(watch.now) : l.names \in {Unreadable, OwnNames(l.make)}

\* examples/host_enum.py:11: "each attach and detach is printed".  It does not hold:
\* the counters are first read after the first listing.
NoneMissed == Settled => MakesIn(watch.now) = MakesIn(SetToBag(Rows))
=============================================================================
