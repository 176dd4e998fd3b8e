------------------------------ MODULE UsbCore ------------------------------
(***************************************************************************)
(* The Device objects of usb/core.py (with util.py): each has tables of    *)
(* its own of what it claimed, over the one table of the host              *)
(* (usbif_host_xfer.c) and the device's own state.  Several objects can    *)
(* stand for one device, and an object outlives its device.                *)
(*                                                                         *)
(* There is one address, as on a port without a hub, and the next device   *)
(* gets it again.  A call is one step: the interpreter has one thread, and *)
(* a device that goes during a call makes a transfer of it fail first.     *)
(***************************************************************************)
EXTENDS UsbDesc, SequencesExt

CONSTANTS
  Objs,         \* Device objects a program keeps
  Kinds,        \* the devices there are, each a set of function kinds
  Finders,      \* what looks for a device: drivers and "any"
  OwnKinds,     \* those of them a program uses without a driver (bound)
  Touched       \* and the interfaces it then claims by hand (bound)

VARIABLES
  plug,         \* the device that is there, or {}
  bus,          \* the host's table and toggles, the device's, and what befell them
  obj           \* the objects: None, or [claims, alts, pick, ...]

vars == <<plug, bus, obj>>

----------------------------------------------------------------------------
(* What devices are: one or more functions, two interface and two endpoint *)
(* numbers for each.  A class here is the codes a driver looks at.         *)

\* CDC-ECM's data endpoints are in alternate 1 only; a drive with UASP has
\* Bulk-Only at alternate 0.
Function(kind, n, e) ==
  LET pair == <<Ep(e + 1, TRUE, "bulk"), Ep(e + 1, FALSE, "bulk")>>
      note == Ep(e, TRUE, "int")
  IN CASE kind = "acm" -> <<Itf(n, 0, "comm"), note, Itf(n + 1, 0, "data")>> \o pair
       [] kind = "ecm" ->
            <<Itf(n, 0, "comm"), note, Itf(n + 1, 0, "data"), Itf(n + 1, 1, "data")>> \o pair
       [] kind = "rndis" -> <<Itf(n, 0, "rndis"), note, Itf(n + 1, 0, "data")>> \o pair
       [] kind = "keyboard" -> <<Itf(n, 0, "keyboard"), note>>
       [] kind = "joystick" -> <<Itf(n, 0, "hid"), note, Ep(e, FALSE, "int")>>
       [] kind = "bot" -> <<Itf(n, 0, "bot")>> \o pair
       [] kind = "uas" -> <<Itf(n, 0, "bot")>> \o pair \o <<Itf(n, 1, "uas")>> \o pair
                            \o <<Ep(e, TRUE, "bulk"), Ep(e, FALSE, "bulk")>>
\* A device is the set of its functions, which stand in this order.
InOrder(kinds) ==
  SelectSeq(<<"acm", "ecm", "rndis", "joystick", "keyboard", "bot", "uas">>,
            LAMBDA kind : kind \in kinds)
Configuration(kinds) ==
  FlattenSeq([i \in 1 .. Cardinality(kinds) |->
                Function(InOrder(kinds)[i], 2 * i - 2, 2 * i - 1)])
KindOf(kinds, num) == InOrder(kinds)[num \div 2 + 1]

----------------------------------------------------------------------------
Nums == 0 .. 3

\* table: the host's claims, interface to alternate or -1; alt: the device's
\* alternates; host, dev: the endpoints whose data toggle is at DATA1.  Then, for
\* the properties, of the claimed interfaces: told, those an exception was raised about;
\* again, those given SET_INTERFACE without a fresh claim; orphan, those whose claim no
\* object knows of, because it was dropped.
NewBus ==
  [table |-> [i \in Nums |-> -1], alt |-> [i \in Nums |-> 0], host |-> {}, dev |-> {},
   told |-> {}, again |-> {}, orphan |-> {}]

Init == plug = {} /\ bus = NewBus /\ obj = [o \in Objs |-> None]

\* The configurations, their endpoints and what each driver makes of them.
Cfg == [k \in Kinds \cup {{}} |-> Configuration(k)]
EpsOf == [k \in DOMAIN Cfg |-> [itf \in Nums |-> [a \in 0 .. 1 |-> Endpoints(Cfg[k], itf, a)]]]
PickOf == [k \in Kinds |-> [f \in Finders \ {"any"} |-> FindOf(f, Cfg[k])]]

\* Devices have functions and interfaces 0 to 3, and an endpoint is of one interface,
\* though perhaps of both its alternates, as USB has it.
Addrs == [n : 1 .. 4, in : BOOLEAN]
ASSUME DevicesAssumption ==
  /\ Touched \subseteq Nums
  /\ \A k \in Kinds :
       /\ k # {}
       /\ \A ep \in Addrs :
            FindInterface(Cfg[k], ep) = None \/ FindInterface(Cfg[k], ep).num \in Nums
       /\ \A i, j \in Nums, a, b \in 0 .. 1 : i # j => EpsOf[k][i][a] \cap EpsOf[k][j][b] = {}

----------------------------------------------------------------------------
(* The port stops and starts (UsbPort), or the plug is pulled: whatever was *)
(* claimed is gone, and the objects do not know.                           *)

Plug(kinds) == plug = {} /\ plug' = kinds /\ bus' = NewBus /\ UNCHANGED obj
Unplug == plug # {} /\ plug' = {} /\ bus' = NewBus /\ UNCHANGED obj

----------------------------------------------------------------------------
(* Objects.                                                                *)

Matches(finder) ==
  CASE finder = "any" -> plug \in OwnKinds [] finder = "hid" -> HidMatch(Cfg[plug])
    [] OTHER -> PickOf[plug][finder] # None
Uses(r) ==
  IF r.finder # "any" THEN {r.pick.in, r.pick.out} \ {None}
  ELSE LET own == Cfg[r.of]
       IN {own[i].addr : i \in {j \in Eps(own) : Under(own, j).num \in Touched}}

Claims(r) == IF r = None THEN {} ELSE {i \in Nums : r.claims[i] >= 0}

\* find(custom_match=match) and the constructor of the driver: what it will use.  The
\* object that was there is dropped, and what it claimed of this device stays claimed.
Find(o, finder) ==
  /\ plug # {} /\ Matches(finder)
  /\ obj' = [obj EXCEPT ![o] =
       [is |-> "obj", finder |-> finder, of |-> plug,
        pick |-> IF finder = "any" THEN None ELSE PickOf[plug][finder],
        claims |-> [i \in Nums |-> -1], alts |-> [i \in Nums |-> 0]]]
  /\ bus' = [bus EXCEPT !.orphan = @ \cup {i \in Claims(obj[o]) : bus.table[i] >= 0}]
  /\ UNCHANGED plug

Has(itf, a) == \E i \in Itfs(Cfg[plug]) : Cfg[plug][i].num = itf /\ Cfg[plug][i].alt = a

\* How a call can go: it returned, the object after it, the bus after it.
Returns(r, b) == [ok |-> TRUE, obj |-> r, bus |-> b]
Raises(r, b, itf) ==
  [ok |-> FALSE, obj |-> r,
   bus |-> IF b.table[itf] >= 0 THEN [b EXCEPT !.told = @ \cup {itf}] ELSE b]

\* An object forgets its claims, the host its own and the pipes that came with them:
\* then there is nothing left to say of those interfaces.
Forgets(r, itfs) == [r EXCEPT !.claims = [i \in Nums |-> IF i \in itfs THEN -1 ELSE @[i]]]
Pipes(itfs) == UNION {EpsOf[plug][itf][a] : itf \in itfs, a \in 0 .. 1}
Frees(b, itfs) ==
  [b EXCEPT !.table = [i \in Nums |-> IF i \in itfs THEN -1 ELSE @[i]],
            !.host = @ \ Pipes(itfs),
            !.told = @ \ itfs, !.again = @ \ itfs, !.orphan = @ \ itfs]
\* Mutant: the endpoints of a fresh claim are left at whatever toggle they had.
MutFreshClaim(r, b, itf, a) ==
  LET eps == EpsOf[plug][itf][a]
  IN {Returns(r, [b EXCEPT !.host = @ \ eps, !.told = @ \ {itf}])}
\* After a fresh claim: the host's pipes are new, and CLEAR_FEATURE of each endpoint
\* in turn puts the device's toggle to DATA0 too, unless one fails.
FreshClaim(r, b, itf, a) ==
  LET eps == EpsOf[plug][itf][a]
      cleared(c) == [b EXCEPT !.host = @ \ eps, !.dev = @ \ c]
  IN {Returns(r, [cleared(eps) EXCEPT !.told = @ \ {itf}, !.again = @ \ {itf}])}
     \cup {Raises(r, cleared(c), itf) : c \in SUBSET eps \ {eps}}

\* _claim: nothing when the object has it so; host_claim gives 0 when some object
\* has, and otherwise lets go of another alternate and claims afresh.
ClaimOutcomes(r, b, itf) ==
  LET a == r.alts[itf]
      mine == [r EXCEPT !.claims[itf] = a]
      claimed == [b EXCEPT !.table[itf] = a, !.orphan = @ \ {itf}]
  IN CASE r.claims[itf] = a -> {Returns(r, b)}
       [] r.claims[itf] # a /\ plug # {} /\ b.table[itf] = a -> {Returns(mine, claimed)}
       [] OTHER ->
            {Raises(r, Frees(b, {itf}), itf)}
            \cup (IF plug # {} /\ Has(itf, a) THEN FreshClaim(mine, claimed, itf, a) ELSE {})

Does(o, outcomes) ==
  /\ \E x \in outcomes : obj' = [obj EXCEPT ![o] = x.obj] /\ bus' = x.bus
  /\ UNCHANGED plug

\* util.claim_interface.
ClaimInterface(o, itf) ==
  obj[o] # None /\ obj[o].finder = "any" /\ Does(o, ClaimOutcomes(obj[o], bus, itf))

\* set_interface_altsetting: the choice is kept whatever comes of the claim, and of
\* SET_INTERFACE, which puts the device's toggles at DATA0.
SetAlt(o, itf, a) ==
  /\ obj[o] # None /\ obj[o].finder = "any"
  /\ LET r == [obj[o] EXCEPT !.alts[itf] = a]
         set(b) == [b EXCEPT !.alt[itf] = a, !.dev = @ \ EpsOf[plug][itf][a],
                             !.again = IF r.claims[itf] = a \/ bus.table[itf] = a
                                       THEN @ \cup {itf} ELSE @]
     IN Does(o, UNION {IF ~x.ok THEN {x}
                       ELSE {Raises(x.obj, x.bus, itf)}
                            \cup (IF plug # {} /\ Has(itf, a) THEN {Returns(x.obj, set(x.bus))}
                                  ELSE {})
                       : x \in ClaimOutcomes(r, bus, itf)})

\* read and write: the interface of an endpoint is found once, here when the object
\* is, and an endpoint of no interface raises there; the host refuses one of no claimed
\* alternate, and a packet whose toggle is not the one expected is thrown away with an
\* acknowledgement.
Passes(b, itf, ep) ==
  IF (ep \in b.host) = (ep \in b.dev)
  THEN IF ep \in b.dev THEN [b EXCEPT !.host = @ \ {ep}, !.dev = @ \ {ep}]
       ELSE [b EXCEPT !.host = @ \cup {ep}, !.dev = @ \cup {ep}]
  ELSE LET late == IF ep.in THEN ep \in b.host ELSE ep \in b.dev
           now(s) == IF late THEN s \cup {ep} ELSE s \ {ep}
       IN [b EXCEPT !.host = now(@), !.dev = now(@)]
Moves(b, itf, ep) ==
  /\ plug # {} /\ b.table[itf] >= 0 /\ b.table[itf] = b.alt[itf]
  /\ ep \in EpsOf[plug][itf][b.alt[itf]]
Transfer(o, ep) ==
  /\ obj[o] # None /\ ep \in Uses(obj[o]) /\ FindInterface(Cfg[obj[o].of], ep) # None
  /\ LET itf == FindInterface(Cfg[obj[o].of], ep).num
     IN Does(o, UNION {IF x.ok /\ Moves(x.bus, itf, ep)
                       THEN {Returns(x.obj, Passes(x.bus, itf, ep)), x}
                       ELSE {Raises(x.obj, x.bus, itf)}
                       : x \in ClaimOutcomes(obj[o], bus, itf)})

\* _release: the object forgets the claim, then asks the host, which may fail with
\* the claim gone from its table all the same.
ReleaseOutcomes(r, b, itf) ==
  IF r.claims[itf] = -1 THEN {Returns(r, b)}
  ELSE {Raises(Forgets(r, {itf}), Frees(b, {itf}), itf)}
       \cup (IF plug # {} THEN {Returns(Forgets(r, {itf}), Frees(b, {itf}))} ELSE {})
\* util.release_interface, attach_kernel_driver.
Release(o, itf) ==
  obj[o] # None /\ obj[o].finder = "any" /\ Does(o, ReleaseOutcomes(obj[o], bus, itf))

\* _release_all, util.dispose_resources, and every driver's close: one release after
\* the other, in the order of a dict, as far as the first that raises; without the
\* device that is the first.
ReleaseAll(o) ==
  /\ obj[o] # None
  /\ LET r == obj[o]
         all == Claims(r)
         before == IF plug # {} THEN SUBSET all ELSE {{}}
     IN Does(o, {Returns(Forgets(r, done), Frees(bus, done)) : done \in before \cap {all}}
                \cup UNION {{Raises(Forgets(r, done \cup {i}), Frees(bus, done \cup {i}), i)
                             : i \in all \ done} : done \in before})

Next ==
  \/ \E kinds \in Kinds : Plug(kinds)
  \/ Unplug
  \/ \E o \in Objs :
       \/ \E finder \in Finders : Find(o, finder)
       \/ \E ep \in Addrs : Transfer(o, ep)
       \/ \E itf \in Touched, a \in 0 .. 1 : SetAlt(o, itf, a)
       \/ \E itf \in Touched : ClaimInterface(o, itf) \/ Release(o, itf)
       \/ ReleaseAll(o)

Spec == Init /\ [][Next]_vars

----------------------------------------------------------------------------
(* What the objects must keep true.                                        *)

\* The data toggles of a claimed interface agree at both ends, whichever objects
\* claimed, shared, released and reclaimed it, unless a call that touched it raised,
\* or it was given SET_INTERFACE without a fresh claim: of the alternate it had, or
\* of one that the object still takes for claimed after another object changed it.
Agree(itf) ==
  \A ep \in EpsOf[plug][itf][bus.table[itf]] : ep \in bus.host <=> ep \in bus.dev
InStep ==
  \A itf \in Nums : (bus.table[itf] >= 0 /\ itf \notin bus.told \cup bus.again) => Agree(itf)

\* core.py:251: an interface that is claimed already keeps its pipes, and its toggles.
\* It does not hold without the exception: set_interface_altsetting puts the device's
\* toggles back and leaves the host's.
KeepsToggles == \A itf \in Nums : (bus.table[itf] >= 0 /\ itf \notin bus.told) => Agree(itf)

\* Every claim in the host's table is one some object knows it has, and so gives back
\* with release_interface or dispose_resources: a dispose that raises keeps what it
\* did not get to.
ClaimsAreKnown ==
  \A itf \in Nums : bus.table[itf] >= 0 =>
    itf \in bus.orphan \/ \E o \in Objs : itf \in Claims(obj[o])

\* The objects' tables, the host's and the device agree as far as a call can tell.
TablesAgree == InStep /\ ClaimsAreKnown

\* What a driver picked is of one function, of its class, and can be used once it is
\* claimed: the endpoints are in alternate 0 of the interface core finds for them.
\* Serial's match takes a data interface for CDC-ACM's whatever else the device has.
ClassOf == [cdc |-> {"acm"}, net |-> {"rndis"}, hid |-> {"keyboard", "joystick"},
            msc |-> {"bot", "uas"}]
Fits(r) ==
  /\ KindOf(plug, r.pick.ctrl) \in ClassOf[r.finder]
  /\ KindOf(plug, r.pick.data) \in ClassOf[r.finder]
  /\ r.pick.ctrl \div 2 = r.pick.data \div 2
  /\ \A ep \in {r.pick.in, r.pick.out} \ {None} :
       /\ FindInterface(Cfg[plug], ep).num = r.pick.data
       /\ ep \in EpsOf[plug][r.pick.data][0]
DriverFits ==
  \A o \in Objs :
    (obj[o] # None /\ plug # {} /\ obj[o].of = plug /\ obj[o].finder # "any") =>
      \/ Fits(obj[o])
      \/ obj[o].finder = "cdc" /\ plug \cap {"ecm", "rndis"} # {}
=============================================================================
