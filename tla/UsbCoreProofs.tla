---------------------------- MODULE UsbCoreProofs ----------------------------
(***************************************************************************)
(* Proofs about UsbCore, for any number of Device objects and any devices  *)
(* whose endpoints are each of one interface: the objects' tables, the     *)
(* host's and the device's toggles agree as far as a call can tell.        *)
(*                                                                         *)
(* Every call makes of its object and the bus one of a set of outcomes, so *)
(* the proof is one lemma for each kind of outcome (what it leaves is      *)
(* Sound) and one that an object and a bus that are sound keep IInv.       *)
(***************************************************************************)
EXTENDS UsbCore, TLAPS

----------------------------------------------------------------------------
(* The inductive invariant.                                                *)

Buses ==
  [table : [Nums -> -1 .. 1], alt : [Nums -> 0 .. 1], host : SUBSET Addrs, dev : SUBSET Addrs,
   told : SUBSET Nums, again : SUBSET Nums, orphan : SUBSET Nums]
Picks == {None} \cup {PickOf[k][f] : k \in Kinds, f \in Finders \ {"any"}}
Objects ==
  [is : {"obj"}, finder : Finders, of : Kinds, pick : Picks,
   claims : [Nums -> -1 .. 1], alts : [Nums -> 0 .. 1]]
TypeOK == plug \in Kinds \cup {{}} /\ bus \in Buses /\ obj \in [Objs -> Objects \cup {None}]

\* Nothing is claimed of a device that is not there.
NoneClaimed(b) == plug = {} => \A i \in Nums : b.table[i] = -1

IInv == TypeOK /\ NoneClaimed(bus) /\ TablesAgree

----------------------------------------------------------------------------
(* What a call leaves.                                                     *)

\* Both ends of the endpoints in eps are at the same toggle.
Level(b, eps) == \A ep \in eps : ep \in b.host <=> ep \in b.dev
Claimed(b, i) == b.table[i] >= 0 /\ i \notin b.told \cup b.again
Stepped(b) == \A i \in Nums : Claimed(b, i) => Level(b, EpsOf[plug][i][b.table[i]])
Known(r, b, others) ==
  \A i \in Nums : b.table[i] >= 0 => i \in b.orphan \/ r.claims[i] >= 0 \/ i \in others

\* An object and a bus that agree, others being the claims of the other objects.
Sound(r, b, others) ==
  r \in Objects /\ b \in Buses /\ NoneClaimed(b) /\ Stepped(b) /\ Known(r, b, others)

Others(o) == UNION {Claims(obj[p]) : p \in Objs \ {o}}

\* Before a call the object and the bus agree.
LEMMA SoundBefore ==
  ASSUME IInv, NEW o \in Objs, obj[o] # None
  PROVE  Sound(obj[o], bus, Others(o))
<1>1. obj[o] \in Objects /\ bus \in Buses
  BY DEF IInv, TypeOK
<1>2. Stepped(bus)
  BY DEF IInv, TablesAgree, InStep, Agree, Stepped, Claimed, Level
<1>3. Known(obj[o], bus, Others(o))
  BY DEF IInv, TablesAgree, ClaimsAreKnown, Known, Others, Claims
<1> QED BY <1>1, <1>2, <1>3 DEF IInv, Sound

\* A call whose outcomes are all sound keeps the invariant.
LEMMA SoundAfter ==
  ASSUME IInv, NEW o \in Objs, NEW S, Does(o, S),
         \A x \in S : Sound(x.obj, x.bus, Others(o))
  PROVE  IInv'
<1>1. PICK x \in S : obj' = [obj EXCEPT ![o] = x.obj] /\ bus' = x.bus
  BY DEF Does
<1>2. plug' = plug /\ Sound(x.obj, x.bus, Others(o))
  BY <1>1 DEF Does
<1>3. TypeOK'
  BY <1>1, <1>2 DEF IInv, TypeOK, Sound
<1>4. NoneClaimed(bus)'
  BY <1>1, <1>2 DEF Sound, NoneClaimed
<1>5. InStep'
  <2>1. EpsOf' = EpsOf
    OBVIOUS
  <2> QED BY <1>1, <1>2, <2>1 DEF Sound, Stepped, Claimed, Level, InStep, Agree
<1>6. ClaimsAreKnown'
  <2> SUFFICES ASSUME NEW i \in Nums, bus'.table[i] >= 0, i \notin bus'.orphan
               PROVE  \E p \in Objs : i \in Claims(obj'[p])
    BY DEF ClaimsAreKnown, Claims
  <2>1. x.obj.claims[i] >= 0 \/ i \in Others(o)
    BY <1>1, <1>2 DEF Sound, Known
  <2>2. CASE x.obj.claims[i] >= 0
    <3>1. obj'[o] = x.obj /\ x.obj # None
      BY <1>1, <1>2 DEF IInv, TypeOK, Sound, Objects, None
    <3> QED BY <2>2, <3>1 DEF Claims
  <2>3. CASE i \in Others(o)
    BY <1>1, <2>3 DEF Others, IInv, TypeOK
  <2> QED BY <2>1, <2>2, <2>3
<1> QED BY <1>3, <1>4, <1>5, <1>6 DEF IInv, TablesAgree

\* An exception only adds to what is excepted.
LEMMA RaiseSound ==
  ASSUME NEW r, NEW b, NEW i \in Nums, NEW others, Sound(r, b, others)
  PROVE  Sound(Raises(r, b, i).obj, Raises(r, b, i).bus, others)
<1>1. CASE b.table[i] >= 0
  BY <1>1 DEF Sound, Raises, Buses, NoneClaimed, Stepped, Claimed, Level, Known
<1>2. CASE ~(b.table[i] >= 0)
  BY <1>2 DEF Raises
<1> QED BY <1>1, <1>2

\* Endpoints of another interface than the one at hand.
LEMMA Apart ==
  ASSUME plug \in Kinds, NEW i \in Nums, NEW j \in Nums, i # j, NEW a \in 0 .. 1, NEW c \in 0 .. 1,
         NEW ep \in EpsOf[plug][i][a]
  PROVE  ep \notin EpsOf[plug][j][c]
BY DevicesAssumption

\* What is freed is claimed no more, and no other interface has its endpoints.  The
\* object may forget the same claims or keep them.
LEMMA FreesSound ==
  ASSUME NEW r, NEW b, NEW others, Sound(r, b, others), NEW S \in SUBSET Nums,
         plug \in Kinds \cup {{}}, NEW q \in Objects,
         \A i \in Nums \ S : q.claims[i] = r.claims[i]
  PROVE  Sound(q, Frees(b, S), others)
<1> DEFINE c == Frees(b, S)
           eps == Pipes(S)
<1>1. b \in Buses
  BY DEF Sound
<1>2. /\ c.table = [i \in Nums |-> IF i \in S THEN -1 ELSE b.table[i]]
      /\ c.host = b.host \ eps /\ c.dev = b.dev /\ c.told = b.told \ S
      /\ c.again = b.again \ S /\ c.orphan = b.orphan \ S
  BY <1>1 DEF Frees, Buses
<1>3. c \in Buses
  <2>1. [i \in Nums |-> IF i \in S THEN -1 ELSE b.table[i]] \in [Nums -> -1 .. 1]
    BY <1>1 DEF Buses
  <2>2. b.host \ eps \in SUBSET Addrs /\ b.told \ S \in SUBSET Nums
        /\ b.again \ S \in SUBSET Nums /\ b.orphan \ S \in SUBSET Nums
    BY <1>1 DEF Buses
  <2> QED BY <1>1, <2>1, <2>2 DEF Frees, Buses
<1> HIDE DEF c
<1>4. \A i \in Nums : c.table[i] = IF i \in S THEN -1 ELSE b.table[i]
  BY <1>2
<1>5. NoneClaimed(c)
  BY <1>4 DEF Sound, NoneClaimed
<1>6. Stepped(c)
  <2> SUFFICES ASSUME NEW j \in Nums, Claimed(c, j), NEW ep \in EpsOf[plug][j][c.table[j]]
               PROVE  ep \in c.host <=> ep \in c.dev
    BY DEF Stepped, Level
  <2>1. j \notin S /\ Claimed(b, j) /\ c.table[j] = b.table[j] /\ b.table[j] \in 0 .. 1
    BY <1>1, <1>2, <1>4 DEF Claimed, Buses
  <2>2. plug \in Kinds
    BY <2>1 DEF Sound, NoneClaimed
  <2>3. ep \notin eps
    BY <2>1, <2>2, Apart DEF Pipes
  <2>4. ep \in b.host <=> ep \in b.dev
    BY <2>1 DEF Sound, Stepped, Level
  <2> QED BY <1>2, <2>3, <2>4
<1>7. Known(q, c, others)
  BY <1>2, <1>4 DEF Sound, Known
<1>8. Sound(q, c, others)
  BY <1>3, <1>5, <1>6, <1>7 DEF Sound
<1> QED BY <1>8 DEF c

\* A release takes the same claims from the object and from the host's table.
LEMMA ReleaseSound ==
  ASSUME NEW r, NEW b, NEW others, Sound(r, b, others), NEW S \in SUBSET Nums,
         plug \in Kinds \cup {{}}
  PROVE  Sound(Forgets(r, S), Frees(b, S), others)
<1> DEFINE q == Forgets(r, S)
<1>1. r \in Objects
  BY DEF Sound
<1>2. q \in Objects /\ \A i \in Nums \ S : q.claims[i] = r.claims[i]
  <2>1. [i \in Nums |-> IF i \in S THEN -1 ELSE r.claims[i]] \in [Nums -> -1 .. 1]
    BY <1>1 DEF Objects
  <2> QED BY <1>1, <2>1 DEF Forgets, Objects
<1> HIDE DEF q
<1>3. Sound(q, Frees(b, S), others)
  BY <1>2, FreesSound
<1> QED BY <1>3 DEF q

\* The object and the bus once host_claim has returned.
Owning(r, i, a) == [r EXCEPT !.claims[i] = a]
Taken(b, i, a) == [b EXCEPT !.table[i] = a, !.orphan = @ \ {i}]

\* A claim made afresh levels its endpoints, if every one of them could be cleared; one
\* that could not is excepted.  No other interface has these endpoints.
LEMMA FreshSound ==
  ASSUME NEW r, NEW b, NEW i \in Nums, NEW a \in 0 .. 1, NEW others,
         Sound(r, b, others), plug \in Kinds,
         NEW x \in FreshClaim(Owning(r, i, a), Taken(b, i, a), i, a)
  PROVE  /\ Sound(x.obj, x.bus, others) /\ x.obj = Owning(r, i, a)
         /\ x.ok => /\ x.bus.table[i] = a
                    /\ \A ep \in EpsOf[plug][i][a] : ep \notin x.bus.host \cup x.bus.dev
<1> DEFINE eps == EpsOf[plug][i][a]
           mine == Owning(r, i, a)
           new == Taken(b, i, a)
           cleared(c) == [new EXCEPT !.host = @ \ eps, !.dev = @ \ c]
<1>1. r \in Objects /\ b \in Buses /\ plug # {}
  BY DevicesAssumption DEF Sound
<1>2. /\ mine \in Objects /\ mine.claims[i] = a
      /\ \A j \in Nums : j # i => mine.claims[j] = r.claims[j]
  BY <1>1 DEF Objects, Owning
<1>n. /\ new \in Buses /\ new.table = [b.table EXCEPT ![i] = a] /\ new.orphan = b.orphan \ {i}
      /\ new.host = b.host /\ new.dev = b.dev /\ new.told = b.told /\ new.again = b.again
  <2>1. [b.table EXCEPT ![i] = a] \in [Nums -> -1 .. 1] /\ b.orphan \ {i} \in SUBSET Nums
    BY <1>1 DEF Buses
  <2>2. /\ new.table = [b.table EXCEPT ![i] = a] /\ new.orphan = b.orphan \ {i}
        /\ new.host = b.host /\ new.dev = b.dev /\ new.told = b.told /\ new.again = b.again
    BY <1>1 DEF Taken, Buses
  <2>3. new \in Buses
    BY <1>1, <2>1 DEF Taken, Buses
  <2> QED BY <2>2, <2>3
<1>c. ASSUME NEW c
      PROVE  /\ cleared(c) \in Buses
             /\ cleared(c).table = [b.table EXCEPT ![i] = a] /\ cleared(c).orphan = b.orphan \ {i}
             /\ cleared(c).host = b.host \ eps /\ cleared(c).dev = b.dev \ c
             /\ cleared(c).told = b.told /\ cleared(c).again = b.again
  <2> HIDE DEF eps
  <2>1. cleared(c) \in Buses
    BY <1>n DEF Buses
  <2> QED BY <1>n, <2>1 DEF Buses
<1>3. PICK c \in SUBSET eps :
        /\ x.obj = mine /\ (x.ok => c = eps)
        /\ x.bus.table = [b.table EXCEPT ![i] = a]
        /\ x.bus.host = b.host \ eps /\ x.bus.dev = b.dev \ c
        /\ \/ c = eps /\ x.bus.told = b.told \ {i} /\ x.bus.again = b.again \ {i}
           \/ x.bus.told = b.told \cup {i} /\ x.bus.again = b.again
        /\ x.bus.orphan = b.orphan \ {i} /\ x.bus \in Buses
  <2>1. CASE x = Returns(mine, [cleared(eps) EXCEPT !.told = @ \ {i}, !.again = @ \ {i}])
    <3> DEFINE c == cleared(eps)
    <3> HIDE DEF cleared, eps
    <3>1. x.obj = mine /\ x.bus = [c EXCEPT !.told = @ \ {i}, !.again = @ \ {i}]
      BY <2>1 DEF Returns
    <3>2. /\ c \in Buses
          /\ c.table = [b.table EXCEPT ![i] = a] /\ c.orphan = b.orphan \ {i}
          /\ c.host = b.host \ eps /\ c.dev = b.dev \ eps /\ c.told = b.told /\ c.again = b.again
      BY <1>c
    <3> HIDE DEF c
    <3>3. /\ x.bus.told = c.told \ {i} /\ x.bus.again = c.again \ {i}
          /\ x.bus.host = c.host /\ x.bus.dev = c.dev /\ x.bus.table = c.table
          /\ x.bus.orphan = c.orphan
      BY <3>1, <3>2 DEF Buses
    <3>4. x.bus \in Buses
      <4>1. c.told \ {i} \in SUBSET Nums /\ c.again \ {i} \in SUBSET Nums
        BY <3>2 DEF Buses
      <4> QED BY <3>1, <3>2, <4>1 DEF Buses
    <3> QED BY <3>1, <3>2, <3>3, <3>4
  <2>2. ASSUME NEW c \in SUBSET eps \ {eps}, x = Raises(mine, cleared(c), i)
        PROVE  /\ x.obj = mine /\ ~x.ok
               /\ x.bus.table = [b.table EXCEPT ![i] = a]
               /\ x.bus.host = b.host \ eps /\ x.bus.dev = b.dev \ c
               /\ x.bus.told = b.told \cup {i} /\ x.bus.again = b.again
               /\ x.bus.orphan = b.orphan \ {i} /\ x.bus \in Buses
    <3> DEFINE d == cleared(c)
    <3> HIDE DEF cleared, eps
    <3>2. /\ d \in Buses
          /\ d.table = [b.table EXCEPT ![i] = a] /\ d.orphan = b.orphan \ {i}
          /\ d.host = b.host \ eps /\ d.dev = b.dev \ c /\ d.told = b.told /\ d.again = b.again
      BY <1>c
    <3>t. d.table[i] = a
      <4>1. b.table \in [Nums -> -1 .. 1]
        BY <1>1 DEF Buses
      <4> QED BY <3>2, <4>1
    <3>1. x.obj = mine /\ ~x.ok /\ x.bus = [d EXCEPT !.told = @ \cup {i}]
      BY <2>2, <3>t DEF Raises
    <3> HIDE DEF d
    <3>3. /\ x.bus.told = d.told \cup {i} /\ x.bus.again = d.again
          /\ x.bus.host = d.host /\ x.bus.dev = d.dev /\ x.bus.table = d.table
          /\ x.bus.orphan = d.orphan
      BY <3>1, <3>2 DEF Buses
    <3>4. x.bus \in Buses
      BY <3>1, <3>2 DEF Buses
    <3> QED BY <3>1, <3>2, <3>3, <3>4
  <2> QED BY <2>1, <2>2 DEF FreshClaim
<1>4. NoneClaimed(x.bus)
  BY <1>1 DEF NoneClaimed
<1>5. Stepped(x.bus)
  <2> SUFFICES ASSUME NEW j \in Nums, Claimed(x.bus, j), NEW ep \in EpsOf[plug][j][x.bus.table[j]]
               PROVE  ep \in x.bus.host <=> ep \in x.bus.dev
    BY DEF Stepped, Level
  <2>1. CASE j = i
    BY <1>1, <1>3, <2>1 DEF Claimed, Buses
  <2>2. CASE j # i
    <3>1. Claimed(b, j) /\ x.bus.table[j] = b.table[j] /\ b.table[j] \in 0 .. 1
      BY <1>1, <1>3, <2>2 DEF Claimed, Buses
    <3>2. ep \notin eps
      BY <2>2, <3>1, Apart
    <3>3. ep \in b.host <=> ep \in b.dev
      BY <3>1 DEF Sound, Stepped, Level
    <3> QED BY <1>3, <3>2, <3>3
  <2> QED BY <2>1, <2>2
<1>6. Known(x.obj, x.bus, others)
  BY <1>1, <1>2, <1>3 DEF Known, Sound, Buses
<1>7. x.ok => x.bus.table[i] = a /\ \A ep \in eps : ep \notin x.bus.host \cup x.bus.dev
  BY <1>1, <1>3 DEF Buses
<1> QED BY <1>2, <1>3, <1>4, <1>5, <1>6, <1>7 DEF Sound

\* _claim leaves the tables sound.  When it returns, the endpoints are level from a
\* fresh claim unless the claim stood.
LEMMA ClaimSound ==
  ASSUME NEW r, NEW b, NEW i \in Nums, NEW others, Sound(r, b, others), plug \in Kinds \cup {{}},
         NEW x \in ClaimOutcomes(r, b, i)
  PROVE  /\ Sound(x.obj, x.bus, others)
         /\ x.obj.alts = r.alts /\ x.obj.finder = r.finder /\ x.obj.of = r.of /\ x.obj.pick = r.pick
         /\ x.ok /\ r.claims[i] # r.alts[i] /\ b.table[i] # r.alts[i] =>
              /\ x.bus.table[i] = r.alts[i]
              /\ \A ep \in EpsOf[plug][i][r.alts[i]] : ep \notin x.bus.host \cup x.bus.dev
<1> DEFINE a == r.alts[i]
           mine == Owning(r, i, a)
           claimed == Taken(b, i, a)
<1>1. r \in Objects /\ b \in Buses /\ a \in 0 .. 1 /\ r.claims[i] \in -1 .. 1
  BY DEF Sound, Objects
<1>2. CASE r.claims[i] = a
  <2>1. x = Returns(r, b)
    BY <1>2 DEF ClaimOutcomes
  <2>2. x.obj = r /\ x.bus = b
    BY <2>1 DEF Returns
  <2> QED BY <1>2, <2>2
<1>3. CASE r.claims[i] # a /\ plug # {} /\ b.table[i] = a
  <2>1. x = Returns(mine, claimed)
    BY <1>3 DEF ClaimOutcomes, Owning, Taken
  <2>2. /\ mine \in Objects /\ mine.claims[i] = a
        /\ \A j \in Nums : j # i => mine.claims[j] = r.claims[j]
    BY <1>1 DEF Objects, Owning
  <2>3. /\ claimed \in Buses /\ claimed.table = b.table
        /\ claimed.host = b.host /\ claimed.dev = b.dev
        /\ claimed.told = b.told /\ claimed.again = b.again /\ claimed.orphan = b.orphan \ {i}
    BY <1>1, <1>3 DEF Buses, Taken
  <2>4. Sound(mine, claimed, others)
    BY <1>1, <2>2, <2>3 DEF Sound, NoneClaimed, Stepped, Claimed, Level, Known
  <2> QED BY <1>1, <1>3, <2>1, <2>4 DEF Returns, Objects, Owning
<1>4. CASE r.claims[i] # a /\ ~(plug # {} /\ b.table[i] = a)
  <2>1. CASE x = Raises(r, Frees(b, {i}), i)
    <3>1. {i} \in SUBSET Nums /\ \A j \in Nums \ {i} : r.claims[j] = r.claims[j]
      OBVIOUS
    <3>2. Sound(r, Frees(b, {i}), others)
      BY <1>1, <3>1, FreesSound, Zenon
    <3>3. x.obj = r /\ ~x.ok
      BY <2>1 DEF Raises
    <3> QED BY <2>1, <3>2, <3>3, RaiseSound
  <2>2. CASE plug # {} /\ x \in FreshClaim(mine, claimed, i, a)
    <3>1. plug \in Kinds
      BY <2>2
    <3>a. ASSUME NEW e \in 0 .. 1, x \in FreshClaim(Owning(r, i, e), Taken(b, i, e), i, e)
          PROVE  /\ Sound(x.obj, x.bus, others) /\ x.obj = Owning(r, i, e)
                 /\ x.ok => /\ x.bus.table[i] = e
                            /\ \A ep \in EpsOf[plug][i][e] : ep \notin x.bus.host \cup x.bus.dev
      BY <3>1, <3>a, FreshSound, Zenon
    <3>2. /\ Sound(x.obj, x.bus, others) /\ x.obj = mine
          /\ x.ok => /\ x.bus.table[i] = a
                     /\ \A ep \in EpsOf[plug][i][a] : ep \notin x.bus.host \cup x.bus.dev
      BY <1>1, <2>2, <3>a, Zenon
    <3> QED BY <1>1, <3>2 DEF Objects, Owning
  <2> QED BY <1>4, <2>1, <2>2 DEF ClaimOutcomes, Owning, Taken
<1> QED BY <1>2, <1>3, <1>4

\* A packet moves both toggles of its endpoint, or brings them together.
LEMMA PassSound ==
  ASSUME NEW r, NEW b, NEW i \in Nums, NEW others, Sound(r, b, others), NEW ep \in Addrs
  PROVE  Sound(r, Passes(b, i, ep), others)
<1> DEFINE c == Passes(b, i, ep)
<1>1. b \in Buses
  BY DEF Sound
<1>2. PICK h \in SUBSET Addrs, d \in SUBSET Addrs :
        /\ c = [b EXCEPT !.host = h, !.dev = d]
        /\ ep \in h <=> ep \in d
        /\ \A e : e # ep => (e \in h <=> e \in b.host) /\ (e \in d <=> e \in b.dev)
  <2> b.host \in SUBSET Addrs /\ b.dev \in SUBSET Addrs
    BY <1>1 DEF Buses
  <2>2. CASE (ep \in b.host) = (ep \in b.dev) /\ ep \in b.dev
    <3>1. c = [b EXCEPT !.host = b.host \ {ep}, !.dev = b.dev \ {ep}]
      BY <2>2 DEF Passes
    <3> WITNESS b.host \ {ep} \in SUBSET Addrs, b.dev \ {ep} \in SUBSET Addrs
    <3> QED BY <3>1
  <2>3. CASE (ep \in b.host) = (ep \in b.dev) /\ ep \notin b.dev
    <3>1. c = [b EXCEPT !.host = b.host \cup {ep}, !.dev = b.dev \cup {ep}]
      BY <2>3 DEF Passes
    <3> WITNESS b.host \cup {ep} \in SUBSET Addrs, b.dev \cup {ep} \in SUBSET Addrs
    <3> QED BY <3>1
  <2>4. CASE (ep \in b.host) # (ep \in b.dev)
    <3> DEFINE late == IF ep.in THEN ep \in b.host ELSE ep \in b.dev
               now(s) == IF late THEN s \cup {ep} ELSE s \ {ep}
    <3>1. c = [b EXCEPT !.host = now(b.host), !.dev = now(b.dev)]
      BY <2>4 DEF Passes
    <3> HIDE DEF late
    <3> WITNESS now(b.host) \in SUBSET Addrs, now(b.dev) \in SUBSET Addrs
    <3> QED BY <3>1
  <2> QED BY <2>2, <2>3, <2>4
<1>3. /\ c \in Buses /\ c.host = h /\ c.dev = d
      /\ c.table = b.table /\ c.told = b.told /\ c.again = b.again /\ c.orphan = b.orphan
  <2> HIDE DEF c
  <2> QED BY <1>1, <1>2 DEF Buses
<1>4. Stepped(c)
  <2> HIDE DEF c
  <2> SUFFICES ASSUME NEW j \in Nums, Claimed(c, j), NEW e \in EpsOf[plug][j][c.table[j]]
               PROVE  e \in c.host <=> e \in c.dev
    BY DEF Stepped, Level
  <2>1. Claimed(b, j) /\ e \in EpsOf[plug][j][b.table[j]]
    BY <1>3 DEF Claimed
  <2>2. e \in b.host <=> e \in b.dev
    BY <2>1 DEF Sound, Stepped, Level
  <2> QED BY <1>2, <1>3, <2>2
<1> HIDE DEF c
<1>5. Sound(r, c, others)
  BY <1>3, <1>4 DEF Sound, NoneClaimed, Known
<1> QED BY <1>5 DEF c

----------------------------------------------------------------------------
(* The steps.                                                              *)

\* util.claim_interface.
LEMMA ClaimInterfaceKeeps ==
  ASSUME IInv, NEW o \in Objs, NEW i \in Touched, ClaimInterface(o, i)
  PROVE  IInv'
<1>1. obj[o] # None /\ Does(o, ClaimOutcomes(obj[o], bus, i)) /\ i \in Nums
  BY DevicesAssumption DEF ClaimInterface
<1>2. Sound(obj[o], bus, Others(o)) /\ plug \in Kinds \cup {{}}
  BY <1>1, SoundBefore DEF IInv, TypeOK
<1>3. \A x \in ClaimOutcomes(obj[o], bus, i) : Sound(x.obj, x.bus, Others(o))
  BY <1>1, <1>2, ClaimSound, Zenon
<1> QED BY <1>1, <1>3, SoundAfter, Zenon

\* set_interface_altsetting.
LEMMA SetAltKeeps ==
  ASSUME IInv, NEW o \in Objs, NEW i \in Touched, NEW a \in 0 .. 1, SetAlt(o, i, a)
  PROVE  IInv'
<1> DEFINE r == [obj[o] EXCEPT !.alts[i] = a]
           eps == EpsOf[plug][i][a]
           stood == r.claims[i] = a \/ bus.table[i] = a
           set(b) == [b EXCEPT !.alt[i] = a, !.dev = @ \ eps,
                               !.again = IF stood THEN @ \cup {i} ELSE @]
<1>1. /\ obj[o] # None /\ i \in Nums
      /\ Does(o, UNION {IF ~x.ok THEN {x}
                        ELSE {Raises(x.obj, x.bus, i)}
                             \cup (IF plug # {} /\ Has(i, a) THEN {Returns(x.obj, set(x.bus))}
                                   ELSE {})
                        : x \in ClaimOutcomes(r, bus, i)})
  BY DevicesAssumption DEF SetAlt
<1>2. Sound(obj[o], bus, Others(o)) /\ plug \in Kinds \cup {{}}
  BY <1>1, SoundBefore DEF IInv, TypeOK
<1>3. Sound(r, bus, Others(o)) /\ r.alts[i] = a
  <2>1. obj[o] \in Objects
    BY <1>2 DEF Sound
  <2>2. r \in Objects /\ r.alts[i] = a /\ r.claims = obj[o].claims
    BY <1>1, <2>1 DEF Objects
  <2> QED BY <1>2, <2>2 DEF Sound, Known
<1>4. ASSUME NEW x \in ClaimOutcomes(r, bus, i), x.ok, plug # {}
      PROVE  Sound(x.obj, set(x.bus), Others(o))
  <2> DEFINE c == set(x.bus)
  <2>1. /\ Sound(x.obj, x.bus, Others(o)) /\ plug \in Kinds
        /\ r.claims[i] # a /\ bus.table[i] # a =>
             x.bus.table[i] = a /\ \A ep \in eps : ep \notin x.bus.host \cup x.bus.dev
    <3> HIDE DEF r
    <3>1. /\ Sound(x.obj, x.bus, Others(o))
          /\ x.ok /\ r.claims[i] # r.alts[i] /\ bus.table[i] # r.alts[i] =>
               /\ x.bus.table[i] = r.alts[i]
               /\ \A ep \in EpsOf[plug][i][r.alts[i]] : ep \notin x.bus.host \cup x.bus.dev
      BY <1>1, <1>2, <1>3, ClaimSound, Zenon
    <3> QED BY <1>2, <1>3, <1>4, <3>1
  <2>2. x.bus \in Buses
    BY <2>1 DEF Sound
  <2>3. /\ c \in Buses /\ c.table = x.bus.table /\ c.host = x.bus.host /\ c.dev = x.bus.dev \ eps
        /\ c.told = x.bus.told /\ c.orphan = x.bus.orphan
        /\ c.again = IF stood THEN x.bus.again \cup {i} ELSE x.bus.again
    <3> HIDE DEF stood, eps
    <3>1. [x.bus.alt EXCEPT ![i] = a] \in [Nums -> 0 .. 1]
      <4>1. x.bus.alt \in [Nums -> 0 .. 1]
        BY <2>2 DEF Buses
      <4> QED BY <1>1, <4>1
    <3>2. (IF stood THEN x.bus.again \cup {i} ELSE x.bus.again) \in SUBSET Nums
      BY <1>1, <2>2 DEF Buses
    <3> QED BY <2>2, <3>1, <3>2 DEF Buses
  <2> HIDE DEF c, r, stood
  <2>4. Stepped(c)
    <3> SUFFICES ASSUME NEW j \in Nums, Claimed(c, j), NEW ep \in EpsOf[plug][j][c.table[j]]
                 PROVE  ep \in c.host <=> ep \in c.dev
      BY DEF Stepped, Level
    <3>1. Claimed(x.bus, j) /\ x.bus.table[j] \in 0 .. 1 /\ c.table[j] = x.bus.table[j]
      BY <2>2, <2>3 DEF Claimed, Buses
    <3>2. ep \in x.bus.host <=> ep \in x.bus.dev
      BY <2>1, <3>1 DEF Sound, Stepped, Level
    <3>3. CASE j = i
      <4>1. \A e \in eps : e \notin x.bus.host
        BY <1>1, <2>1, <2>3, <3>3 DEF Claimed, stood
      <4> QED BY <2>3, <3>2, <4>1
    <3>4. CASE j # i
      <4>1. ep \notin eps
        BY <1>1, <2>1, <3>1, <3>4, Apart
      <4> QED BY <2>3, <3>2, <4>1
    <3> QED BY <3>3, <3>4
  <2>5. Sound(x.obj, c, Others(o))
    BY <2>1, <2>3, <2>4 DEF Sound, NoneClaimed, Known
  <2> QED BY <2>5 DEF c
<1>5. ASSUME NEW x \in ClaimOutcomes(r, bus, i)
      PROVE  Sound(x.obj, x.bus, Others(o))
  <2> HIDE DEF r
  <2> QED BY <1>1, <1>2, <1>3, <1>5, ClaimSound, Zenon
<1>6. ASSUME NEW x \in ClaimOutcomes(r, bus, i),
             NEW y \in IF ~x.ok THEN {x}
                       ELSE {Raises(x.obj, x.bus, i)}
                            \cup (IF plug # {} /\ Has(i, a) THEN {Returns(x.obj, set(x.bus))}
                                  ELSE {})
      PROVE  Sound(y.obj, y.bus, Others(o))
  <2> HIDE DEF r, set
  <2>1. CASE y = x
    BY <1>5, <2>1
  <2>2. CASE y = Raises(x.obj, x.bus, i)
    BY <1>1, <1>5, <2>2, RaiseSound, Zenon
  <2>3. CASE x.ok /\ plug # {} /\ y = Returns(x.obj, set(x.bus))
    <3>1. y.obj = x.obj /\ y.bus = set(x.bus)
      BY <2>3 DEF Returns
    <3> QED BY <1>4, <2>3, <3>1
  <2> QED BY <1>6, <2>1, <2>2, <2>3
<1> HIDE DEF r, set
<1> QED BY <1>1, <1>6, SoundAfter

\* read and write.
LEMMA TransferKeeps ==
  ASSUME IInv, NEW o \in Objs, NEW ep \in Addrs, Transfer(o, ep)
  PROVE  IInv'
<1> DEFINE i == FindInterface(Cfg[obj[o].of], ep).num
<1>1. /\ obj[o] # None /\ FindInterface(Cfg[obj[o].of], ep) # None
      /\ Does(o, UNION {IF x.ok /\ Moves(x.bus, i, ep)
                        THEN {Returns(x.obj, Passes(x.bus, i, ep)), x}
                        ELSE {Raises(x.obj, x.bus, i)}
                        : x \in ClaimOutcomes(obj[o], bus, i)})
  BY DEF Transfer
<1>2. Sound(obj[o], bus, Others(o)) /\ plug \in Kinds \cup {{}}
  BY <1>1, SoundBefore DEF IInv, TypeOK
<1>3. i \in Nums
  BY <1>1, <1>2, DevicesAssumption DEF Sound, Objects
<1> HIDE DEF i
<1>4. ASSUME NEW x \in ClaimOutcomes(obj[o], bus, i),
             NEW y \in IF x.ok /\ Moves(x.bus, i, ep)
                       THEN {Returns(x.obj, Passes(x.bus, i, ep)), x}
                       ELSE {Raises(x.obj, x.bus, i)}
      PROVE  Sound(y.obj, y.bus, Others(o))
  <2>1. Sound(x.obj, x.bus, Others(o))
    BY <1>2, <1>3, ClaimSound, Zenon
  <2>2. CASE y = x
    BY <2>1, <2>2
  <2>3. CASE y = Raises(x.obj, x.bus, i)
    BY <1>3, <2>1, <2>3, RaiseSound, Zenon
  <2>4. CASE y = Returns(x.obj, Passes(x.bus, i, ep))
    <3>1. y.obj = x.obj /\ y.bus = Passes(x.bus, i, ep)
      BY <2>4 DEF Returns
    <3> QED BY <1>3, <2>1, <3>1, PassSound
  <2> QED BY <1>4, <2>2, <2>3, <2>4
<1> QED BY <1>1, <1>4, SoundAfter

\* util.release_interface.
LEMMA ReleaseKeeps ==
  ASSUME IInv, NEW o \in Objs, NEW i \in Touched, Release(o, i)
  PROVE  IInv'
<1>1. obj[o] # None /\ Does(o, ReleaseOutcomes(obj[o], bus, i)) /\ i \in Nums
  BY DevicesAssumption DEF Release
<1>2. Sound(obj[o], bus, Others(o)) /\ plug \in Kinds \cup {{}}
  BY <1>1, SoundBefore DEF IInv, TypeOK
<1>3. Sound(Forgets(obj[o], {i}), Frees(bus, {i}), Others(o))
  BY <1>1, <1>2, ReleaseSound
<1>4. ASSUME NEW x \in ReleaseOutcomes(obj[o], bus, i)
      PROVE  Sound(x.obj, x.bus, Others(o))
  <2>1. CASE x = Returns(obj[o], bus)
    BY <1>2, <2>1 DEF Returns
  <2>2. CASE x = Returns(Forgets(obj[o], {i}), Frees(bus, {i}))
    BY <1>3, <2>2 DEF Returns
  <2>3. CASE x = Raises(Forgets(obj[o], {i}), Frees(bus, {i}), i)
    BY <1>1, <1>3, <2>3, RaiseSound, Zenon
  <2> QED BY <1>4, <2>1, <2>2, <2>3 DEF ReleaseOutcomes
<1> QED BY <1>1, <1>4, SoundAfter

\* _release_all, however far it comes.
LEMMA ReleaseAllKeeps ==
  ASSUME IInv, NEW o \in Objs, ReleaseAll(o)
  PROVE  IInv'
<1> DEFINE r == obj[o]
           all == Claims(r)
           before == IF plug # {} THEN SUBSET all ELSE {{}}
           S == {Returns(Forgets(r, done), Frees(bus, done)) : done \in before \cap {all}}
                \cup UNION {{Raises(Forgets(r, done \cup {i}), Frees(bus, done \cup {i}), i)
                             : i \in all \ done} : done \in before}
<1>1. obj[o] # None /\ Does(o, S)
  BY DEF ReleaseAll
<1>2. Sound(r, bus, Others(o)) /\ plug \in Kinds \cup {{}}
  BY <1>1, SoundBefore DEF IInv, TypeOK
<1>3. all \in SUBSET Nums /\ before \subseteq SUBSET all
  BY DEF Claims
<1> HIDE DEF r, all, before
<1>4. ASSUME NEW x \in S
      PROVE  Sound(x.obj, x.bus, Others(o))
  <2>1. ASSUME NEW done \in before, x = Returns(Forgets(r, done), Frees(bus, done))
        PROVE  Sound(x.obj, x.bus, Others(o))
    <3>1. Sound(Forgets(r, done), Frees(bus, done), Others(o))
      BY <1>2, <1>3, ReleaseSound
    <3> QED BY <2>1, <3>1 DEF Returns
  <2>2. ASSUME NEW done \in before, NEW i \in all \ done,
               x = Raises(Forgets(r, done \cup {i}), Frees(bus, done \cup {i}), i)
        PROVE  Sound(x.obj, x.bus, Others(o))
    <3>1. i \in Nums /\ done \cup {i} \in SUBSET Nums
      BY <1>3
    <3>2. Sound(Forgets(r, done \cup {i}), Frees(bus, done \cup {i}), Others(o))
      BY <1>2, <3>1, ReleaseSound
    <3> QED BY <2>2, <3>1, <3>2, RaiseSound, Zenon
  <2> DEFINE Returned == {Returns(Forgets(r, done), Frees(bus, done)) : done \in before \cap {all}}
             Raised(done) == {Raises(Forgets(r, done \cup {i}), Frees(bus, done \cup {i}), i)
                              : i \in all \ done}
  <2>3. x \in Returned \/ \E done \in before : x \in Raised(done)
    BY <1>4
  <2>4. CASE x \in Returned
    BY <2>1, <2>4
  <2>5. ASSUME NEW done \in before, x \in Raised(done)
        PROVE  Sound(x.obj, x.bus, Others(o))
    BY <2>2, <2>5
  <2> QED BY <2>3, <2>4, <2>5
<1> HIDE DEF S
<1> QED BY <1>1, <1>4, SoundAfter

\* find() drops the object that was there: its claims are orphans from then on.
LEMMA FindKeeps ==
  ASSUME IInv, NEW o \in Objs, NEW finder \in Finders, Find(o, finder)
  PROVE  IInv'
<1> DEFINE lost == {i \in Claims(obj[o]) : bus.table[i] >= 0}
           new == [is |-> "obj", finder |-> finder, of |-> plug,
                   pick |-> IF finder = "any" THEN None ELSE PickOf[plug][finder],
                   claims |-> [i \in Nums |-> -1], alts |-> [i \in Nums |-> 0]]
<1>1. /\ plug \in Kinds /\ plug' = plug /\ obj' = [obj EXCEPT ![o] = new]
      /\ bus' = [bus EXCEPT !.orphan = @ \cup lost]
  BY DEF Find, IInv, TypeOK
<1>2. new \in Objects
  BY <1>1 DEF Objects, Picks
<1>3. lost \in SUBSET Nums
  BY DEF Claims
<1>4. /\ bus' \in Buses /\ bus'.table = bus.table /\ bus'.host = bus.host /\ bus'.dev = bus.dev
      /\ bus'.told = bus.told /\ bus'.again = bus.again /\ bus'.orphan = bus.orphan \cup lost
  <2> HIDE DEF lost
  <2> QED BY <1>1, <1>3 DEF IInv, TypeOK, Buses
<1> HIDE DEF new
<1>5. TypeOK' /\ NoneClaimed(bus)'
  BY <1>1, <1>2, <1>4 DEF IInv, TypeOK, NoneClaimed
<1>6. InStep'
  <2>1. EpsOf' = EpsOf
    OBVIOUS
  <2> QED BY <1>1, <1>4, <2>1 DEF IInv, TablesAgree, InStep, Agree
<1>7. ClaimsAreKnown'
  <2> SUFFICES ASSUME NEW i \in Nums, bus.table[i] >= 0, i \notin bus'.orphan
               PROVE  \E p \in Objs : i \in Claims(obj'[p])
    BY <1>4 DEF ClaimsAreKnown, Claims
  <2>1. PICK p \in Objs : i \in Claims(obj[p])
    BY <1>4 DEF IInv, TablesAgree, ClaimsAreKnown
  <2>2. p # o
    BY <1>4, <2>1
  <2> QED BY <1>1, <2>1, <2>2 DEF IInv, TypeOK
<1> QED BY <1>5, <1>6, <1>7 DEF IInv, TablesAgree

\* A device that comes or goes takes all claims with it.
LEMMA PlugKeeps ==
  ASSUME IInv, \/ Unplug
               \/ \E kinds \in Kinds : Plug(kinds)
  PROVE  IInv'
<1>1. bus' = NewBus /\ obj' = obj /\ plug' \in Kinds \cup {{}}
  BY DEF Unplug, Plug
<1>2. NewBus \in Buses /\ \A i \in Nums : NewBus.table[i] = -1
  BY DEF NewBus, Buses
<1> QED BY <1>1, <1>2 DEF IInv, TypeOK, NoneClaimed, TablesAgree, InStep, ClaimsAreKnown

----------------------------------------------------------------------------
(* The theorems.                                                           *)

\* At first there is no device and no object.
LEMMA InitIInv == Init => IInv
<1>1. NewBus \in Buses /\ \A i \in Nums : NewBus.table[i] = -1
  BY DEF NewBus, Buses
<1> QED BY <1>1 DEF Init, IInv, TypeOK, NoneClaimed, TablesAgree, InStep, ClaimsAreKnown

\* Every step keeps the invariant, one lemma for each action.
LEMMA NextIInv == IInv /\ [Next]_vars => IInv'
<1> SUFFICES ASSUME IInv, [Next]_vars PROVE IInv'
  OBVIOUS
<1>1. ASSUME NEW o \in Objs, \E finder \in Finders : Find(o, finder)
      PROVE  IInv'
  BY <1>1, FindKeeps
<1>2. ASSUME NEW o \in Objs, \E ep \in Addrs : Transfer(o, ep)
      PROVE  IInv'
  BY <1>2, TransferKeeps
<1>3. ASSUME NEW o \in Objs, \E i \in Touched, a \in 0 .. 1 : SetAlt(o, i, a)
      PROVE  IInv'
  BY <1>3, SetAltKeeps
<1>4. ASSUME NEW o \in Objs, \E i \in Touched : ClaimInterface(o, i) \/ Release(o, i)
      PROVE  IInv'
  BY <1>4, ClaimInterfaceKeeps, ReleaseKeeps
<1>5. CASE UNCHANGED vars
  BY <1>5 DEF vars, IInv, TypeOK, NoneClaimed, TablesAgree, InStep, Agree, ClaimsAreKnown, Claims
<1> QED BY <1>1, <1>2, <1>3, <1>4, <1>5, ReleaseAllKeeps, PlugKeeps DEF Next

\* The invariant of usb/core.py's objects over the host's one table: every variable
\* keeps its type, nothing is claimed of a device that is not there, and the tables
\* agree.
THEOREM Invariance == Spec => []IInv
BY InitIInv, NextIInv, PTL DEF Spec

\* However many objects claim, share, drop and release interfaces of devices that come
\* and go at one address, the data toggles of a claimed interface agree at both ends
\* unless a call raised about it or it was given SET_INTERFACE without a fresh claim,
\* and every claim in the host's table is known to an object that can give it back.
THEOREM CoreTablesAgree == Spec => []TablesAgree
BY Invariance, PTL DEF IInv
=============================================================================
