--------------------------- MODULE ClassesProofs ---------------------------
(***************************************************************************)
(* Theorems of the components MCClasses puts side by side, for any values  *)
(* of their constants.                                                     *)
(***************************************************************************)
EXTENDS MCClasses, TLAPS, FiniteSetTheorems

-----------------------------------------------------------------------------
(* A step is of one component.                                             *)

\* Each component takes a step of its own, or its variables stay as they are.
LEMMA OneComponent ==
  ASSUME [ClassesNext]_allVars
  PROVE  /\ part' = part
         /\ Hid!Next \/ UNCHANGED hidVars
         /\ Serial!Next \/ UNCHANGED serialVars
         /\ Tether!Next \/ UNCHANGED tetherVars
         /\ Port!Next \/ UNCHANGED portVars
         /\ Msc!Next \/ UNCHANGED mscVars
         /\ Audio!Next \/ UNCHANGED audioVars
         /\ Effect!Next \/ UNCHANGED effectVars
         /\ Next \/ UNCHANGED vars
<1>1. CASE HidStep \/ SerialStep \/ WatchStep \/ DrawStep \/ EffectStep \/ MonitorStep
  BY <1>1 DEF HidStep, SerialStep, WatchStep, DrawStep, EffectStep, MonitorStep, coreVars, otherVars
<1>2. CASE TetherStep
  BY <1>2 DEF TetherStep, coreVars, otherVars
<1>3. CASE PortStep
  BY <1>3 DEF PortStep, otherVars
<1>4. CASE VideoStep
  BY <1>4 DEF VideoStep, coreVars, otherVars
<1>5. CASE AudioStep
  BY <1>5 DEF AudioStep, coreVars, otherVars
<1>6. CASE MscStep
  BY <1>6 DEF MscStep, coreVars, otherVars
<1>7. CASE UNCHANGED allVars
  BY <1>7 DEF allVars, coreVars, otherVars
<1> QED BY <1>1, <1>2, <1>3, <1>4, <1>5, <1>6, <1>7 DEF ClassesNext

-----------------------------------------------------------------------------
(* HidLink.                                                                *)

\* What an event can be about.
Usages == Keys \cup Mods
KeyEvent == [up : BOOLEAN, u : Usages]

\* Some events are one for each of the keys that went up and each of those that went down.
TellsChange(es, ups, downs) ==
  /\ es \in Seq(KeyEvent) /\ Len(es) \in Nat /\ DOMAIN es = 1 .. Len(es)
  /\ \A i \in 1 .. Len(es) : IF es[i].up THEN es[i].u \in ups ELSE es[i].u \in downs
  /\ \A u \in ups \cup downs : \E i \in 1 .. Len(es) : es[i].u = u
  /\ \A i, j \in 1 .. Len(es) : es[i].u = es[j].u => i = j

\* HidLink counts as this module does.
LEMMA CountsAlike ==
  ASSUME NEW S
  PROVE  Hid!Cardinality(S) = Cardinality(S) /\ (Hid!IsFiniteSet(S) <=> IsFiniteSet(S))
<1>1. Hid!Cardinality(S) = Cardinality(S)
  BY Zenon DEF Hid!Cardinality, Cardinality, Hid!IsFiniteSet, IsFiniteSet
<1>2. Hid!IsFiniteSet(S) <=> IsFiniteSet(S)
  BY Zenon DEF Hid!IsFiniteSet, IsFiniteSet
<1> QED BY <1>1, <1>2

\* The keys of a set are listed once each.
LEMMA ListedOnce ==
  ASSUME NEW S, IsFiniteSet(S)
  PROVE  /\ Cardinality(S) \in Nat /\ Hid!Listed(S) \in [1 .. Cardinality(S) -> S]
         /\ \A u \in S : \E i \in 1 .. Cardinality(S) : Hid!Listed(S)[i] = u
         /\ \A i, j \in 1 .. Cardinality(S) : Hid!Listed(S)[i] = Hid!Listed(S)[j] => i = j
<1> DEFINE N == Cardinality(S)
           Once(s) == /\ \A u \in S : \E i \in DOMAIN s : s[i] = u
                      /\ \A i, j \in DOMAIN s : s[i] = s[j] => i = j
<1>1. N \in Nat /\ ExistsBijection(1 .. N, S)
  BY FS_CardinalityType
<1>2. PICK b \in [1 .. N -> S] : Once(b)
  BY <1>1 DEF ExistsBijection, Bijection, Injection, Surjection, IsInjective
<1>3. Hid!Listed(S) \in [1 .. N -> S] /\ Once(Hid!Listed(S))
  BY <1>2, CountsAlike DEF Hid!Listed
<1> QED BY <1>1, <1>3

\* Events tells of its set.
LEMMA EventsTell ==
  ASSUME NEW up \in BOOLEAN, NEW S \in SUBSET Usages, IsFiniteSet(S)
  PROVE  (up => TellsChange(Hid!Events(up, S), S, {})) /\ (~up => TellsChange(Hid!Events(up, S), {}, S))
<1> DEFINE N == Cardinality(S)  es == Hid!Events(up, S)
<1>1. /\ N \in Nat /\ Hid!Listed(S) \in [1 .. N -> S]
      /\ \A u \in S : \E i \in 1 .. N : Hid!Listed(S)[i] = u
      /\ \A i, j \in 1 .. N : Hid!Listed(S)[i] = Hid!Listed(S)[j] => i = j
  BY ListedOnce
<1>2. /\ es \in Seq(KeyEvent) /\ Len(es) = N
      /\ \A i \in 1 .. N : es[i].up = up /\ es[i].u = Hid!Listed(S)[i] /\ es[i].u \in S
  <2>1. es = [i \in 1 .. N |-> [up |-> up, u |-> Hid!Listed(S)[i]]]
    BY CountsAlike DEF Hid!Events
  <2> HIDE DEF es, N
  <2>2. \A i \in 1 .. N : Hid!Listed(S)[i] \in S /\ [up |-> up, u |-> Hid!Listed(S)[i]] \in KeyEvent
    BY <1>1 DEF KeyEvent
  <2>3. es \in [1 .. N -> KeyEvent]
    BY <2>1, <2>2
  <2>4. es \in Seq(KeyEvent) /\ Len(es) = N
    BY <1>1, <2>3
  <2> QED BY <2>1, <2>2, <2>4
<1> HIDE DEF N, es
<1>3. up => TellsChange(es, S, {})
  <2>1. SUFFICES ASSUME up PROVE TellsChange(es, S, {})
    OBVIOUS
  <2>2. \A i \in 1 .. N : IF es[i].up THEN es[i].u \in S ELSE es[i].u \in {}
    BY <1>2, <2>1
  <2>3. DOMAIN es = 1 .. N
    BY <1>2
  <2> QED BY <1>1, <1>2, <2>2, <2>3 DEF TellsChange
<1>4. ~up => TellsChange(es, {}, S)
  BY <1>1, <1>2 DEF TellsChange
<1> QED BY <1>3, <1>4 DEF es

\* One lot of events after another, of other keys.
LEMMA TellsBoth ==
  ASSUME NEW a, NEW u1, NEW d1, TellsChange(a, u1, d1), NEW b, NEW u2, NEW d2, TellsChange(b, u2, d2),
         (u1 \cup d1) \cap (u2 \cup d2) = {}
  PROVE  TellsChange(a \o b, u1 \cup u2, d1 \cup d2)
<1> DEFINE c == a \o b
<1>1. /\ c \in Seq(KeyEvent) /\ Len(c) = Len(a) + Len(b) /\ Len(a) \in Nat /\ Len(b) \in Nat
      /\ \A i \in 1 .. Len(a) : c[i] = a[i]
      /\ \A i \in 1 .. Len(b) : c[Len(a) + i] = b[i]
  BY DEF TellsChange
<1>2. \A i \in 1 .. Len(c) : i \in 1 .. Len(a) \/ (i - Len(a) \in 1 .. Len(b) /\ c[i] = b[i - Len(a)])
  <2>1. ASSUME NEW i \in 1 .. Len(c), i \notin 1 .. Len(a)
        PROVE  i - Len(a) \in 1 .. Len(b) /\ i = Len(a) + (i - Len(a))
    BY <1>1, <2>1
  <2> HIDE DEF c
  <2> QED BY <1>1, <2>1
<1> HIDE DEF c
<1>3. \A i \in 1 .. Len(c) : IF c[i].up THEN c[i].u \in u1 \cup u2 ELSE c[i].u \in d1 \cup d2
  BY <1>1, <1>2 DEF TellsChange
<1>4. ASSUME NEW u \in (u1 \cup u2) \cup (d1 \cup d2) PROVE \E i \in 1 .. Len(c) : c[i].u = u
  <2>1. CASE u \in u1 \cup d1
    BY <1>1, <2>1 DEF TellsChange
  <2>2. CASE u \in u2 \cup d2
    <3>1. PICK i \in 1 .. Len(b) : b[i].u = u
      BY <2>2 DEF TellsChange
    <3>2. Len(a) + i \in 1 .. Len(c) /\ c[Len(a) + i] = b[i]
      BY <1>1
    <3> QED BY <3>1, <3>2
  <2> QED BY <2>1, <2>2
<1>5. ASSUME NEW i \in 1 .. Len(c), NEW j \in 1 .. Len(c), c[i].u = c[j].u PROVE i = j
  <2>1. \A k \in 1 .. Len(a) : c[k].u \in u1 \cup d1
    BY <1>1 DEF TellsChange
  <2>2. \A k \in 1 .. Len(b) : b[k].u \in u2 \cup d2
    BY DEF TellsChange
  <2>3. CASE i \in 1 .. Len(a) /\ j \in 1 .. Len(a)
    BY <1>1, <1>5, <2>3 DEF TellsChange
  <2>4. CASE i \notin 1 .. Len(a) /\ j \notin 1 .. Len(a)
    <3>1. i - Len(a) = j - Len(a)
      BY <1>2, <1>5, <2>4 DEF TellsChange
    <3> QED BY <1>1, <3>1
  <2> QED BY <1>2, <1>5, <2>1, <2>2, <2>3, <2>4
<1>6. TellsChange(c, u1 \cup u2, d1 \cup d2)
  BY <1>1, <1>3, <1>4, <1>5 DEF TellsChange
<1> QED BY <1>6 DEF c

\* After the events of what changed, what is down is what is now.
LEMMA SeenAfter ==
  ASSUME NEW es, NEW was \in SUBSET Usages, NEW now \in SUBSET Usages,
         TellsChange(es, was \ now, now \ was)
  PROVE  /\ Hid!Seen(was, es) = now
         /\ \A i \in DOMAIN es : es[i].up <=> (es[i].u \in Hid!Seen(was, SubSeq(es, 1, i - 1)))
<1> DEFINE about(s, u) == {i \in DOMAIN s : s[i].u = u}
           down(s) == {i \in DOMAIN s : ~s[i].up /\ \A j \in about(s, s[i].u) : j <= i}
<1>1. \A s : Hid!Seen(was, s) = {u \in was : about(s, u) = {}} \cup {s[i].u : i \in down(s)}
  BY DEF Hid!Seen
<1>2. down(es) = {i \in 1 .. Len(es) : ~es[i].up}
  BY DEF TellsChange
<1>3. {u \in was : about(es, u) = {}} = was \cap now
  BY DEF TellsChange
<1>4. {es[i].u : i \in down(es)} = now \ was
  <2> HIDE DEF down
  <2> QED BY <1>2 DEF TellsChange
<1>5. ASSUME NEW i \in DOMAIN es
      PROVE  es[i].up <=> (es[i].u \in Hid!Seen(was, SubSeq(es, 1, i - 1)))
  <2> DEFINE s == SubSeq(es, 1, i - 1)
  <2>1. /\ DOMAIN s = 1 .. i - 1 /\ i \in 1 .. Len(es) /\ \A j \in 1 .. i - 1 : s[j] = es[j]
    BY DEF TellsChange
  <2>2. es[i].up \in BOOLEAN
    <3>1. es[i] \in KeyEvent
      BY <2>1 DEF TellsChange
    <3> QED BY <3>1 DEF KeyEvent
  <2> HIDE DEF s
  <2>3. about(s, es[i].u) = {}
    BY <2>1 DEF TellsChange
  <2>4. \A j \in down(s) : s[j].u # es[i].u
    BY <2>3
  <2>5. es[i].up <=> es[i].u \in was
    BY <2>1, <2>2 DEF TellsChange
  <2>6. Hid!Seen(was, s) = {u \in was : about(s, u) = {}} \cup {s[j].u : j \in down(s)}
    BY <1>1
  <2> HIDE DEF about, down
  <2>7. es[i].u \in Hid!Seen(was, s) <=> es[i].u \in was
    BY <2>3, <2>4, <2>6
  <2> QED BY <2>5, <2>7 DEF s
<1> HIDE DEF about, down
<1> QED BY <1>1, <1>3, <1>4, <1>5

\* What is held, what a report says, and a packet of one.
HeldSets == [mod : SUBSET Mods, keys : SUBSET Keys]
Reported == [mod : SUBSET Mods, keys : SUBSET Keys, roll : BOOLEAN]
HidPacket == [len : {1, 5, 8}, id : BOOLEAN, rep : Reported]

\* What the decoder keeps, and the keys it takes to be down.
Decoder == [held : SUBSET Keys, mod : SUBSET Mods]
Down(d) == d.held \cup d.mod

HidTypeOK ==
  /\ line \in Hid!Line /\ phys \in HeldSets /\ owed \in BOOLEAN
  /\ pipe \in Seq(HidPacket) /\ got \in Seq(HidPacket) /\ dec \in Decoder

\* A report's packets, whole, and what is left of it when the first has been read.
FullReport(rep) ==
  IF Hid!Boot THEN <<[len |-> 8, id |-> FALSE, rep |-> rep]>>
  ELSE <<[len |-> 8, id |-> TRUE, rep |-> rep], [len |-> 1, id |-> TRUE, rep |-> rep]>>
IsReport(s) == \E rep \in Reported : s = FullReport(rep)
IsWhole(s) == s = <<>> \/ s = <<Hid!MousePacket>> \/ IsReport(s)
Halves(g, s) ==
  /\ ~Hid!Boot
  /\ \E rep \in Reported : /\ g = <<[len |-> 8, id |-> TRUE, rep |-> rep]>>
                      /\ s = <<[len |-> 1, id |-> TRUE, rep |-> rep]>>

\* No read takes packets of two reports, where a packet due comes in time.
ReadsAligned(s, g) == ~line.late => (IsWhole(s) /\ IsWhole(g)) \/ Halves(g, s)

\* The last change is not on its way: it was refused, or is of a device that is silent.
Unsent == owed \/ Hid!NotSent("keyboard")
LEMMA UnsentKept == ASSUME UNCHANGED <<line, owed>> PROVE Unsent' = Unsent
BY DEF Unsent, Hid!NotSent

\* The last report that is under way, or has been read, is of what is held.
ReportOf(p) == [mod |-> p.mod, keys |-> p.keys, roll |-> Hid!Rollover(p)]
ReportUpToDate(s, g, o, p, d) ==
  ~line.late /\ ~o =>
    IF IsReport(s) THEN s = FullReport(ReportOf(p))
    ELSE IF IsReport(g) THEN g = FullReport(ReportOf(p))
    ELSE IF Halves(g, s) THEN g[1].rep = ReportOf(p)
    ELSE Hid!Rollover(p) \/ (d.mod = p.mod /\ d.held = p.keys)

\* The inductive invariant.
HidIInv ==
  /\ HidTypeOK /\ keys = Down(dec)
  /\ ReadsAligned(pipe, got) /\ ReportUpToDate(pipe, got, Unsent, phys, dec)

\* What is at the two ends stays, so that the invariant can be said of the new state.
LEMMA HidPrimed ==
  ASSUME line' = line, HidTypeOK', keys' = Down(dec'),
         ReadsAligned(pipe', got'), ReportUpToDate(pipe', got', Unsent', phys', dec')
  PROVE  HidIInv'
<1>1. Hid!Boot' = Hid!Boot
  BY DEF Hid!Boot
<1>2. \A r : FullReport(r)' = FullReport(r)
  BY <1>1 DEF FullReport
<1>3. (IsReport(pipe)' <=> IsReport(pipe')) /\ (IsReport(got)' <=> IsReport(got'))
  BY <1>2 DEF IsReport
<1>4. Halves(got, pipe)' <=> Halves(got', pipe')
  BY <1>1 DEF Halves
<1>5. ReadsAligned(pipe, got)'
  BY <1>3, <1>4 DEF ReadsAligned, IsWhole
<1>6. FullReport(ReportOf(phys))' = FullReport(ReportOf(phys'))
  BY <1>1 DEF FullReport, ReportOf, Hid!Rollover
<1>7. ReportUpToDate(pipe, got, Unsent, phys, dec)'
  BY <1>3, <1>4, <1>6 DEF ReportUpToDate, ReportOf, Hid!Rollover
<1> QED BY <1>5, <1>7 DEF HidIInv, Down

\* What the shapes of the packets tell apart.
LEMMA PacketShapes ==
  ASSUME NEW rep \in Reported, Hid!KeysAssumption
  PROVE  /\ FullReport(rep) \in Seq(HidPacket) /\ FullReport(rep) # <<>>
         /\ FullReport(rep) # <<Hid!MousePacket>>
         /\ FullReport(rep)[1].rep = rep /\ FullReport(rep)[1].len = 8
         /\ <<Hid!MousePacket>> \in Seq(HidPacket) /\ <<Hid!MousePacket>> # <<>>
         /\ ~IsReport(<<>>) /\ ~IsReport(<<Hid!MousePacket>>)
         /\ \A r \in Reported : FullReport(r) = FullReport(rep) => r = rep
<1> DEFINE p8(i, r) == [len |-> 8, id |-> i, rep |-> r]  p1(r) == [len |-> 1, id |-> TRUE, rep |-> r]
<1>1. \A r \in Reported, i \in BOOLEAN : /\ p8(i, r) \in HidPacket /\ p1(r) \in HidPacket
                                    /\ p8(i, r).rep = r /\ p8(i, r).len = 8
  BY DEF HidPacket
<1>2. Hid!MousePacket \in HidPacket /\ Hid!MousePacket.len = 5
  BY DEF Hid!MousePacket, HidPacket, Reported
<1>3. \A r \in Reported : FullReport(r) = (IF Hid!Boot THEN <<p8(FALSE, r)>> ELSE <<p8(TRUE, r), p1(r)>>)
  BY DEF FullReport
<1>0. ASSUME NEW a \in HidPacket, NEW b \in HidPacket
      PROVE  /\ <<a>> \in Seq(HidPacket) /\ Len(<<a>>) = 1 /\ <<a>>[1] = a
             /\ <<a, b>> \in Seq(HidPacket) /\ Len(<<a, b>>) = 2 /\ <<a, b>>[1] = a
  <2> HIDE DEF p8, p1
  <2> QED OBVIOUS
<1> HIDE DEF p8, p1
<1>4. ASSUME NEW r \in Reported
      PROVE  /\ FullReport(r) \in Seq(HidPacket) /\ Len(FullReport(r)) \in {1, 2}
             /\ FullReport(r)[1].rep = r /\ FullReport(r)[1].len = 8
  <2>1. CASE Hid!Boot
    <3>1. FullReport(r) = <<p8(FALSE, r)>> /\ p8(FALSE, r) \in HidPacket
      BY <1>1, <1>3, <2>1
    <3>2. FullReport(r) \in Seq(HidPacket) /\ Len(FullReport(r)) = 1 /\ FullReport(r)[1] = p8(FALSE, r)
      BY <1>0, <3>1
    <3> QED BY <1>1, <3>2
  <2>2. CASE ~Hid!Boot
    <3>1. FullReport(r) = <<p8(TRUE, r), p1(r)>> /\ p8(TRUE, r) \in HidPacket /\ p1(r) \in HidPacket
      BY <1>1, <1>3, <2>2
    <3>2. FullReport(r) \in Seq(HidPacket) /\ Len(FullReport(r)) = 2 /\ FullReport(r)[1] = p8(TRUE, r)
      BY <1>0, <3>1
    <3> QED BY <1>1, <3>2
  <2> QED BY <2>1, <2>2
<1>5. /\ <<Hid!MousePacket>> \in Seq(HidPacket) /\ Len(<<Hid!MousePacket>>) = 1
      /\ <<Hid!MousePacket>>[1] = Hid!MousePacket
  BY <1>2
<1>6. Len(<<>>) = 0
  OBVIOUS
<1>7. \A r \in Reported : FullReport(r) # <<>> /\ FullReport(r) # <<Hid!MousePacket>>
  BY <1>2, <1>4, <1>5, <1>6
<1> QED BY <1>4, <1>5, <1>6, <1>7 DEF IsReport

\* At first nothing is held and nothing is under way.
LEMMA HidInit == ASSUME Hid!KeysAssumption, Hid!Init PROVE HidIInv
<1>1. pipe = <<>> /\ got = <<>> /\ <<>> \in Seq(HidPacket)
  BY DEF Hid!Init
<1>2. HidTypeOK /\ keys = Down(dec)
  BY <1>1 DEF Hid!Init, HidTypeOK, HeldSets, Decoder, Down
<1>3. ~IsReport(<<>>) /\ ~Halves(<<>>, <<>>)
  <2>1. [mod |-> {}, keys |-> {}, roll |-> TRUE] \in Reported
    BY DEF Reported
  <2> QED BY <2>1, PacketShapes DEF Halves
<1>4. ReadsAligned(<<>>, <<>>) /\ ReportUpToDate(<<>>, <<>>, Unsent, phys, dec)
  BY <1>3 DEF Hid!Init, ReadsAligned, IsWhole, ReportUpToDate
<1> QED BY <1>1, <1>2, <1>4 DEF HidIInv

\* What a read makes of a report that is whole.
LEMMA ReadsWhole ==
  ASSUME Hid!KeysAssumption, NEW r \in Reported, got = FullReport(r)
  PROVE  got # <<>> /\ ~Hid!Goes /\ Hid!Report = r /\ got[1].rep = r
<1> DEFINE p8(i) == [len |-> 8, id |-> i, rep |-> r]  p1 == [len |-> 1, id |-> TRUE, rep |-> r]
<1>0. got # <<>> /\ got[1].rep = r
  BY PacketShapes
<1>1. CASE Hid!Boot
  <2>1. got = <<p8(FALSE)>>
    BY <1>1 DEF FullReport
  <2>2. Len(got) = 1 /\ got[1] = p8(FALSE)
    BY <2>1
  <2>3. p8(FALSE).len = 8 /\ p8(FALSE).id = FALSE /\ p8(FALSE).rep = r
    OBVIOUS
  <2> HIDE DEF p8
  <2>4. Hid!Newest = p8(FALSE)
    BY <2>2 DEF Hid!Newest
  <2>7. Hid!Newest.len = 8
    BY <2>3, <2>4, Zenon
  <2>9. Len(got) - 1 = 0
    BY <2>2
  <2>10. Hid!Length = 8 * 0 + 8
    BY <2>7, <2>9, Zenon DEF Hid!Length
  <2>8. Hid!Length = 8
    BY <2>10
  <2>6. Hid!Length = 8 /\ ~got[1].id /\ got[1].rep = r
    BY <2>2, <2>3, <2>8
  <2>5. Hid!Report = r
    BY <2>6 DEF Hid!Report
  <2> QED BY <1>0, <1>1, <2>5 DEF Hid!Goes
<1>2. CASE ~Hid!Boot
  <2>1. got = <<p8(TRUE), p1>>
    BY <1>2 DEF FullReport
  <2>2. Len(got) = 2 /\ got[1] = p8(TRUE) /\ got[2] = p1
    BY <2>1
  <2>3. p8(TRUE).rep = r /\ p1.len = 1
    OBVIOUS
  <2> HIDE DEF p8, p1
  <2>4. Hid!Newest = p1
    BY <2>2 DEF Hid!Newest
  <2>7. Hid!Newest.len = 1
    BY <2>3, <2>4, Zenon
  <2>9. Len(got) - 1 = 1
    BY <2>2
  <2>10. Hid!Length = 8 * 1 + 1
    BY <2>7, <2>9, Zenon DEF Hid!Length
  <2>8. Hid!Length = 9
    BY <2>10
  <2>6. Hid!Length = 9 /\ Hid!Newest.len = 1 /\ got[1].rep = r
    BY <2>2, <2>3, <2>7, <2>8
  <2>5. Hid!Report = r
    BY <2>6 DEF Hid!Report
  <2> QED BY <1>0, <2>6, <2>5 DEF Hid!Goes
<1> QED BY <1>1, <1>2

\* A mouse's report is passed over.
LEMMA ReadsMouse ==
  ASSUME got = <<Hid!MousePacket>> PROVE got # <<>> /\ ~Hid!Goes /\ Hid!Report = [roll |-> TRUE]
<1>1. Hid!MousePacket.len = 5
  BY DEF Hid!MousePacket
<1>2. Len(got) = 1 /\ got[1] = Hid!MousePacket
  OBVIOUS
<1>3. Hid!Length = 5 /\ Hid!Newest.len = 5
  BY <1>1, <1>2 DEF Hid!Length, Hid!Newest
<1>4. Hid!Report = [roll |-> TRUE]
  BY <1>3 DEF Hid!Report
<1> QED BY <1>2, <1>3, <1>4 DEF Hid!Goes

\* Half a report is none.
LEMMA HalvesApart ==
  ASSUME Hid!KeysAssumption, NEW g, NEW s, Halves(g, s)
  PROVE  ~IsReport(s) /\ ~IsReport(g)
<1>1. PICK r \in Reported : /\ g = <<[len |-> 8, id |-> TRUE, rep |-> r]>>
                       /\ s = <<[len |-> 1, id |-> TRUE, rep |-> r]>>
  BY DEF Halves
<1>2. Len(g) = 1 /\ Len(s) = 1
  BY <1>1
<1>3. ASSUME NEW q \in Reported PROVE Len(FullReport(q)) = 2
  BY DEF FullReport, Halves
<1> QED BY <1>2, <1>3 DEF IsReport

\* After the first packet of two, the read goes on.
LEMMA ReadsOn ==
  ASSUME Hid!KeysAssumption, Halves(got, pipe)
  PROVE  /\ Hid!Goes /\ pipe # <<>> /\ ~IsReport(pipe) /\ ~IsReport(got) /\ got # <<>>
         /\ got[1].rep \in Reported /\ Tail(pipe) = <<>>
         /\ Append(got, Head(pipe)) = FullReport(got[1].rep)
<1>1. PICK r \in Reported : /\ got = <<[len |-> 8, id |-> TRUE, rep |-> r]>>
                       /\ pipe = <<[len |-> 1, id |-> TRUE, rep |-> r]>>
  BY DEF Halves
<1> DEFINE p8 == [len |-> 8, id |-> TRUE, rep |-> r]  p1 == [len |-> 1, id |-> TRUE, rep |-> r]
<1>2. p8.len = 8 /\ p1.len = 1 /\ p8.rep = r
  OBVIOUS
<1>3. FullReport(r) = <<p8, p1>> /\ ~Hid!Boot
  BY DEF FullReport, Halves
<1>4. \A q \in Reported : FullReport(q)[1].len = 8 /\ Len(FullReport(q)) = 2
  <2>1. ASSUME NEW q \in Reported PROVE Len(FullReport(q)) = 2
    BY <1>3 DEF FullReport
  <2> QED BY <2>1, PacketShapes
<1>5. got = <<p8>> /\ pipe = <<p1>>
  BY <1>1
<1> HIDE DEF p8, p1
<1>8. ASSUME NEW a \in HidPacket, NEW b \in HidPacket
      PROVE  /\ Len(<<a>>) = 1 /\ <<a>>[1] = a /\ Head(<<a>>) = a /\ Tail(<<a>>) = <<>>
             /\ Append(<<a>>, b) = <<a, b>>
  <2>1. Len(<<a>>) = 1 /\ <<a>>[1] = a
    OBVIOUS
  <2>2. Head(<<a>>) = a
    OBVIOUS
  <2>3. Tail(<<a>>) = <<>>
    OBVIOUS
  <2>4. Append(<<a>>, b) = <<a, b>>
    <3> DEFINE s == Append(<<a>>, b)  u == <<a, b>>
    <3>1. s \in Seq(HidPacket) /\ Len(s) = 2 /\ s[1] = a /\ s[2] = b
      OBVIOUS
    <3>2. u \in Seq(HidPacket) /\ Len(u) = 2 /\ u[1] = a /\ u[2] = b
      OBVIOUS
    <3> HIDE DEF s, u
    <3>3. s = u
      BY <3>1, <3>2
    <3> QED BY <3>3 DEF s, u
  <2> QED BY <2>1, <2>2, <2>3, <2>4
<1>6. /\ Len(got) = 1 /\ got[1] = p8 /\ pipe[1] = p1 /\ Len(pipe) = 1 /\ Head(pipe) = p1
      /\ Tail(pipe) = <<>> /\ Append(got, p1) = <<p8, p1>>
  <2>1. p8 \in HidPacket /\ p1 \in HidPacket
    BY DEF p8, p1, HidPacket
  <2> QED BY <1>5, <1>8, <2>1
<1>7. Hid!Goes /\ ~IsReport(pipe) /\ ~IsReport(got)
  BY <1>2, <1>3, <1>4, <1>6 DEF Hid!Goes, Hid!Newest, IsReport
<1>9. got # <<>> /\ pipe # <<>>
  BY <1>6
<1> QED BY <1>2, <1>3, <1>6, <1>7, <1>9

\* A report's packets, as they are sent.
LEMMA ReportSent ==
  ASSUME NEW p \in HeldSets
  PROVE  /\ [mod |-> p.mod, keys |-> p.keys, roll |-> Hid!Rollover(p)] \in Reported
         /\ Hid!Packets(p) = FullReport([mod |-> p.mod, keys |-> p.keys, roll |-> Hid!Rollover(p)])
<1>1. Hid!Rollover(p) \in BOOLEAN
  BY DEF Hid!Rollover
<1>2. [mod |-> p.mod, keys |-> p.keys, roll |-> Hid!Rollover(p)] \in Reported
  BY <1>1 DEF HeldSets, Reported
<1> QED BY <1>2 DEF Hid!Packets, FullReport

\* The decoder's events are one for each key that changed.
LEMMA Feeds ==
  ASSUME Hid!KeysAssumption, dec \in Decoder, NEW rep \in Reported, Hid!Feed(rep)
  PROVE  /\ dec' \in Decoder
         /\ TellsChange(events', Down(dec) \ Down(dec'), Down(dec') \ Down(dec))
         /\ IF rep.roll THEN events' = <<>> /\ dec' = dec
            ELSE dec' = [held |-> rep.keys, mod |-> rep.mod]
<1>1. CASE rep.roll
  <2>1. events' = <<>> /\ dec' = dec
    BY <1>1 DEF Hid!Feed
  <2>2. TellsChange(<<>>, {}, {})
    BY DEF TellsChange
  <2>3. Down(dec) \ Down(dec') = {} /\ Down(dec') \ Down(dec) = {}
    BY <2>1
  <2> QED BY <1>1, <2>1, <2>2, <2>3
<1>2. CASE ~rep.roll
  <2> DEFINE a == dec.mod \ rep.mod  b == dec.held \ rep.keys
             c == rep.keys \ dec.held  d == rep.mod \ dec.mod
  <2>1. /\ dec' = [held |-> rep.keys, mod |-> rep.mod]
        /\ events' = Hid!Events(TRUE, a) \o Hid!Events(TRUE, b)
                      \o Hid!Events(FALSE, c) \o Hid!Events(FALSE, d)
    BY <1>2 DEF Hid!Feed
  <2>2. /\ dec.mod \in SUBSET Mods /\ dec.held \in SUBSET Keys
        /\ rep.mod \in SUBSET Mods /\ rep.keys \in SUBSET Keys
    BY DEF Decoder, Reported
  <2>3. /\ a \in SUBSET Mods /\ b \in SUBSET Keys /\ c \in SUBSET Keys /\ d \in SUBSET Mods
        /\ Keys \cap Mods = {} /\ IsFiniteSet(Keys) /\ IsFiniteSet(Mods)
        /\ a \cap d = {} /\ b \cap c = {}
    BY <2>2, CountsAlike DEF Hid!KeysAssumption
  <2>4. dec'.held = rep.keys /\ dec'.mod = rep.mod /\ dec' \in Decoder
    BY <2>1, <2>2 DEF Decoder
  <2>5. /\ Down(dec) \ Down(dec') = (a \cup b) \cup ({} \cup {}) \cup {}
        /\ Down(dec') \ Down(dec) = ({} \cup {}) \cup c \cup d
    BY <2>2, <2>3, <2>4 DEF Down
  <2> HIDE DEF a, b, c, d
  <2>6. IsFiniteSet(a) /\ IsFiniteSet(b) /\ IsFiniteSet(c) /\ IsFiniteSet(d)
    BY <2>3, FS_Subset
  <2>7. /\ TellsChange(Hid!Events(TRUE, a), a, {}) /\ TellsChange(Hid!Events(TRUE, b), b, {})
        /\ TellsChange(Hid!Events(FALSE, c), {}, c) /\ TellsChange(Hid!Events(FALSE, d), {}, d)
    BY <2>3, <2>6, EventsTell DEF Usages
  <2>8. TellsChange(Hid!Events(TRUE, a) \o Hid!Events(TRUE, b), a \cup b, {} \cup {})
    BY <2>3, <2>7, TellsBoth
  <2>9. TellsChange(Hid!Events(TRUE, a) \o Hid!Events(TRUE, b) \o Hid!Events(FALSE, c),
              (a \cup b) \cup {}, ({} \cup {}) \cup c)
    BY <2>3, <2>7, <2>8, TellsBoth
  <2>10. TellsChange(events', ((a \cup b) \cup {}) \cup {}, (({} \cup {}) \cup c) \cup d)
    BY <2>1, <2>3, <2>7, <2>9, TellsBoth
  <2>11. /\ Down(dec) \ Down(dec') = ((a \cup b) \cup {}) \cup {}
         /\ Down(dec') \ Down(dec) = (({} \cup {}) \cup c) \cup d
    BY <2>5
  <2> QED BY <1>2, <2>1, <2>4, <2>10, <2>11
<1> QED BY <1>1, <1>2

\* A read that ends gives the decoder a report, or nothing.
LEMMA ReadsReport ==
  ASSUME got \in Seq(HidPacket), got # <<>>, Hid!KeysAssumption
  PROVE  Hid!Report = [roll |-> TRUE] \/ Hid!Report \in Reported
<1>1. got[1].rep \in Reported
  <2>1. got[1] \in HidPacket
    OBVIOUS
  <2> QED BY <2>1 DEF HidPacket
<1>2. [got[1].rep EXCEPT !.mod = {LeftCtrl}] \in Reported
  BY <1>1 DEF Reported, Hid!KeysAssumption
<1> QED BY <1>1, <1>2 DEF Hid!Report

\* What the end of a read changes.
LEMMA ReadEnds ==
  ASSUME Hid!KeysAssumption, dec \in Decoder, got \in Seq(HidPacket), keys = Down(dec), Hid!Deliver
  PROVE  /\ dec' \in Decoder /\ keys' = Down(dec')
         /\ TellsChange(events', Down(dec) \ Down(dec'), Down(dec') \ Down(dec))
         /\ \A i \in DOMAIN events' :
              events'[i].up <=> (events'[i].u \in Hid!Seen(keys, SubSeq(events', 1, i - 1)))
         /\ Hid!Report = [roll |-> TRUE] => events' = <<>> /\ dec' = dec
         /\ Hid!Report \in Reported =>
              IF Hid!Report.roll THEN events' = <<>> /\ dec' = dec
              ELSE dec' = [held |-> Hid!Report.keys, mod |-> Hid!Report.mod]
<1>1. got # <<>> /\ keys' = Hid!Seen(keys, events')
  BY DEF Hid!Deliver
<1> DEFINE Told == /\ dec' \in Decoder
                   /\ TellsChange(events', Down(dec) \ Down(dec'), Down(dec') \ Down(dec))
                   /\ Hid!Report = [roll |-> TRUE] => events' = <<>> /\ dec' = dec
                   /\ Hid!Report \in Reported =>
                        IF Hid!Report.roll THEN events' = <<>> /\ dec' = dec
                        ELSE dec' = [held |-> Hid!Report.keys, mod |-> Hid!Report.mod]
<1>2. ASSUME Hid!Report = [roll |-> TRUE] PROVE Told
  <2>1. events' = <<>> /\ dec' = dec
    BY <1>2 DEF Hid!Deliver
  <2>2. TellsChange(<<>>, {}, {})
    BY DEF TellsChange
  <2>3. Hid!Report.roll
    BY <1>2
  <2>4. Down(dec) \ Down(dec') = {} /\ Down(dec') \ Down(dec) = {}
    BY <2>1
  <2> QED BY <2>1, <2>2, <2>3, <2>4
<1>3. ASSUME Hid!Report # [roll |-> TRUE] PROVE Told
  <2>1. Hid!Report \in Reported /\ Hid!Feed(Hid!Report)
    BY <1>1, <1>3, ReadsReport DEF Hid!Deliver
  <2> QED BY <1>3, <2>1, Feeds
<1>4. Told
  BY <1>2, <1>3
<1>5. Down(dec) \in SUBSET Usages /\ Down(dec') \in SUBSET Usages
  BY <1>4 DEF Decoder, Down, Usages
<1>6. /\ Hid!Seen(keys, events') = Down(dec')
      /\ \A i \in DOMAIN events' :
              events'[i].up <=> (events'[i].u \in Hid!Seen(keys, SubSeq(events', 1, i - 1)))
  BY <1>4, <1>5, SeenAfter
<1> HIDE DEF Told
<1> QED BY <1>1, <1>4, <1>6 DEF Told

\* A report is sent while none is under way.
LEMMA ReportMade ==
  ASSUME Hid!KeysAssumption, HidIInv, pipe = <<>>, phys' \in HeldSets, pipe' = Hid!Packets(phys'),
         owed' \in BOOLEAN, UNCHANGED <<line, got, dec, keys>>
  PROVE  HidIInv'
<1>1. ReportOf(phys') \in Reported /\ pipe' = FullReport(ReportOf(phys'))
  BY ReportSent DEF ReportOf
<1>2. IsReport(pipe') /\ pipe' \in Seq(HidPacket)
  BY <1>1, PacketShapes DEF IsReport
<1>3. ~Halves(got, <<>>)
  <2>1. ASSUME Halves(got, pipe) PROVE FALSE
    BY <2>1, ReadsOn
  <2> QED BY <2>1
<1>4. ReadsAligned(pipe', got') /\ ReportUpToDate(pipe', got', Unsent', phys', dec')
  BY <1>1, <1>2, <1>3 DEF HidIInv, ReadsAligned, IsWhole, ReportUpToDate
<1>5. HidTypeOK' /\ keys' = Down(dec')
  BY <1>2 DEF HidIInv, HidTypeOK
<1> QED BY <1>4, <1>5, HidPrimed

\* A change that is not reported is owed.
LEMMA ReportOwed ==
  ASSUME HidIInv, phys' \in HeldSets, owed' \in BOOLEAN, Unsent',
         UNCHANGED <<line, pipe, got, dec, keys>>
  PROVE  HidIInv'
<1>1. ReadsAligned(pipe', got') /\ ReportUpToDate(pipe', got', Unsent', phys', dec')
  BY DEF HidIInv, ReportUpToDate
<1>2. HidTypeOK' /\ keys' = Down(dec')
  BY DEF HidIInv, HidTypeOK
<1> QED BY <1>1, <1>2, HidPrimed

\* The mouse's packet is of no key.
LEMMA MouseMoves == ASSUME Hid!KeysAssumption, HidIInv, Hid!MoveMouse PROVE HidIInv'
<1>1. /\ pipe = <<>> /\ (pipe' = <<>> \/ pipe' = <<Hid!MousePacket>>)
      /\ UNCHANGED <<line, phys, owed, got, dec, keys>>
  BY DEF Hid!MoveMouse, Hid!Submit
<1>2. ~IsReport(<<>>) /\ ~IsReport(<<Hid!MousePacket>>) /\ <<Hid!MousePacket>> \in Seq(HidPacket)
  <2>1. [mod |-> {}, keys |-> {}, roll |-> TRUE] \in Reported
    BY DEF Reported
  <2> QED BY <2>1, PacketShapes
<1>3. ~Halves(got, <<>>) /\ ~Halves(got, <<Hid!MousePacket>>)
  <2>1. ASSUME Halves(got, <<Hid!MousePacket>>) PROVE FALSE
    <3>1. PICK r \in Reported : <<Hid!MousePacket>> = <<[len |-> 1, id |-> TRUE, rep |-> r]>>
      BY <2>1 DEF Halves
    <3>2. Hid!MousePacket = [len |-> 1, id |-> TRUE, rep |-> r]
      BY <3>1
    <3> QED BY <3>2 DEF Hid!MousePacket
  <2>2. ~Halves(got, <<>>)
    BY DEF Halves
  <2> QED BY <2>1, <2>2
<1>6. Unsent' = Unsent
  BY <1>1, UnsentKept
<1>4. ReadsAligned(pipe', got') /\ ReportUpToDate(pipe', got', Unsent', phys', dec')
  BY <1>1, <1>2, <1>3, <1>6 DEF HidIInv, ReadsAligned, IsWhole, ReportUpToDate
<1>5. HidTypeOK' /\ keys' = Down(dec')
  BY <1>1, <1>2 DEF HidIInv, HidTypeOK
<1> QED BY <1>1, <1>4, <1>5, HidPrimed

\* A report that is whole is its first packet and the rest, and a read takes one.
LEMMA ReportHeads ==
  ASSUME Hid!KeysAssumption, NEW r \in Reported
  PROVE  LET h == Head(FullReport(r))  s == Tail(FullReport(r)) IN
         /\ FullReport(r) \in Seq(HidPacket) /\ FullReport(r) # <<>> /\ h \in HidPacket /\ h.rep = r
         /\ Hid!Boot => <<h>> = FullReport(r) /\ s = <<>>
         /\ ~Hid!Boot => Halves(<<h>>, s) /\ s \in Seq(HidPacket)
<1> DEFINE p8(i) == [len |-> 8, id |-> i, rep |-> r]  p1 == [len |-> 1, id |-> TRUE, rep |-> r]
<1>1. p8(TRUE) \in HidPacket /\ p8(FALSE) \in HidPacket /\ p1 \in HidPacket
  BY DEF HidPacket
<1>2. p8(TRUE).rep = r /\ p8(FALSE).rep = r
  OBVIOUS
<1>3. FullReport(r) = (IF Hid!Boot THEN <<p8(FALSE)>> ELSE <<p8(TRUE), p1>>)
  BY DEF FullReport
<1>4. ~Hid!Boot => Halves(<<p8(TRUE)>>, <<p1>>)
  BY DEF Halves
<1> HIDE DEF p8, p1
<1>5. ASSUME NEW a \in HidPacket, NEW b \in HidPacket
      PROVE  /\ Head(<<a>>) = a /\ Tail(<<a>>) = <<>> /\ <<a>> # <<>> /\ <<a>> \in Seq(HidPacket)
             /\ Head(<<a, b>>) = a /\ Tail(<<a, b>>) = <<b>> /\ <<a, b>> # <<>>
             /\ <<a, b>> \in Seq(HidPacket) /\ <<b>> \in Seq(HidPacket)
  <2>1. Tail(<<a, b>>) = <<b>>
    <3> DEFINE s == Tail(<<a, b>>)  u == <<b>>
    <3>1. s \in Seq(HidPacket) /\ Len(s) = 1 /\ s[1] = b
      OBVIOUS
    <3>2. u \in Seq(HidPacket) /\ Len(u) = 1 /\ u[1] = b
      OBVIOUS
    <3> HIDE DEF s, u
    <3>3. s = u
      BY <3>1, <3>2
    <3> QED BY <3>3 DEF s, u
  <2>2. Tail(<<a>>) = <<>> /\ Head(<<a>>) = a /\ Head(<<a, b>>) = a
    OBVIOUS
  <2>3. <<a>> # <<>> /\ <<a, b>> # <<>>
    OBVIOUS
  <2>4. <<a>> \in Seq(HidPacket) /\ <<b>> \in Seq(HidPacket) /\ <<a, b>> \in Seq(HidPacket)
    OBVIOUS
  <2> QED BY <2>1, <2>2, <2>3, <2>4
<1>6. CASE Hid!Boot
  <2>1. FullReport(r) = <<p8(FALSE)>>
    BY <1>3, <1>6
  <2> QED BY <1>1, <1>2, <1>5, <1>6, <2>1
<1>7. CASE ~Hid!Boot
  <2>1. FullReport(r) = <<p8(TRUE), p1>>
    BY <1>3, <1>7
  <2>4. /\ Head(<<p8(TRUE), p1>>) = p8(TRUE) /\ Tail(<<p8(TRUE), p1>>) = <<p1>>
        /\ <<p8(TRUE), p1>> # <<>> /\ <<p8(TRUE), p1>> \in Seq(HidPacket) /\ <<p1>> \in Seq(HidPacket)
    BY <1>1, <1>5
  <2>2. /\ Head(FullReport(r)) = p8(TRUE) /\ Tail(FullReport(r)) = <<p1>> /\ <<p1>> \in Seq(HidPacket)
        /\ FullReport(r) # <<>> /\ FullReport(r) \in Seq(HidPacket)
    BY <2>1, <2>4
  <2>3. Halves(<<Head(FullReport(r))>>, Tail(FullReport(r)))
    BY <1>4, <1>7, <2>2
  <2> QED BY <1>1, <1>2, <1>7, <2>2, <2>3
<1> QED BY <1>6, <1>7

\* A read takes a packet: of the report it has begun, or of the next.
LEMMA PacketTaken == ASSUME Hid!KeysAssumption, HidIInv, Hid!Take PROVE HidIInv'
<1>1. /\ pipe # <<>> /\ (got = <<>> \/ Hid!Goes) /\ got' = Append(got, Head(pipe)) /\ pipe' = Tail(pipe)
      /\ UNCHANGED <<line, phys, owed, dec, keys>>
  BY DEF Hid!Take
<1>2. HidTypeOK' /\ keys' = Down(dec')
  <2>1. pipe \in Seq(HidPacket) /\ got \in Seq(HidPacket)
    BY DEF HidIInv, HidTypeOK
  <2>2. pipe' \in Seq(HidPacket) /\ got' \in Seq(HidPacket)
    BY <1>1, <2>1
  <2> QED BY <1>1, <2>2 DEF HidIInv, HidTypeOK
<1>3. /\ ~IsReport(<<>>) /\ ~IsReport(<<Hid!MousePacket>>) /\ <<Hid!MousePacket>> \in Seq(HidPacket)
      /\ Hid!MousePacket \in HidPacket
  <2>1. [mod |-> {}, keys |-> {}, roll |-> TRUE] \in Reported
    BY DEF Reported
  <2>2. Hid!MousePacket \in HidPacket
    BY <2>1 DEF Hid!MousePacket, HidPacket, Reported
  <2> QED BY <2>1, <2>2, PacketShapes
<1>4. \A g : ~Halves(g, <<>>)
  BY DEF Halves
<1>8. Unsent' = Unsent
  BY <1>1, UnsentKept
<1>5. CASE line.late
  <2>1. ReadsAligned(pipe', got') /\ ReportUpToDate(pipe', got', Unsent', phys', dec')
    BY <1>5 DEF ReadsAligned, ReportUpToDate
  <2> QED BY <1>1, <1>2, <2>1, HidPrimed
<1>6. CASE Halves(got, pipe)
  <2>1. /\ got[1].rep \in Reported /\ got' = FullReport(got[1].rep) /\ pipe' = <<>>
        /\ ~IsReport(pipe) /\ ~IsReport(got)
    BY <1>1, <1>6, ReadsOn
  <2>2. IsReport(got')
    BY <2>1 DEF IsReport
  <2>3. ReadsAligned(pipe', got') /\ ReportUpToDate(pipe', got', Unsent', phys', dec')
    BY <1>1, <1>3, <1>6, <1>8, <2>1, <2>2 DEF HidIInv, ReadsAligned, IsWhole, ReportUpToDate
  <2> QED BY <1>1, <1>2, <2>3, HidPrimed
<1>7. CASE ~line.late /\ ~Halves(got, pipe)
  <2>1. IsWhole(pipe) /\ IsWhole(got)
    BY <1>7 DEF HidIInv, ReadsAligned
  <2>2. got = <<>>
    <3>1. ~IsReport(got) /\ got # <<Hid!MousePacket>>
      <4>1. ASSUME IsReport(got) PROVE FALSE
        BY <1>1, <4>1, ReadsWhole DEF IsReport
      <4>2. ASSUME got = <<Hid!MousePacket>> PROVE FALSE
        BY <1>1, <4>2, ReadsMouse
      <4> QED BY <4>1, <4>2
    <3> QED BY <2>1, <3>1 DEF IsWhole
  <2>3. CASE pipe = <<Hid!MousePacket>>
    <3>1. got' = <<Hid!MousePacket>> /\ pipe' = <<>>
      BY <1>1, <1>3, <2>2, <2>3
    <3>2. ReadsAligned(pipe', got') /\ ReportUpToDate(pipe', got', Unsent', phys', dec')
      BY <1>1, <1>3, <1>4, <1>7, <1>8, <2>2, <2>3, <3>1 DEF HidIInv, ReadsAligned, IsWhole, ReportUpToDate
    <3> QED BY <1>1, <1>2, <3>2, HidPrimed
  <2>4. CASE IsReport(pipe)
    <3>1. PICK r \in Reported : pipe = FullReport(r)
      BY <2>4 DEF IsReport
    <3>0. Head(pipe).rep = r /\ Head(pipe) \in HidPacket
      BY <3>1, ReportHeads
    <3>2. got' = <<Head(pipe)>> /\ Head(pipe).rep = r /\ Head(pipe) \in HidPacket
      <4>1. ASSUME NEW a \in HidPacket PROVE Append(<<>>, a) = <<a>>
        OBVIOUS
      <4> QED BY <1>1, <2>2, <3>0, <4>1
    <3>3. CASE Hid!Boot
      <4>1. got' = FullReport(r) /\ pipe' = <<>>
        BY <1>1, <3>1, <3>2, <3>3, ReportHeads
      <4>2. IsReport(got')
        BY <4>1 DEF IsReport
      <4>3. ReadsAligned(pipe', got') /\ ReportUpToDate(pipe', got', Unsent', phys', dec')
        BY <1>1, <1>3, <1>8, <2>4, <3>1, <4>1, <4>2
           DEF HidIInv, ReadsAligned, IsWhole, ReportUpToDate
      <4> QED BY <1>1, <1>2, <4>3, HidPrimed
    <3>4. CASE ~Hid!Boot
      <4>1. Halves(got', pipe')
        BY <1>1, <3>1, <3>2, <3>4, ReportHeads
      <4>2. got'[1] = Head(pipe)
        BY <3>2
      <4>3. got'[1].rep = r
        BY <3>2, <4>2
      <4>4. ~IsReport(got') /\ ~IsReport(pipe')
        BY <4>1, HalvesApart
      <4>5. ReadsAligned(pipe', got') /\ ReportUpToDate(pipe', got', Unsent', phys', dec')
        <5>1. ~Unsent => FullReport(r) = FullReport(ReportOf(phys)) /\ ReportOf(phys) \in Reported
          <6>1. phys \in HeldSets
            BY DEF HidIInv, HidTypeOK
          <6> QED BY <1>7, <2>4, <3>1, <6>1, ReportSent DEF HidIInv, ReportUpToDate, ReportOf
        <5>2. ~Unsent => r = ReportOf(phys)
          BY <5>1, PacketShapes
        <5> QED BY <1>1, <1>8, <4>1, <4>3, <4>4, <5>2 DEF ReadsAligned, ReportUpToDate
      <4> QED BY <1>1, <1>2, <4>5, HidPrimed
    <3> QED BY <3>3, <3>4
  <2> QED BY <1>1, <2>1, <2>3, <2>4 DEF IsWhole
<1> QED BY <1>5, <1>6, <1>7

\* Where packets come in time, a read that ends has a report, whole, or the mouse's.
LEMMA EndsWhole ==
  ASSUME Hid!KeysAssumption, HidIInv, Hid!Deliver, ~line.late
  PROVE  /\ \/ Hid!Report = [roll |-> TRUE] /\ ~IsReport(got)
            \/ Hid!Report \in Reported /\ got = FullReport(Hid!Report) /\ got[1].rep = Hid!Report
         /\ ~Halves(got, pipe)
<1>1. got # <<>> /\ (Hid!Goes => pipe = <<>>)
  BY DEF Hid!Deliver
<1>2. ~Halves(got, pipe)
  BY <1>1, ReadsOn
<1>3. got = <<Hid!MousePacket>> \/ IsReport(got)
  BY <1>1, <1>2 DEF HidIInv, ReadsAligned, IsWhole
<1>4. CASE got = <<Hid!MousePacket>>
  <2>1. [mod |-> {}, keys |-> {}, roll |-> TRUE] \in Reported
    BY DEF Reported
  <2>2. ~IsReport(got)
    BY <1>4, <2>1, PacketShapes
  <2> QED BY <1>2, <1>4, <2>2, ReadsMouse
<1>5. CASE IsReport(got)
  <2>1. PICK r \in Reported : got = FullReport(r)
    BY <1>5 DEF IsReport
  <2>2. Hid!Report = r /\ got[1].rep = r
    BY <2>1, ReadsWhole
  <2> QED BY <1>2, <2>1, <2>2
<1> QED BY <1>3, <1>4, <1>5

\* The end of a read: the decoder has what the report says.
LEMMA EndsRead == ASSUME Hid!KeysAssumption, HidIInv, Hid!Deliver PROVE HidIInv'
<1>1. got' = <<>> /\ UNCHANGED <<line, phys, pipe, owed>>
  BY DEF Hid!Deliver
<1>2. dec \in Decoder /\ got \in Seq(HidPacket) /\ keys = Down(dec) /\ phys \in HeldSets
  BY DEF HidIInv, HidTypeOK
<1>3. /\ dec' \in Decoder /\ keys' = Down(dec')
      /\ Hid!Report = [roll |-> TRUE] => dec' = dec
      /\ Hid!Report \in Reported => IF Hid!Report.roll THEN dec' = dec
                           ELSE dec' = [held |-> Hid!Report.keys, mod |-> Hid!Report.mod]
  BY <1>2, ReadEnds
<1>4. HidTypeOK'
  BY <1>1, <1>3 DEF HidIInv, HidTypeOK
<1>5. CASE line.late
  <2>1. ReadsAligned(pipe', got') /\ ReportUpToDate(pipe', got', Unsent', phys', dec')
    BY <1>1, <1>5 DEF ReadsAligned, ReportUpToDate
  <2> QED BY <1>1, <1>3, <1>4, <2>1, HidPrimed
<1>6. CASE ~line.late
  <2>1. /\ \/ Hid!Report = [roll |-> TRUE] /\ ~IsReport(got)
           \/ Hid!Report \in Reported /\ got = FullReport(Hid!Report)
        /\ ~Halves(got, pipe)
    BY <1>6, EndsWhole
  <2>2. ReadsAligned(pipe', got')
    BY <1>1, <2>1 DEF HidIInv, ReadsAligned, IsWhole
  <2>3. ~IsReport(<<>>) /\ \A s : ~Halves(<<>>, s)
    <3>1. [mod |-> {}, keys |-> {}, roll |-> TRUE] \in Reported
      BY DEF Reported
    <3> QED BY <3>1, PacketShapes DEF Halves
  <2>4. SUFFICES ASSUME ~Unsent, ~IsReport(pipe)
                 PROVE  Hid!Rollover(phys) \/ (dec'.mod = phys.mod /\ dec'.held = phys.keys)
    <3>1. ReportUpToDate(pipe', got', Unsent', phys', dec')
      BY <1>1, <2>3, <2>4, UnsentKept DEF HidIInv, ReportUpToDate
    <3> QED BY <1>1, <1>3, <1>4, <2>2, <3>1, HidPrimed
  <2>5. CASE Hid!Report = [roll |-> TRUE] /\ ~IsReport(got)
    BY <1>3, <1>6, <2>1, <2>4, <2>5 DEF HidIInv, ReportUpToDate
  <2>6. CASE Hid!Report \in Reported /\ got = FullReport(Hid!Report)
    <3>1. IsReport(got)
      BY <2>6 DEF IsReport
    <3>2. FullReport(Hid!Report) = FullReport(ReportOf(phys))
      BY <1>6, <2>4, <2>6, <3>1 DEF HidIInv, ReportUpToDate
    <3>3. ReportOf(phys) \in Reported
      BY <1>2, ReportSent DEF ReportOf
    <3>4. Hid!Report = ReportOf(phys)
      BY <2>6, <3>2, <3>3, PacketShapes
    <3>5. /\ ReportOf(phys).roll = Hid!Rollover(phys) /\ ReportOf(phys).mod = phys.mod
          /\ ReportOf(phys).keys = phys.keys
      BY DEF ReportOf
    <3>6. CASE Hid!Rollover(phys)
      BY <3>6
    <3>7. CASE ~Hid!Rollover(phys)
      <4>1. dec' = [held |-> phys.keys, mod |-> phys.mod]
        BY <1>3, <2>6, <3>4, <3>5, <3>7
      <4> QED BY <4>1
    <3> QED BY <3>6, <3>7
  <2> QED BY <2>1, <2>5, <2>6
<1> QED BY <1>5, <1>6

\* Every step keeps it so.
LEMMA HidNext == ASSUME Hid!KeysAssumption, HidIInv, Hid!Next PROVE HidIInv'
<1>1. ASSUME NEW m \in SUBSET Mods, NEW k \in SUBSET Keys, Hid!Change([mod |-> m, keys |-> k])
      PROVE  HidIInv'
  <2>1. phys' \in HeldSets /\ UNCHANGED <<line, got, dec, keys>>
    <3>1. phys' = [mod |-> m, keys |-> k]
      BY <1>1 DEF Hid!Change
    <3> QED BY <1>1, <3>1 DEF Hid!Change, HeldSets
  <2>2. /\ owed' \in BOOLEAN
        /\ \/ pipe = <<>> /\ pipe' = Hid!Packets(phys')
           \/ Unsent' /\ UNCHANGED pipe
    BY <1>1, <2>1 DEF Hid!Change, Hid!Submit, Unsent, Hid!NotSent
  <2> QED BY <2>1, <2>2, ReportMade, ReportOwed
<1>2. CASE Hid!Resend
  <2>1. phys' \in HeldSets /\ UNCHANGED <<line, phys, got, dec, keys>>
    BY <1>2 DEF Hid!Resend, HidIInv, HidTypeOK
  <2>2. /\ owed' \in BOOLEAN
        /\ \/ pipe = <<>> /\ pipe' = Hid!Packets(phys')
           \/ Unsent' /\ UNCHANGED pipe
    BY <1>2, <2>1 DEF Hid!Resend, Hid!Submit, Unsent, Hid!NotSent
  <2> QED BY <2>1, <2>2, ReportMade, ReportOwed
<1>3. CASE Hid!Repeat
  <2>1. /\ phys' \in HeldSets /\ owed' \in BOOLEAN /\ pipe = <<>> /\ pipe' = Hid!Packets(phys')
        /\ UNCHANGED <<line, got, dec, keys>>
    BY <1>3 DEF Hid!Repeat, HidIInv, HidTypeOK
  <2> QED BY <2>1, ReportMade
<1> QED BY <1>1, <1>2, <1>3, MouseMoves, PacketTaken, EndsRead DEF Hid!Next

\* So does a step of another component.
LEMMA HidKept ==
  ASSUME HidIInv, UNCHANGED <<line, phys, pipe, owed, lamp, got, dec, events, keys, leds, took>>
  PROVE  HidIInv'
<1>1. /\ HidTypeOK' /\ keys' = Down(dec')
      /\ ReadsAligned(pipe', got') /\ ReportUpToDate(pipe', got', Unsent', phys', dec')
  BY UnsentKept DEF HidIInv, HidTypeOK
<1> QED BY <1>1, HidPrimed

\* When nothing is under way, the decoder has what the last report said.
LEMMA HidHolds == ASSUME Hid!KeysAssumption, HidIInv PROVE Hid!KeysTrue
<1>1. SUFFICES ASSUME pipe = <<>>, got = <<>>, ~Unsent, ~line.late, ~Hid!Rollover(phys)
               PROVE  keys = phys.mod \cup phys.keys
  BY DEF Hid!KeysTrue, Unsent
<1>2. ~IsReport(<<>>) /\ ~Halves(<<>>, <<>>)
  <2>1. [mod |-> {}, keys |-> {}, roll |-> TRUE] \in Reported
    BY DEF Reported
  <2> QED BY <2>1, PacketShapes DEF Halves
<1>3. dec.mod = phys.mod /\ dec.held = phys.keys
  BY <1>1, <1>2 DEF HidIInv, ReportUpToDate
<1> QED BY <1>3 DEF HidIInv, Down

\* What the end of a read reports.
LEMMA HidReports ==
  ASSUME Hid!KeysAssumption, HidIInv, Hid!Next, got # <<>>, got' = <<>>, NEW i \in DOMAIN events'
  PROVE  /\ events'[i].up <=> (events'[i].u \in Hid!Seen(keys, SubSeq(events', 1, i - 1)))
         /\ (events'[i].up /\ ~line.late) => events'[i].u \notin got[1].rep.mod \cup got[1].rep.keys
<1>1. Hid!Deliver
  <2>1. ASSUME Hid!Take PROVE FALSE
    <3>1. got \in Seq(HidPacket) /\ got' = Append(got, Head(pipe))
      BY <2>1 DEF Hid!Take, HidIInv, HidTypeOK
    <3> QED BY <3>1
  <2> QED BY <2>1 DEF Hid!Next, Hid!Change, Hid!Resend, Hid!Repeat, Hid!MoveMouse
<1>2. dec \in Decoder /\ got \in Seq(HidPacket) /\ keys = Down(dec)
  BY DEF HidIInv, HidTypeOK
<1>3. /\ TellsChange(events', Down(dec) \ Down(dec'), Down(dec') \ Down(dec))
      /\ events'[i].up <=> (events'[i].u \in Hid!Seen(keys, SubSeq(events', 1, i - 1)))
      /\ Hid!Report = [roll |-> TRUE] => events' = <<>>
      /\ Hid!Report \in Reported => IF Hid!Report.roll THEN events' = <<>>
                           ELSE dec' = [held |-> Hid!Report.keys, mod |-> Hid!Report.mod]
  BY <1>1, <1>2, ReadEnds
<1>4. ASSUME events'[i].up, ~line.late PROVE events'[i].u \notin got[1].rep.mod \cup got[1].rep.keys
  <2>1. events' # <<>>
    OBVIOUS
  <2>2. Hid!Report \in Reported /\ got[1].rep = Hid!Report /\ ~Hid!Report.roll
    BY <1>1, <1>3, <1>4, <2>1, EndsWhole
  <2>3. dec' = [held |-> Hid!Report.keys, mod |-> Hid!Report.mod]
    BY <1>3, <2>2
  <2>4. Down(dec') = got[1].rep.mod \cup got[1].rep.keys
    BY <2>2, <2>3 DEF Down
  <2>5. events'[i].u \notin Down(dec')
    BY <1>3, <1>4 DEF TellsChange
  <2> QED BY <2>4, <2>5
<1> QED BY <1>3, <1>4

\* HidLink: once every report has been read, the keys the program takes to be down are
\* those that are held, whatever was repeated, dropped, refused or of too many keys.
THEOREM KeysAreTrue == ClassesSpec => []KeysTrue
<1>1. ClassesInit => HidIInv
  BY HidInit, ConstantsAssumption DEF ClassesInit
<1>2. HidIInv /\ [ClassesNext]_allVars => HidIInv'
  <2>1. HidIInv /\ UNCHANGED hidVars => HidIInv'
    BY HidKept DEF hidVars
  <2> QED BY <2>1, OneComponent, HidNext, ConstantsAssumption
<1>3. HidIInv => KeysTrue
  BY HidHolds, ConstantsAssumption DEF KeysTrue
<1> QED BY <1>1, <1>2, <1>3, PTL DEF ClassesSpec

\* HidLink: presses and releases alternate for each key, and where packets come in time
\* no key is reported up by a report in which it is held.
THEOREM EventsAreTrue == ClassesSpec => EventsTrue
<1>1. ClassesInit => HidIInv
  BY HidInit, ConstantsAssumption DEF ClassesInit
<1>2. HidIInv /\ [ClassesNext]_allVars => HidIInv'
  <2>1. HidIInv /\ UNCHANGED hidVars => HidIInv'
    BY HidKept DEF hidVars
  <2> QED BY <2>1, OneComponent, HidNext, ConstantsAssumption
<1>3. HidIInv /\ [ClassesNext]_allVars =>
        [(got # <<>> /\ got' = <<>>) =>
           \A i \in DOMAIN events' :
             /\ events'[i].up <=> (events'[i].u \in Hid!Seen(keys, SubSeq(events', 1, i - 1)))
             /\ (events'[i].up /\ ~line.late) =>
                  events'[i].u \notin got[1].rep.mod \cup got[1].rep.keys]_(Hid!vars)
  <2>1. UNCHANGED hidVars => UNCHANGED Hid!vars
    BY DEF hidVars, Hid!vars
  <2> QED BY <2>1, OneComponent, HidReports, ConstantsAssumption
<1> QED BY <1>1, <1>2, <1>3, PTL DEF ClassesSpec, EventsTrue, Hid!EventsTrue

-----------------------------------------------------------------------------
(* SerialPort.                                                             *)

\* Places, each with a sequence of bytes.
Shelves(A, N) == N \in Nat /\ DOMAIN A = 1 .. N /\ \A p \in 1 .. N : A[p] \in Seq(Nat)

\* What every place of A holds, one of B holds.
LEMMA BytesOf ==
  ASSUME NEW A, NEW B,
         \A p \in DOMAIN A : \A i \in DOMAIN A[p] :
           \E q \in DOMAIN B : \E j \in DOMAIN B[q] : B[q][j] = A[p][i]
  PROVE  Serial!Held(A) \subseteq Serial!Held(B)
<1>1. SUFFICES ASSUME NEW b \in Serial!Held(A) PROVE b \in Serial!Held(B)
  OBVIOUS
<1>2. PICK p \in DOMAIN A : \E i \in DOMAIN A[p] : b = A[p][i]
  BY DEF Serial!Held
<1>3. PICK q \in DOMAIN B : \E j \in DOMAIN B[q] : B[q][j] = b
  BY <1>2
<1>4. q \in DOMAIN B /\ b \in {B[q][j] : j \in DOMAIN B[q]}
  BY <1>3
<1> QED BY <1>4 DEF Serial!Held

\* The first k bytes of a place are moved to the end of the one before it.
Shifts(A, B, N, o, n, k) ==
  /\ o \in 1 .. N /\ n \in 1 .. N /\ n = o + 1 /\ k \in 0 .. Len(A[n])
  /\ \A p \in 1 .. N : p # o /\ p # n => B[p] = A[p]
  /\ Len(B[o]) = Len(A[o]) + k /\ Len(B[n]) = Len(A[n]) - k
  /\ \A i \in 1 .. Len(A[o]) : B[o][i] = A[o][i]
  /\ \A i \in 1 .. k : B[o][Len(A[o]) + i] = A[n][i]
  /\ \A i \in 1 .. Len(B[n]) : B[n][i] = A[n][k + i]

\* Bytes so moved are in the order they were in.
LEMMA BytesShift ==
  ASSUME NEW N, NEW A, NEW B, Shelves(A, N), Serial!Rising(A), Shelves(B, N),
         NEW o, NEW n, NEW k, Shifts(A, B, N, o, n, k)
  PROVE  Serial!Rising(B) /\ Serial!Held(B) = Serial!Held(A)
<1>0. /\ o \in 1 .. N /\ n \in 1 .. N /\ n = o + 1 /\ k \in 0 .. Len(A[n])
      /\ \A p \in 1 .. N : p # o /\ p # n => B[p] = A[p]
      /\ Len(B[o]) = Len(A[o]) + k /\ Len(B[n]) = Len(A[n]) - k
      /\ \A i \in 1 .. Len(A[o]) : B[o][i] = A[o][i]
      /\ \A i \in 1 .. k : B[o][Len(A[o]) + i] = A[n][i]
      /\ \A i \in 1 .. Len(B[n]) : B[n][i] = A[n][k + i]
  BY DEF Shifts
<1> DEFINE P(p, i) == IF p = o /\ i > Len(A[o]) THEN n ELSE p
           I(p, i) == IF p = o /\ i > Len(A[o]) THEN i - Len(A[o])
                      ELSE IF p = n THEN k + i ELSE i
<1>1. o \in Nat /\ N \in Nat /\ \A p \in 1 .. N : Len(A[p]) \in Nat /\ Len(B[p]) \in Nat
              /\ DOMAIN A[p] = 1 .. Len(A[p]) /\ DOMAIN B[p] = 1 .. Len(B[p])
  BY <1>0 DEF Shelves
<1>2. ASSUME NEW p \in 1 .. N, NEW i \in 1 .. Len(B[p])
      PROVE  /\ P(p, i) \in 1 .. N /\ I(p, i) \in 1 .. Len(A[P(p, i)])
             /\ B[p][i] = A[P(p, i)][I(p, i)]
  <2>1. CASE p = o /\ i > Len(A[o])
    <3>1. i - Len(A[o]) \in 1 .. k /\ i = Len(A[o]) + (i - Len(A[o]))
      <4>1. Len(A[o]) \in Nat /\ i \in 1 .. Len(A[o]) + k /\ k \in Int
        BY <1>0, <1>1, <2>1
      <4> QED BY <2>1, <4>1
    <3>2. B[o][i] = A[n][i - Len(A[o])]
      BY <1>0, <3>1
    <3>3. P(p, i) = n /\ I(p, i) = i - Len(A[o])
      BY <1>0, <2>1
    <3> HIDE DEF P, I
    <3> QED BY <1>0, <1>1, <2>1, <3>1, <3>2, <3>3
  <2>2. CASE p = o /\ ~(i > Len(A[o]))
    <3>1. P(p, i) = o /\ I(p, i) = i /\ i \in 1 .. Len(A[o])
      BY <1>0, <1>1, <2>2
    <3>2. B[o][i] = A[o][i]
      BY <1>0, <3>1
    <3> HIDE DEF P, I
    <3> QED BY <1>0, <2>2, <3>1, <3>2
  <2>3. CASE p = n
    <3>1. p # o /\ i \in 1 .. Len(B[n]) /\ k + i \in 1 .. Len(A[n])
      BY <1>0, <1>1, <2>3
    <3>2. P(p, i) = n /\ I(p, i) = k + i
      BY <1>0, <2>3, <3>1
    <3>3. B[n][i] = A[n][k + i]
      BY <1>0, <3>1
    <3> HIDE DEF P, I
    <3> QED BY <1>0, <2>3, <3>1, <3>2, <3>3
  <2>4. CASE p # o /\ p # n
    BY <1>0, <1>1, <2>4
  <2> QED BY <1>0, <2>1, <2>2, <2>3, <2>4
<1>3. ASSUME NEW p \in 1 .. N, NEW q \in 1 .. N, NEW i \in 1 .. Len(B[p]),
             NEW j \in 1 .. Len(B[q]), p < q \/ (p = q /\ i < j)
      PROVE  P(p, i) < P(q, j) \/ (P(p, i) = P(q, j) /\ I(p, i) < I(q, j))
  <2>1. /\ Len(A[o]) \in Nat /\ n = o + 1 /\ k \in Nat /\ o \in Nat
        /\ i \in Nat /\ j \in Nat /\ p \in Nat /\ q \in Nat
        /\ (p = o => i <= Len(A[o]) + k) /\ (q = o => j <= Len(A[o]) + k)
        /\ i > 0 /\ j > 0
    <3>1. Len(A[o]) \in Nat /\ Len(A[n]) \in Nat /\ Len(B[p]) \in Nat /\ Len(B[q]) \in Nat
      BY <1>0, <1>1
    <3>2. n = o + 1 /\ k \in Nat /\ o \in Nat /\ Len(B[o]) = Len(A[o]) + k
      BY <1>0, <3>1
    <3>3. p \in Nat /\ q \in Nat
      BY <1>1
    <3>4. i \in Nat /\ j \in Nat /\ i > 0 /\ j > 0 /\ i <= Len(B[p]) /\ j <= Len(B[q])
      BY <3>1
    <3> QED BY <3>1, <3>2, <3>3, <3>4
  <2>2. CASE p < q
    <3>1. CASE p = o /\ i > Len(A[o])
      BY <2>1, <2>2, <3>1
    <3>2. CASE ~(p = o /\ i > Len(A[o]))
      BY <2>1, <2>2, <3>2
    <3> QED BY <3>1, <3>2
  <2>3. CASE p = q /\ i < j
    BY <2>1, <2>3
  <2> QED BY <1>3, <2>2, <2>3
<1>4. Serial!Rising(B)
  <2> HIDE DEF P, I
  <2>1. DOMAIN A = 1 .. N /\ DOMAIN B = 1 .. N
    BY DEF Shelves
  <2>2. \A p, q \in 1 .. N : \A i \in 1 .. Len(A[p]), j \in 1 .. Len(A[q]) :
          p < q \/ (p = q /\ i < j) => A[p][i] < A[q][j]
    BY <1>1, <2>1 DEF Serial!Rising
  <2>3. ASSUME NEW p \in 1 .. N, NEW q \in 1 .. N, NEW i \in 1 .. Len(B[p]),
               NEW j \in 1 .. Len(B[q]), p < q \/ (p = q /\ i < j)
        PROVE  B[p][i] < B[q][j]
    BY <1>2, <1>3, <2>2, <2>3
  <2> QED BY <1>1, <2>1, <2>3 DEF Serial!Rising
<1>5. ASSUME NEW q \in 1 .. N, NEW j \in 1 .. Len(A[q])
      PROVE  \E p \in 1 .. N : \E i \in 1 .. Len(B[p]) : B[p][i] = A[q][j]
  <2>1. CASE q = n /\ j > k
    <3>1. j - k \in 1 .. Len(B[n]) /\ j = k + (j - k)
      BY <1>0, <1>1, <2>1
    <3>2. B[n][j - k] = A[n][j]
      BY <1>0, <3>1
    <3> QED BY <1>0, <2>1, <3>1, <3>2
  <2>2. CASE q = n /\ ~(j > k)
    <3>1. Len(A[o]) + j \in 1 .. Len(B[o]) /\ B[o][Len(A[o]) + j] = A[n][j]
      BY <1>0, <1>1, <2>2
    <3> QED BY <1>0, <2>2, <3>1
  <2>3. CASE q = o
    <3>1. j \in 1 .. Len(B[o]) /\ B[o][j] = A[o][j]
      BY <1>0, <1>1, <2>3
    <3> QED BY <1>0, <2>3, <3>1
  <2>4. CASE q # o /\ q # n
    BY <1>0, <1>1, <2>4
  <2> QED BY <1>0, <2>1, <2>2, <2>3, <2>4
<1>6. Serial!Held(B) = Serial!Held(A)
  <2> HIDE DEF P, I
  <2>5. DOMAIN A = 1 .. N /\ DOMAIN B = 1 .. N
    BY DEF Shelves
  <2>1. \A p \in DOMAIN B : \A i \in DOMAIN B[p] :
          \E q \in DOMAIN A : \E j \in DOMAIN A[q] : A[q][j] = B[p][i]
    <3>1. ASSUME NEW p \in 1 .. N, NEW i \in 1 .. Len(B[p])
          PROVE  \E q \in DOMAIN A : \E j \in DOMAIN A[q] : A[q][j] = B[p][i]
      <4>1. P(p, i) \in DOMAIN A /\ I(p, i) \in DOMAIN A[P(p, i)] /\ A[P(p, i)][I(p, i)] = B[p][i]
        BY <1>1, <1>2, <2>5
      <4> QED BY <4>1
    <3> QED BY <1>1, <2>5, <3>1
  <2>2. \A q \in DOMAIN A : \A j \in DOMAIN A[q] :
          \E p \in DOMAIN B : \E i \in DOMAIN B[p] : B[p][i] = A[q][j]
    <3>1. \A q \in 1 .. N : \A j \in 1 .. Len(A[q]) :
            \E p \in 1 .. N : \E i \in 1 .. Len(B[p]) : B[p][i] = A[q][j]
      BY <1>5
    <3>2. ASSUME NEW q \in 1 .. N, NEW j \in 1 .. Len(A[q])
          PROVE  \E p \in DOMAIN B : \E i \in DOMAIN B[p] : B[p][i] = A[q][j]
      <4>1. PICK p \in 1 .. N : \E i \in 1 .. Len(B[p]) : B[p][i] = A[q][j]
        BY <3>1
      <4> QED BY <1>1, <2>5, <4>1
    <3> QED BY <1>1, <2>5, <3>2
  <2>3. Serial!Held(B) \subseteq Serial!Held(A)
    BY <2>1, BytesOf
  <2>4. Serial!Held(A) \subseteq Serial!Held(B)
    BY <2>2, BytesOf
  <2> QED BY <2>3, <2>4
<1> QED BY <1>4, <1>6

\* A place that holds nothing is taken out.
Closes(A, B, N, o) ==
  /\ o \in 1 .. N + 1 /\ A[o] = <<>>
  /\ \A p \in 1 .. N : B[p] = IF p < o THEN A[p] ELSE A[p + 1]

\* The bytes of the others are in the order they were in.
LEMMA BytesClose ==
  ASSUME NEW N \in Nat, NEW A, NEW B, Shelves(A, N + 1), Serial!Rising(A), Shelves(B, N),
         NEW o, Closes(A, B, N, o)
  PROVE  Serial!Rising(B) /\ Serial!Held(B) = Serial!Held(A)
<1>0. /\ o \in 1 .. N + 1 /\ A[o] = <<>>
      /\ \A p \in 1 .. N : B[p] = IF p < o THEN A[p] ELSE A[p + 1]
  BY DEF Closes
<1>1. DOMAIN A = 1 .. N + 1 /\ DOMAIN B = 1 .. N
  BY DEF Shelves
<1>2. \A p \in 1 .. N : /\ B[p] = A[IF p < o THEN p ELSE p + 1]
                        /\ (IF p < o THEN p ELSE p + 1) \in 1 .. N + 1
  BY <1>0
<1>3. Serial!Rising(B)
  <2> DEFINE P(p) == IF p < o THEN p ELSE p + 1
  <2>1. ASSUME NEW p \in 1 .. N, NEW q \in 1 .. N, p < q \/ p = q
        PROVE  (p < q => P(p) < P(q)) /\ (p = q => P(p) = P(q))
    BY <1>0, <2>1
  <2>2. \A p \in 1 .. N : B[p] = A[P(p)] /\ P(p) \in 1 .. N + 1
    BY <1>2
  <2> HIDE DEF P
  <2> QED BY <1>1, <2>1, <2>2 DEF Serial!Rising
<1>4. \A p \in 1 .. N + 1 : p # o => \E q \in 1 .. N : B[q] = A[p]
  <2>1. SUFFICES ASSUME NEW p \in 1 .. N + 1, p # o PROVE \E q \in 1 .. N : B[q] = A[p]
    OBVIOUS
  <2>2. CASE p < o
    BY <1>0, <2>2
  <2>3. CASE p > o
    <3>1. p - 1 \in 1 .. N /\ ~(p - 1 < o) /\ B[p - 1] = A[p]
      BY <1>0, <2>3
    <3> QED BY <3>1
  <2> QED BY <1>0, <2>1, <2>2, <2>3
<1>5. Serial!Held(B) = Serial!Held(A)
  <2>1. DOMAIN A[o] = {}
    BY <1>0
  <2>5. \A q \in DOMAIN B : \A j \in DOMAIN B[q] :
          \E p \in DOMAIN A : \E i \in DOMAIN A[p] : A[p][i] = B[q][j]
    BY <1>1, <1>2
  <2>2. Serial!Held(B) \subseteq Serial!Held(A)
    BY <2>5, BytesOf
  <2>3. \A p \in DOMAIN A : \A i \in DOMAIN A[p] :
          \E q \in DOMAIN B : \E j \in DOMAIN B[q] : B[q][j] = A[p][i]
    <3>1. ASSUME NEW p \in 1 .. N + 1, NEW i \in DOMAIN A[p]
          PROVE  \E q \in 1 .. N : \E j \in DOMAIN B[q] : B[q][j] = A[p][i]
      <4>1. p # o
        BY <2>1
      <4>2. PICK q \in 1 .. N : B[q] = A[p]
        BY <1>4, <4>1
      <4> QED BY <4>2
    <3> QED BY <1>1, <3>1
  <2>4. Serial!Held(A) \subseteq Serial!Held(B)
    BY <2>3, BytesOf
  <2> QED BY <2>2, <2>4
<1> QED BY <1>3, <1>5

\* The types of the driver's state, of what is on the wire, and of what is where.
Reads == [what : {"read", "any"}, want : Nat, into : Seq(Nat), first : BOOLEAN]
SerialTypeOK ==
  /\ wire \in Seq(Seq(Nat)) /\ typed \in Nat /\ pending \in Seq(Nat) /\ given \in Seq(Nat)
  /\ rd \in Reads \cup {Serial!Idle} /\ torn \subseteq 1 .. typed
SerialIInv == SerialTypeOK /\ Serial!BytesOnce

\* Every place holds a sequence of bytes.
LEMMA PlacesTyped ==
  ASSUME SerialTypeOK
  PROVE  /\ Serial!Taken \in Seq(Nat) /\ Shelves(Serial!Places, Len(wire) + 3)
         /\ Serial!Places[1] = given /\ Serial!Places[2] = Serial!Taken /\ Serial!Places[3] = pending
         /\ \A k \in 1 .. Len(wire) : Serial!Places[k + 3] = wire[k]
         /\ \A p \in 1 .. Len(wire) + 3 : p > 3 => Serial!Places[p] = wire[p - 3]
<1>1. Serial!Taken \in Seq(Nat)
  BY DEF SerialTypeOK, Serial!Taken, Reads
<1>2. Len(wire) \in Nat /\ \A k \in 1 .. Len(wire) : wire[k] \in Seq(Nat)
  BY DEF SerialTypeOK
<1>3. ASSUME NEW p \in 1 .. Len(wire) + 3, p > 3
      PROVE  wire[p - 3] \in Seq(Nat) /\ Serial!Places[p] = wire[p - 3]
  BY <1>2, <1>3 DEF Serial!Places
<1>4. ASSUME NEW p \in 1 .. Len(wire) + 3, ~(p > 3) PROVE Serial!Places[p] \in Seq(Nat)
  BY <1>1, <1>2, <1>4 DEF Serial!Places, SerialTypeOK
<1>5. Shelves(Serial!Places, Len(wire) + 3)
  BY <1>2, <1>3, <1>4 DEF Shelves, Serial!Places
<1>6. \A k \in 1 .. Len(wire) : Serial!Places[k + 3] = wire[k]
  BY <1>2 DEF Serial!Places
<1> QED BY <1>1, <1>2, <1>3, <1>5, <1>6 DEF Serial!Places

\* Nothing is anywhere at first.
LEMMA SerialInit == ASSUME Serial!Init PROVE SerialIInv
<1>1. SerialTypeOK
  <2>1. wire = <<>> /\ pending = <<>> /\ given = <<>>
    BY DEF Serial!Init
  <2> QED BY <2>1 DEF Serial!Init, SerialTypeOK
<1>2. DOMAIN Serial!Places = 1 .. 3 /\ \A p \in 1 .. 3 : Serial!Places[p] = <<>>
  BY DEF Serial!Init, Serial!Places, Serial!Taken
<1>3. Serial!Rising(Serial!Places) /\ Serial!Held(Serial!Places) = {}
  BY <1>2 DEF Serial!Held, Serial!Rising
<1>4. (1 .. typed) \ torn = {}
  BY DEF Serial!Init
<1> QED BY <1>1, <1>3, <1>4 DEF SerialIInv, Serial!BytesOnce

\* A packet's bytes are the next of the count.
LEMMA SerialSends == ASSUME SerialIInv, NEW n \in Nat, Serial!Send(n) PROVE SerialIInv'
<1> DEFINE packet == [i \in 1 .. n |-> typed + i]  N == Len(wire) + 3
<1>1. /\ wire' = Append(wire, packet) /\ typed' = typed + n
      /\ UNCHANGED <<pending, rd, given, torn>>
  BY DEF Serial!Send
<1>2. typed \in Nat /\ packet \in Seq(Nat) /\ DOMAIN packet = 1 .. n
      /\ \A i \in 1 .. n : packet[i] = typed + i
  BY DEF SerialIInv, SerialTypeOK
<1> HIDE DEF packet
<1>3. /\ wire' \in Seq(Seq(Nat)) /\ Len(wire') = Len(wire) + 1 /\ wire'[Len(wire) + 1] = packet
      /\ Len(wire) \in Nat /\ \A k \in 1 .. Len(wire) : wire'[k] = wire[k]
  BY <1>1, <1>2 DEF SerialIInv, SerialTypeOK
<1>4. SerialTypeOK'
  BY <1>1, <1>2, <1>3 DEF SerialIInv, SerialTypeOK
<1>5. /\ DOMAIN Serial!Places = 1 .. N /\ DOMAIN Serial!Places' = 1 .. N + 1
      /\ \A p \in 1 .. N : Serial!Places'[p] = Serial!Places[p]
      /\ Serial!Places'[N + 1] = packet
  BY <1>1, <1>3 DEF Serial!Places, Serial!Taken
<1>6. \A p \in 1 .. N : \A i \in DOMAIN Serial!Places[p] : Serial!Places[p][i] \in 1 .. typed
  BY <1>5 DEF SerialIInv, Serial!BytesOnce, Serial!Held
<1> DEFINE Was == Serial!Places  Now == Serial!Places'
<1>7. Serial!Held(Now) = Serial!Held(Was) \cup {packet[i] : i \in DOMAIN packet}
  <2>1. 1 .. N + 1 = (1 .. N) \cup {N + 1}
    BY <1>3
  <2> HIDE DEF N
  <2> QED BY <1>5, <2>1 DEF Serial!Held
<1>8. {packet[i] : i \in DOMAIN packet} = (1 .. typed + n) \ (1 .. typed)
  <2>1. ASSUME NEW b \in (1 .. typed + n) \ (1 .. typed)
        PROVE  b - typed \in 1 .. n /\ b = typed + (b - typed)
    BY <1>2
  <2>2. ASSUME NEW b \in (1 .. typed + n) \ (1 .. typed) PROVE b \in {packet[i] : i \in DOMAIN packet}
    <3>1. b - typed \in DOMAIN packet /\ packet[b - typed] = b
      BY <1>2, <2>1
    <3> QED BY <3>1
  <2>3. ASSUME NEW i \in DOMAIN packet PROVE packet[i] \in (1 .. typed + n) \ (1 .. typed)
    BY <1>2
  <2> QED BY <2>2, <2>3
<1>9. Serial!Held(Now) = (1 .. typed') \ torn'
  BY <1>1, <1>2, <1>7, <1>8 DEF SerialIInv, SerialTypeOK, Serial!BytesOnce
<1>10. ASSUME NEW p \in 1 .. N + 1, NEW q \in 1 .. N + 1, NEW i \in DOMAIN Now[p],
              NEW j \in DOMAIN Now[q], p < q \/ (p = q /\ i < j)
       PROVE  Now[p][i] < Now[q][j]
  <2>1. CASE p \in 1 .. N /\ q \in 1 .. N
    BY <1>5, <1>10, <2>1 DEF SerialIInv, Serial!BytesOnce, Serial!Rising
  <2>2. CASE p \in 1 .. N /\ q = N + 1
    BY <1>2, <1>5, <1>6, <1>10, <2>2
  <2>3. CASE p = N + 1
    BY <1>2, <1>3, <1>5, <1>10, <2>3
  <2> QED BY <1>3, <2>1, <2>2, <2>3
<1>11. Serial!Rising(Now)
  BY <1>5, <1>10 DEF Serial!Rising
<1> QED BY <1>4, <1>9, <1>11 DEF SerialIInv, Serial!BytesOnce

\* Two sequences, one after the other.
LEMMA JoinOf ==
  ASSUME NEW S, NEW s \in Seq(S), NEW t \in Seq(S)
  PROVE  /\ s \o t \in Seq(S) /\ Len(s \o t) = Len(s) + Len(t)
         /\ \A i \in 1 .. Len(s) : (s \o t)[i] = s[i]
         /\ \A i \in 1 .. Len(t) : (s \o t)[Len(s) + i] = t[i]
  OBVIOUS

\* The two parts a sequence is cut into.
LEMMA CutOf ==
  ASSUME NEW S, NEW s \in Seq(S), NEW k \in 0 .. Len(s)
  PROVE  /\ SubSeq(s, 1, k) \in Seq(S) /\ Len(SubSeq(s, 1, k)) = k
         /\ \A i \in 1 .. k : SubSeq(s, 1, k)[i] = s[i]
         /\ SubSeq(s, k + 1, Len(s)) \in Seq(S) /\ Len(SubSeq(s, k + 1, Len(s))) = Len(s) - k
         /\ \A i \in 1 .. Len(s) - k : SubSeq(s, k + 1, Len(s))[i] = s[k + i]
  OBVIOUS

\* What a call returns is given after what was.
LEMMA GivesAll ==
  ASSUME NEW N \in Nat, NEW A, NEW B, N > 2, Shelves(A, N), Serial!Rising(A), DOMAIN B = 1 .. N,
         B[1] = A[1] \o A[2], B[2] = <<>>, \A p \in 3 .. N : B[p] = A[p]
  PROVE  Serial!Rising(B) /\ Serial!Held(B) = Serial!Held(A)
<1>1. A[1] \in Seq(Nat) /\ A[2] \in Seq(Nat) /\ B[2] \in Seq(Nat)
  BY DEF Shelves
<1>2. /\ B[1] \in Seq(Nat) /\ Len(B[1]) = Len(A[1]) + Len(A[2]) /\ Len(B[2]) = 0
      /\ \A i \in 1 .. Len(A[1]) : B[1][i] = A[1][i]
      /\ \A i \in 1 .. Len(A[2]) : B[1][Len(A[1]) + i] = A[2][i]
  <2>1. Len(B[2]) = 0
    OBVIOUS
  <2>2. \A a, b \in Seq(Nat) :
          /\ a \o b \in Seq(Nat) /\ Len(a \o b) = Len(a) + Len(b)
          /\ \A i \in 1 .. Len(a) : (a \o b)[i] = a[i]
          /\ \A i \in 1 .. Len(b) : (a \o b)[Len(a) + i] = b[i]
    BY JoinOf
  <2> DEFINE a == A[1]  b == A[2]  c == B[1]
  <2>3. a \in Seq(Nat) /\ b \in Seq(Nat) /\ c = a \o b
    BY <1>1
  <2> HIDE DEF a, b, c
  <2>4. /\ c \in Seq(Nat) /\ Len(c) = Len(a) + Len(b)
        /\ \A i \in 1 .. Len(a) : c[i] = a[i]
        /\ \A i \in 1 .. Len(b) : c[Len(a) + i] = b[i]
    BY <2>2, <2>3
  <2> QED BY <2>1, <2>4 DEF a, b, c
<1>3. Shelves(B, N)
  <2>1. ASSUME NEW p \in 1 .. N PROVE B[p] \in Seq(Nat)
    <3>1. p = 1 \/ p = 2 \/ p \in 3 .. N
      OBVIOUS
    <3>2. A[p] \in Seq(Nat)
      BY DEF Shelves
    <3> QED BY <1>1, <1>2, <3>1, <3>2
  <2> QED BY <2>1 DEF Shelves
<1>4. Shifts(A, B, N, 1, 2, Len(A[2]))
  <2>1. Len(A[1]) \in Nat /\ Len(A[2]) \in Nat /\ 2 = 1 + 1
    BY <1>1
  <2>2. \A p \in 1 .. N : p # 1 /\ p # 2 => B[p] = A[p]
    OBVIOUS
  <2>3. Len(B[2]) = Len(A[2]) - Len(A[2]) /\ 1 \in 1 .. N /\ 2 \in 1 .. N
    BY <1>2, <2>1
  <2>4. \A i \in 1 .. Len(B[2]) : B[2][i] = A[2][Len(A[2]) + i]
    BY <1>2
  <2>5. /\ Len(B[1]) = Len(A[1]) + Len(A[2]) /\ \A i \in 1 .. Len(A[1]) : B[1][i] = A[1][i]
        /\ \A i \in 1 .. Len(A[2]) : B[1][Len(A[1]) + i] = A[2][i]
    BY <1>2
  <2> DEFINE k == Len(A[2])
  <2>6. k \in 0 .. Len(A[2]) /\ k = Len(A[2])
    BY <2>1
  <2> HIDE DEF k
  <2>7. Shifts(A, B, N, 1, 2, k)
    BY ONLY <2>1, <2>2, <2>3, <2>4, <2>5, <2>6 DEF Shifts
  <2> QED BY <2>6, <2>7
<1> QED BY <1>3, <1>4, BytesShift

\* A call returns what it has.
LEMMA SerialReturns ==
  ASSUME SerialIInv, rd # Serial!Idle, Serial!Return(rd.into), UNCHANGED <<wire, typed, pending, torn>>
  PROVE  SerialIInv'
<1> DEFINE N == Len(wire) + 3  Was == Serial!Places  Now == Serial!Places'
<1>1. /\ N \in Nat /\ N > 2 /\ Shelves(Was, N) /\ Serial!Taken \in Seq(Nat) /\ given \in Seq(Nat)
      /\ Was[1] = given /\ Was[2] = Serial!Taken
  BY PlacesTyped DEF SerialIInv, SerialTypeOK
<1>2. /\ Serial!Taken = rd.into /\ given' = given \o Serial!Taken
      /\ rd' = Serial!Idle /\ Serial!Taken' = <<>>
  BY DEF Serial!Return, Serial!Taken
<1>3. SerialTypeOK'
  BY <1>1, <1>2 DEF SerialIInv, SerialTypeOK
<1>4. /\ DOMAIN Now = 1 .. N /\ Now[1] = Was[1] \o Was[2] /\ Now[2] = <<>>
      /\ \A p \in 3 .. N : Now[p] = Was[p]
  <2>1. Now = [p \in 1 .. N |-> IF p = 1 THEN given' ELSE IF p = 2 THEN Serial!Taken'
                               ELSE IF p = 3 THEN pending ELSE wire[p - 3]]
    BY DEF Serial!Places
  <2>2. Was = [p \in 1 .. N |-> IF p = 1 THEN given ELSE IF p = 2 THEN Serial!Taken
                               ELSE IF p = 3 THEN pending ELSE wire[p - 3]]
    BY DEF Serial!Places
  <2> HIDE DEF Was, Now, N
  <2> QED BY <1>1, <1>2, <2>1, <2>2
<1> HIDE DEF Was, Now, N
<1>5. Serial!Rising(Was) => Serial!Rising(Now) /\ Serial!Held(Now) = Serial!Held(Was)
  BY <1>1, <1>4, GivesAll
<1> QED BY <1>3, <1>5 DEF SerialIInv, Serial!BytesOnce, Was, Now

\* A copy moves to the call what is wanted of what is pending.
LEMMA SerialCopies == ASSUME SerialIInv, Serial!Copy PROVE SerialIInv'
<1> DEFINE N == Len(wire) + 3  Was == Serial!Places  Now == Serial!Places'
           wanted == rd.want - Len(rd.into)
           take == IF wanted < Len(pending) THEN wanted ELSE Len(pending)
           copied == SubSeq(pending, 1, take)  rest == SubSeq(pending, take + 1, Len(pending))
           call == [rd EXCEPT !.into = @ \o copied, !.first = FALSE]
<1>1. /\ rd \in Reads /\ rd # Serial!Idle /\ Len(rd.into) < rd.want /\ pending # <<>>
      /\ rd' = call /\ pending' = rest /\ UNCHANGED <<wire, typed, given, torn>>
  BY DEF Serial!Copy, Serial!Wants, SerialIInv, SerialTypeOK
<1>2. /\ N \in Nat /\ N > 2 /\ Shelves(Was, N) /\ pending \in Seq(Nat) /\ rd.into \in Seq(Nat)
      /\ take \in 0 .. Len(pending) /\ Len(pending) \in Nat /\ rd.want \in Nat
  <2>1. N \in Nat /\ N > 2 /\ Shelves(Was, N) /\ pending \in Seq(Nat)
    BY PlacesTyped DEF SerialIInv, SerialTypeOK
  <2>2. rd.into \in Seq(Nat) /\ Len(rd.into) \in Nat /\ rd.want \in Nat
    BY <1>1 DEF Reads
  <2>3. Len(pending) \in Nat
    BY <2>1
  <2>4. take \in 0 .. Len(pending)
    BY <1>1, <2>2, <2>3
  <2> QED BY <2>1, <2>2, <2>3, <2>4
<1>3. /\ copied \in Seq(Nat) /\ Len(copied) = take /\ rest \in Seq(Nat)
      /\ Len(rest) = Len(pending) - take
      /\ \A i \in 1 .. take : copied[i] = pending[i]
      /\ \A i \in 1 .. Len(rest) : rest[i] = pending[take + i]
  <2>1. \A s \in Seq(Nat) : \A k \in 0 .. Len(s) :
          /\ SubSeq(s, 1, k) \in Seq(Nat) /\ Len(SubSeq(s, 1, k)) = k
          /\ \A i \in 1 .. k : SubSeq(s, 1, k)[i] = s[i]
    BY CutOf
  <2>2. \A s \in Seq(Nat) : \A k \in 0 .. Len(s) :
          /\ SubSeq(s, k + 1, Len(s)) \in Seq(Nat) /\ Len(SubSeq(s, k + 1, Len(s))) = Len(s) - k
          /\ \A i \in 1 .. Len(s) - k : SubSeq(s, k + 1, Len(s))[i] = s[k + i]
    BY CutOf
  <2> HIDE DEF take
  <2>3. copied \in Seq(Nat) /\ Len(copied) = take /\ \A i \in 1 .. take : copied[i] = pending[i]
    BY <1>2, <2>1
  <2>4. /\ rest \in Seq(Nat) /\ Len(rest) = Len(pending) - take
        /\ \A i \in 1 .. Len(pending) - take : rest[i] = pending[take + i]
    BY <1>2, <2>2
  <2> HIDE DEF copied, rest
  <2> QED BY <2>3, <2>4
<1> HIDE DEF take, copied, rest
<1>4. call \in Reads /\ call.into = rd.into \o copied /\ call # Serial!Idle
  <2>1. rd.into \o copied \in Seq(Nat)
    BY <1>2, <1>3, JoinOf
  <2> QED BY <1>1, <2>1 DEF Reads, Serial!Idle
<1> HIDE DEF call
<1>5. SerialTypeOK'
  BY <1>1, <1>3, <1>4 DEF SerialIInv, SerialTypeOK
<1>6. /\ DOMAIN Now = 1 .. N /\ Was[2] = rd.into /\ Was[3] = pending
      /\ Now[1] = Was[1] /\ Now[2] = rd.into \o copied /\ Now[3] = rest
      /\ \A p \in 4 .. N : Now[p] = Was[p]
  <2>1. Serial!Taken = rd.into /\ Serial!Taken' = rd.into \o copied
    BY <1>1, <1>4 DEF Serial!Taken
  <2>2. Now = [p \in 1 .. N |-> IF p = 1 THEN given ELSE IF p = 2 THEN Serial!Taken'
                               ELSE IF p = 3 THEN rest ELSE wire[p - 3]]
    BY <1>1 DEF Serial!Places
  <2>3. Was = [p \in 1 .. N |-> IF p = 1 THEN given ELSE IF p = 2 THEN Serial!Taken
                               ELSE IF p = 3 THEN pending ELSE wire[p - 3]]
    BY DEF Serial!Places
  <2> HIDE DEF Was, Now, N
  <2> QED BY <1>2, <2>1, <2>2, <2>3
<1>7. Shelves(Now, N)
  <2>1. ASSUME NEW p \in 1 .. N PROVE Now[p] \in Seq(Nat)
    <3>1. Now[2] \in Seq(Nat)
      BY <1>2, <1>3, <1>6, JoinOf
    <3>2. Was[p] \in Seq(Nat)
      BY <1>2 DEF Shelves
    <3>3. p = 1 \/ p = 2 \/ p = 3 \/ p \in 4 .. N
      BY <1>2
    <3> HIDE DEF Was, Now, N
    <3> QED BY <1>3, <1>6, <3>1, <3>2, <3>3
  <2> QED BY <1>2, <1>6, <2>1 DEF Shelves
<1>8. /\ Now[2] \in Seq(Nat) /\ Len(Now[2]) = Len(rd.into) + Len(copied)
      /\ \A i \in 1 .. Len(rd.into) : Now[2][i] = rd.into[i]
      /\ \A i \in 1 .. Len(copied) : Now[2][Len(rd.into) + i] = copied[i]
  <2>1. \A a, b \in Seq(Nat) :
          /\ a \o b \in Seq(Nat) /\ Len(a \o b) = Len(a) + Len(b)
          /\ \A i \in 1 .. Len(a) : (a \o b)[i] = a[i]
          /\ \A i \in 1 .. Len(b) : (a \o b)[Len(a) + i] = b[i]
    BY JoinOf
  <2> DEFINE a == rd.into  c == Now[2]
  <2>2. a \in Seq(Nat) /\ c = a \o copied
    BY <1>2, <1>6
  <2> HIDE DEF a, c
  <2>3. /\ c \in Seq(Nat) /\ Len(c) = Len(a) + Len(copied)
        /\ \A i \in 1 .. Len(a) : c[i] = a[i]
        /\ \A i \in 1 .. Len(copied) : c[Len(a) + i] = copied[i]
    BY <1>3, <2>1, <2>2
  <2> HIDE DEF Now
  <2> QED BY <2>3 DEF a, c
<1>9. Shifts(Was, Now, N, 2, 3, take)
  <2> HIDE DEF Was, Now, N
  <2>1. Len(Now[3]) = Len(Was[3]) - take /\ Len(Now[2]) = Len(Was[2]) + take
    BY <1>3, <1>6, <1>8
  <2>2. \A p \in 1 .. N : p # 2 /\ p # 3 => Now[p] = Was[p]
    <3>1. \A p \in 1 .. N : p = 1 \/ p = 2 \/ p = 3 \/ p \in 4 .. N
      BY <1>2
    <3> QED BY <1>6, <3>1
  <2>3. \A i \in 1 .. Len(Was[2]) : Now[2][i] = Was[2][i]
    BY <1>6, <1>8
  <2>4. \A i \in 1 .. take : Now[2][Len(Was[2]) + i] = Was[3][i]
    BY <1>3, <1>6, <1>8
  <2>5. \A i \in 1 .. Len(Now[3]) : Now[3][i] = Was[3][take + i]
    BY <1>3, <1>6
  <2>6. 2 \in 1 .. N /\ 3 \in 1 .. N /\ 3 = 2 + 1 /\ take \in 0 .. Len(Was[3])
    BY <1>2, <1>6
  <2> QED BY <2>1, <2>2, <2>3, <2>4, <2>5, <2>6 DEF Shifts
<1> HIDE DEF Was, Now, N
<1>10. Serial!Rising(Was) => Serial!Rising(Now) /\ Serial!Held(Now) = Serial!Held(Was)
  BY <1>2, <1>7, <1>9, BytesShift
<1> QED BY <1>1, <1>5, <1>10 DEF SerialIInv, Serial!BytesOnce, Was, Now

\* The first packet on the wire takes the place of what is pending, which is nothing;
\* an empty one makes the call return as well.
LEMMA SerialFills == ASSUME SerialIInv, Serial!Fill PROVE SerialIInv'
<1> DEFINE N == Len(wire) + 2  Was == Serial!Places  Now == Serial!Places'
           Mid == [p \in 1 .. N |-> IF p < 3 THEN Was[p] ELSE Was[p + 1]]
<1>1. /\ rd \in Reads /\ rd # Serial!Idle /\ pending = <<>> /\ wire # <<>> /\ wire \in Seq(Seq(Nat))
      /\ wire' = Tail(wire) /\ pending' = Head(wire) /\ UNCHANGED <<typed, torn>>
      /\ rd.into \in Seq(Nat) /\ given \in Seq(Nat)
  BY DEF Serial!Fill, Serial!Fills, SerialIInv, SerialTypeOK, Reads
<1>2. /\ Len(wire) \in Nat \ {0} /\ wire' \in Seq(Seq(Nat)) /\ Len(wire') = Len(wire) - 1
      /\ Head(wire) = wire[1] /\ Head(wire) \in Seq(Nat)
      /\ \A k \in 1 .. Len(wire) - 1 : wire'[k] = wire[k + 1]
  BY <1>1
<1>3. /\ N \in Nat /\ N > 2 /\ Shelves(Was, N + 1)
      /\ Was[1] = given /\ Was[2] = rd.into /\ Was[3] = <<>> /\ Was[4] = Head(wire)
      /\ \A p \in 1 .. N + 1 : p > 3 => Was[p] = wire[p - 3]
  <2>1. Serial!Taken = rd.into /\ N + 1 = Len(wire) + 3
    BY <1>1, <1>2 DEF Serial!Taken
  <2>2. 4 \in 1 .. N + 1 /\ 4 - 3 = 1
    BY <1>2
  <2> QED BY <1>1, <1>2, <2>1, <2>2, PlacesTyped DEF SerialIInv
<1>4. Shelves(Mid, N)
  <2>1. ASSUME NEW p \in 1 .. N PROVE Mid[p] \in Seq(Nat)
    <3>1. (IF p < 3 THEN p ELSE p + 1) \in 1 .. N + 1 /\ Mid[p] = Was[IF p < 3 THEN p ELSE p + 1]
      BY <1>3
    <3> HIDE DEF Mid, Was
    <3> QED BY <1>3, <3>1 DEF Shelves
  <2> QED BY <1>3, <2>1 DEF Shelves
<1>5. Serial!Rising(Was) => Serial!Rising(Mid) /\ Serial!Held(Mid) = Serial!Held(Was)
  <2>1. Closes(Was, Mid, N, 3)
    <3>1. \A p \in 1 .. N : Mid[p] = IF p < 3 THEN Was[p] ELSE Was[p + 1]
      OBVIOUS
    <3> HIDE DEF Was, Mid
    <3> QED BY <1>3, <3>1 DEF Closes
  <2> HIDE DEF Was, Mid, N
  <2> QED BY <1>3, <1>4, <2>1, BytesClose
<1>6. /\ Mid[1] = given /\ Mid[2] = rd.into /\ Mid[3] = Head(wire)
      /\ \A p \in 4 .. N : Mid[p] = wire[p - 2]
  <2>1. ASSUME NEW p \in 4 .. N PROVE Mid[p] = wire[p - 2]
    <3>1. p \in 1 .. N /\ ~(p < 3) /\ p + 1 \in 1 .. N + 1 /\ p + 1 > 3 /\ (p + 1) - 3 = p - 2
      BY <1>3
    <3>2. Mid[p] = Was[p + 1]
      BY <3>1
    <3> HIDE DEF Mid, Was
    <3> QED BY <1>3, <3>1, <3>2
  <2>2. Mid[1] = Was[1] /\ Mid[2] = Was[2] /\ Mid[3] = Was[4]
    BY <1>3
  <2> HIDE DEF Mid, Was
  <2> QED BY <1>3, <2>1, <2>2
<1>7. /\ Now = [p \in 1 .. N |-> IF p = 1 THEN given' ELSE IF p = 2 THEN Serial!Taken'
                                 ELSE IF p = 3 THEN Head(wire) ELSE wire'[p - 3]]
      /\ \A p \in 4 .. N : wire'[p - 3] = wire[p - 2]
  <2>1. Len(wire') + 3 = N
    BY <1>2
  <2>2. ASSUME NEW p \in 4 .. N PROVE wire'[p - 3] = wire[p - 2]
    <3>1. p - 3 \in 1 .. Len(wire) - 1 /\ (p - 3) + 1 = p - 2
      BY <1>2
    <3> QED BY <1>2, <3>1
  <2> QED BY <1>1, <2>1, <2>2 DEF Serial!Places
<1> HIDE DEF N, Was, Now, Mid
<1>8. CASE Head(wire) = <<>>
  <2>1. rd' = Serial!Idle /\ Serial!Taken' = <<>> /\ given' = given \o rd.into
    BY <1>8 DEF Serial!Fill, Serial!Return, Serial!Taken
  <2>2. given' \in Seq(Nat)
    BY <1>1, <2>1, JoinOf
  <2>3. SerialTypeOK'
    BY <1>1, <1>2, <2>1, <2>2 DEF SerialIInv, SerialTypeOK
  <2>4. /\ DOMAIN Now = 1 .. N /\ Now[1] = Mid[1] \o Mid[2] /\ Now[2] = <<>>
        /\ \A p \in 3 .. N : Now[p] = Mid[p]
    <3>1. \A p \in 3 .. N : p = 3 \/ p \in 4 .. N
      BY <1>3
    <3> QED BY <1>3, <1>6, <1>7, <2>1, <3>1
  <2>5. Serial!Rising(Mid) => Serial!Rising(Now) /\ Serial!Held(Now) = Serial!Held(Mid)
    BY <1>3, <1>4, <2>4, GivesAll
  <2> QED BY <1>1, <1>5, <2>3, <2>5 DEF SerialIInv, Serial!BytesOnce, Was, Now
<1>9. CASE Head(wire) # <<>>
  <2>1. rd' = [rd EXCEPT !.first = FALSE] /\ given' = given
    BY <1>9 DEF Serial!Fill
  <2>2. rd' \in Reads /\ rd' # Serial!Idle /\ rd'.into = rd.into
    BY <1>1, <2>1 DEF Reads, Serial!Idle
  <2>3. SerialTypeOK'
    BY <1>1, <1>2, <2>1, <2>2 DEF SerialIInv, SerialTypeOK
  <2>4. Serial!Taken' = rd.into
    BY <2>2 DEF Serial!Taken
  <2>5. DOMAIN Now = 1 .. N /\ \A p \in 1 .. N : Now[p] = Mid[p]
    <3>1. \A p \in 1 .. N : p = 1 \/ p = 2 \/ p = 3 \/ p \in 4 .. N
      BY <1>3
    <3> QED BY <1>3, <1>6, <1>7, <2>1, <2>4, <3>1
  <2>6. Now = Mid
    BY <1>7, <2>5 DEF Mid
  <2> QED BY <1>1, <1>5, <2>3, <2>6 DEF SerialIInv, Serial!BytesOnce, Was, Now
<1> QED BY <1>8, <1>9

\* What a call that raises had is lost, and nothing else.
LEMMA SerialRaises == ASSUME SerialIInv, Serial!Raise PROVE SerialIInv'
<1> DEFINE N == Len(wire) + 3  Was == Serial!Places  Now == Serial!Places'
           lost == {rd.into[i] : i \in DOMAIN rd.into}
<1>1. /\ rd \in Reads /\ rd # Serial!Idle /\ rd' = Serial!Idle /\ torn' = torn \cup lost
      /\ UNCHANGED <<wire, typed, pending, given>> /\ rd.into \in Seq(Nat)
  BY DEF Serial!Raise, Serial!Fills, SerialIInv, SerialTypeOK, Reads
<1>2. N \in Nat /\ N > 2 /\ DOMAIN Was = 1 .. N /\ Was[2] = rd.into
  BY <1>1, PlacesTyped DEF SerialIInv, Shelves, Serial!Taken, SerialTypeOK
<1>3. DOMAIN Now = 1 .. N /\ Now[2] = <<>> /\ \A p \in 1 .. N : p # 2 => Now[p] = Was[p]
  BY <1>1, <1>2 DEF Serial!Places, Serial!Taken
<1> HIDE DEF N, Was, Now
<1>4. Serial!Rising(Was) => Serial!Rising(Now)
  BY <1>2, <1>3 DEF Serial!Rising
<1>5. lost \subseteq Serial!Held(Was)
  BY <1>2 DEF Serial!Held
<1>6. /\ Serial!Held(Now) \subseteq Serial!Held(Was)
      /\ Serial!Held(Was) \subseteq Serial!Held(Now) \cup lost
  BY <1>2, <1>3 DEF Serial!Held
<1>7. Serial!Rising(Was) => Serial!Held(Now) \cap lost = {}
  <2>1. SUFFICES ASSUME Serial!Rising(Was), NEW b \in Serial!Held(Now), b \in lost PROVE FALSE
    OBVIOUS
  <2>2. PICK p \in 1 .. N : \E i \in DOMAIN Now[p] : b = Now[p][i]
    BY <1>3 DEF Serial!Held
  <2>3. PICK j \in DOMAIN Was[2] : b = Was[2][j]
    BY <1>2, <2>1
  <2>4. p # 2 /\ Now[p] = Was[p]
    BY <1>3, <2>2
  <2>5. b < b
    <3>1. PICK i \in DOMAIN Was[p] : b = Was[p][i]
      BY <2>2, <2>4
    <3>2. p < 2 \/ 2 < p
      BY <2>4
    <3>3. p \in DOMAIN Was /\ 2 \in DOMAIN Was
      BY <1>2
    <3> QED BY <2>1, <2>3, <3>1, <3>2, <3>3 DEF Serial!Rising
  <2>6. b \in Nat
    BY <1>1, <1>2, <2>3
  <2> QED BY <2>5, <2>6
<1>8. SerialTypeOK'
  BY <1>1, <1>5 DEF SerialIInv, SerialTypeOK, Serial!BytesOnce, Was
<1> QED BY <1>1, <1>4, <1>5, <1>6, <1>7, <1>8 DEF SerialIInv, Serial!BytesOnce, Was, Now

\* Every step keeps it so.
LEMMA SerialNext == ASSUME MaxPacket \in Nat, MaxWant \in Nat, SerialIInv, Serial!Next PROVE SerialIInv'
<1>1. ASSUME NEW n \in 0 .. MaxPacket, Serial!Send(n) PROVE SerialIInv'
  BY <1>1, SerialSends
<1>2. ASSUME NEW what \in {"read", "any"}, NEW n \in Nat, Serial!Call(what, n) PROVE SerialIInv'
  <2>1. rd' \in Reads /\ rd' # Serial!Idle /\ rd'.into = <<>> /\ rd = Serial!Idle
    BY <1>2 DEF Serial!Call, Reads, Serial!Idle
  <2>2. Serial!Places' = Serial!Places
    BY <1>2, <2>1 DEF Serial!Call, Serial!Places, Serial!Taken
  <2> QED BY <1>2, <2>1, <2>2 DEF Serial!Call, SerialIInv, SerialTypeOK, Serial!BytesOnce
<1>3. CASE Serial!NoMore
  BY <1>3, SerialReturns DEF Serial!NoMore, Serial!Fills
<1>4. CASE Serial!Done
  BY <1>4, SerialReturns DEF Serial!Done
<1> QED BY <1>1, <1>2, <1>3, <1>4, SerialCopies, SerialFills, SerialRaises DEF Serial!Next

\* SerialPort: each byte is given once and in order, and none is lost but to a call that
\* raised, whatever the lengths of the packets and of the reads.
THEOREM BytesComeOnce == ClassesSpec => []BytesOnce
<1>1. ClassesInit => SerialIInv
  BY SerialInit DEF ClassesInit
<1>2. SerialIInv /\ [ClassesNext]_allVars => SerialIInv'
  <2>1. SerialIInv /\ UNCHANGED serialVars => SerialIInv'
    <3>1. UNCHANGED serialVars => Serial!Places' = Serial!Places
      BY DEF serialVars, Serial!Places, Serial!Taken
    <3> QED BY <3>1 DEF serialVars, SerialIInv, SerialTypeOK, Serial!BytesOnce
  <2>2. MaxPacket \in Nat /\ MaxWant \in Nat
    BY ConstantsAssumption DEF Serial!SizesAssumption
  <2> QED BY <2>1, <2>2, OneComponent, SerialNext
<1>3. SerialIInv => BytesOnce
  BY DEF SerialIInv, BytesOnce
<1> QED BY <1>1, <1>2, <1>3, PTL DEF ClassesSpec

-----------------------------------------------------------------------------
(* MidiEffect.                                                             *)

\* The messages that can wait.
EffectMessages ==
  [is : {"note"}, on : BOOLEAN, c : Channels, n : Played, loud : BOOLEAN]
    \cup [is : {"allOff"}, c : Channels]

\* A note of the instrument that the property is about.
Minded(x) == effect.who = "fixed" \/ x[1] = 0

\* One that sounds is a held key's, or something that waits ends it.
EndsComing ==
  \A x \in sounding : Minded(x) =>
    Effect!Owed(x) \/ \E i \in DOMAIN waiting : Effect!About(waiting[i], x) /\ ~Effect!Starts(waiting[i])

\* A note-on that waits is of a key that is held, or its note-off waits behind it.
StartsOwed ==
  \A i \in DOMAIN waiting : Effect!Starts(waiting[i]) =>
    \/ <<waiting[i].c, waiting[i].n>> \in pressed
    \/ \E j \in i + 1 .. Len(waiting) : /\ waiting[j].is = "note" /\ ~Effect!Starts(waiting[j])
                                       /\ waiting[j].c = waiting[i].c /\ waiting[j].n = waiting[i].n

\* The setting is a record of its four parts.
IsSetting ==
  effect = [who |-> effect.who, chord |-> effect.chord, direction |-> effect.direction,
            harmony |-> effect.harmony]

EffectIInv == IsSetting /\ waiting \in Seq(EffectMessages) /\ EndsComing /\ StartsOwed

\* Nothing waits and nothing sounds.
LEMMA EffectInit == ASSUME Effect!Init PROVE EffectIInv
<1>1. waiting \in Seq(EffectMessages)
  BY DEF Effect!Init
<1>2. DOMAIN waiting = {} /\ sounding = {}
  BY DEF Effect!Init
<1>3. IsSetting
  BY DEF Effect!Init, IsSetting
<1> QED BY <1>1, <1>2, <1>3 DEF EffectIInv, EndsComing, StartsOwed

\* What is sent and sounds is of a key held.
LEMMA EffectPumps == ASSUME EffectIInv, Effect!Pump PROVE EffectIInv'
<1>1. waiting' = <<>> /\ sounding' = Effect!Drained /\ UNCHANGED <<effect, pressed>>
  BY DEF Effect!Pump
<1>2. Len(waiting) \in Nat /\ DOMAIN waiting = 1 .. Len(waiting)
  BY DEF EffectIInv
<1>3. ASSUME NEW x \in sounding', Minded(x) PROVE Effect!Owed(x)
  <2>1. CASE x \in sounding /\ Effect!Quiet(0, x)
    BY <1>2, <1>3, <2>1 DEF EffectIInv, EndsComing, Effect!Quiet
  <2>2. CASE \E i \in DOMAIN waiting : /\ Effect!Starts(waiting[i]) /\ Effect!Quiet(i, x)
              /\ \E n \in Effect!Stack(waiting[i].n, effect.harmony) : x = <<waiting[i].c, n>>
    <3>1. PICK i \in DOMAIN waiting : /\ Effect!Starts(waiting[i]) /\ Effect!Quiet(i, x)
              /\ \E n \in Effect!Stack(waiting[i].n, effect.harmony) : x = <<waiting[i].c, n>>
      BY <2>2
    <3>2. x[1] = waiting[i].c /\ x[2] \in Effect!Stack(waiting[i].n, effect.harmony)
      BY <3>1
    <3>3. <<waiting[i].c, waiting[i].n>> \in pressed
      BY <3>1, <3>2 DEF EffectIInv, StartsOwed, Effect!About, Effect!Quiet
    <3> QED BY <3>2, <3>3 DEF Effect!Owed
  <2> QED BY <1>1, <1>3, <2>1, <2>2 DEF Effect!Drained
<1>4. DOMAIN waiting' = {} /\ waiting' \in Seq(EffectMessages)
  BY <1>1
<1> QED BY <1>1, <1>3, <1>4
       DEF EffectIInv, EndsComing, StartsOwed, Effect!Owed, Minded, IsSetting

\* A new setting silences the first channel, the only one the property is about then.
LEMMA EffectChanges == ASSUME EffectIInv, Effect!OnChange PROVE EffectIInv'
<1>1. /\ effect.who = "ui" /\ effect'.who = effect.who /\ UNCHANGED <<waiting, pressed>>
      /\ IsSetting' /\ \A x \in sounding' : x[1] # 0
  <2>1. PICK chord, direction : Effect!Rebuilds(chord, direction)
    BY DEF Effect!OnChange
  <2> DEFINE new == [who |-> effect.who, chord |-> chord, direction |-> direction,
                     harmony |-> Effect!Intervals(chord, direction)]
  <2>2. effect' = new
    BY <2>1 DEF Effect!Rebuilds, EffectIInv, IsSetting
  <2>3. effect'.who = effect.who /\ IsSetting'
    BY <2>2 DEF IsSetting
  <2>4. sounding' = {x \in sounding : x[1] # 0}
    BY <2>1 DEF Effect!Rebuilds
  <2>5. effect.who = "ui" /\ UNCHANGED <<waiting, pressed>>
    BY DEF Effect!OnChange
  <2> HIDE DEF new
  <2> QED BY <2>3, <2>4, <2>5
<1> QED BY <1>1 DEF EffectIInv, EndsComing, StartsOwed, Minded

\* A message goes behind those that wait.
LEMMA EffectSends ==
  ASSUME EffectIInv, NEW m \in EffectMessages, Effect!Sends(m),
         \A k \in pressed : k \in pressed' \/ (m.is = "note" /\ ~Effect!Starts(m) /\ k = <<m.c, m.n>>),
         Effect!Starts(m) => <<m.c, m.n>> \in pressed'
  PROVE  EffectIInv'
<1> DEFINE N == Len(waiting) + 1
<1>1. /\ waiting' \in Seq(EffectMessages) /\ Len(waiting') = N /\ waiting'[N] = m /\ N \in Nat \ {0}
      /\ DOMAIN waiting = 1 .. N - 1 /\ DOMAIN waiting' = 1 .. N
      /\ \A i \in 1 .. N - 1 : waiting'[i] = waiting[i]
      /\ UNCHANGED <<effect, sounding>>
  BY DEF Effect!Sends, EffectIInv
<1> HIDE DEF N
<1>2. EndsComing'
  <2>1. SUFFICES ASSUME NEW x \in sounding, Minded(x)
                 PROVE Effect!Owed(x)' \/ \E i \in 1 .. N : /\ Effect!About(waiting'[i], x)
                                                       /\ ~Effect!Starts(waiting'[i])
    BY <1>1 DEF EndsComing, Minded, Effect!About
  <2>2. CASE Effect!Owed(x)
    <3>1. PICK k \in pressed : k[1] = x[1] /\ x[2] \in Effect!Stack(k[2], effect.harmony)
      BY <2>2 DEF Effect!Owed
    <3>2. CASE k \in pressed'
      BY <1>1, <3>1, <3>2 DEF Effect!Owed
    <3>3. CASE m.is = "note" /\ ~Effect!Starts(m) /\ k = <<m.c, m.n>>
      <4>1. Effect!About(m, x)
        BY <3>1, <3>3 DEF Effect!About
      <4> QED BY <1>1, <3>3, <4>1
    <3> QED BY <3>2, <3>3
  <2>3. CASE \E i \in DOMAIN waiting : Effect!About(waiting[i], x) /\ ~Effect!Starts(waiting[i])
    BY <1>1, <2>3
  <2> QED BY <2>1, <2>2, <2>3 DEF EffectIInv, EndsComing
<1>3. StartsOwed'
  <2>1. SUFFICES ASSUME NEW i \in 1 .. N, Effect!Starts(waiting'[i])
                 PROVE \/ <<waiting'[i].c, waiting'[i].n>> \in pressed'
                       \/ \E j \in i + 1 .. N : /\ waiting'[j].is = "note" /\ ~Effect!Starts(waiting'[j])
                                               /\ waiting'[j].c = waiting'[i].c
                                               /\ waiting'[j].n = waiting'[i].n
    BY <1>1 DEF StartsOwed
  <2>2. CASE i = N
    BY <1>1, <2>1, <2>2
  <2>3. CASE i \in 1 .. N - 1
    <3>1. waiting'[i] = waiting[i] /\ Effect!Starts(waiting[i])
      BY <1>1, <2>1, <2>3
    <3>2. CASE <<waiting[i].c, waiting[i].n>> \in pressed
      <4>1. CASE <<waiting[i].c, waiting[i].n>> \in pressed'
        BY <3>1, <4>1
      <4>2. CASE m.is = "note" /\ ~Effect!Starts(m) /\ m.c = waiting[i].c /\ m.n = waiting[i].n
        BY <1>1, <2>3, <3>1, <4>2
      <4> QED BY <3>2, <4>1, <4>2
    <3>3. CASE \E j \in i + 1 .. Len(waiting) :
                 /\ waiting[j].is = "note" /\ ~Effect!Starts(waiting[j])
                 /\ waiting[j].c = waiting[i].c /\ waiting[j].n = waiting[i].n
      <4>1. PICK j \in i + 1 .. N - 1 :
                 /\ waiting[j].is = "note" /\ ~Effect!Starts(waiting[j])
                 /\ waiting[j].c = waiting[i].c /\ waiting[j].n = waiting[i].n
        BY <3>3 DEF N
      <4>2. j \in i + 1 .. N /\ waiting'[j] = waiting[j]
        BY <1>1, <2>3
      <4> QED BY <3>1, <4>1, <4>2
    <3> QED BY <1>1, <2>3, <3>1, <3>2, <3>3 DEF EffectIInv, StartsOwed
  <2> QED BY <1>1, <2>2, <2>3
<1> QED BY <1>1, <1>2, <1>3 DEF EffectIInv, IsSetting

\* Every step keeps it so.
LEMMA EffectNext == ASSUME EffectIInv, Effect!Next PROVE EffectIInv'
<1>1. ASSUME NEW c \in Channels, Effect!Panic(c) PROVE EffectIInv'
  <2>1. /\ Effect!AllNotesOff(c) \in EffectMessages /\ ~Effect!Starts(Effect!AllNotesOff(c))
        /\ Effect!Sends(Effect!AllNotesOff(c)) /\ pressed' = pressed
    BY <1>1 DEF Effect!Panic, Effect!AllNotesOff, EffectMessages, Effect!Starts
  <2> QED BY <2>1, EffectSends
<1>2. ASSUME NEW c \in Channels, NEW n \in Played, Effect!Press(c, n) PROVE EffectIInv'
  <2> DEFINE m == Effect!Note(TRUE, c, n, TRUE)
  <2>1. /\ m \in EffectMessages /\ m.c = c /\ m.n = n /\ Effect!Sends(m)
        /\ pressed' = pressed \cup {<<c, n>>}
    BY <1>2 DEF Effect!Press, Effect!Note, EffectMessages
  <2> HIDE DEF m
  <2> QED BY <2>1, EffectSends
<1>3. ASSUME NEW c \in Channels, NEW n \in Played, Effect!Release(c, n) PROVE EffectIInv'
  <2> DEFINE m == Effect!Note(c = 0, c, n, FALSE)
  <2>1. /\ m \in EffectMessages /\ m.c = c /\ m.n = n /\ m.is = "note" /\ ~Effect!Starts(m)
        /\ Effect!Sends(m) /\ pressed' = pressed \ {<<c, n>>}
    BY <1>3 DEF Effect!Release, Effect!Note, EffectMessages, Effect!Starts
  <2> HIDE DEF m
  <2> QED BY <2>1, EffectSends
<1> QED BY <1>1, <1>2, <1>3, EffectPumps, EffectChanges DEF Effect!Next

\* When nothing waits, what sounds is owed to a key that is held.
LEMMA EffectHolds == ASSUME EffectIInv PROVE Effect!NoNoteLeft
  BY DEF EffectIInv, EndsComing, Effect!NoNoteLeft, Minded

\* MidiEffect: no harmony outlives its note or the setting that made it, however many keys
\* are held and whatever waits when a setting changes.
THEOREM NoNoteIsLeft == ClassesSpec => []NoNoteLeft
<1>1. ClassesInit => EffectIInv
  BY EffectInit DEF ClassesInit
<1>2. EffectIInv /\ [ClassesNext]_allVars => EffectIInv'
  <2>1. EffectIInv /\ UNCHANGED effectVars => EffectIInv'
    BY DEF effectVars, EffectIInv, IsSetting, EndsComing, StartsOwed, Minded, Effect!Owed, Effect!About,
           Effect!Starts, Effect!Stack
  <2> QED BY <2>1, OneComponent, EffectNext
<1>3. EffectIInv => NoNoteLeft
  BY EffectHolds DEF NoNoteLeft
<1> QED BY <1>1, <1>2, <1>3, PTL DEF ClassesSpec

-----------------------------------------------------------------------------
(* UsbPort.                                                                *)

\* What the module keeps and what the C module does are in their types.
PortType == [on : BOOLEAN, how : Settings \cup {Port!Default}]
ModType == [started : BOOLEAN, how : Settings \cup {Port!Default}]
PortTypeOK == mod \in ModType /\ port \in PortType /\ missed \in BOOLEAN
PortIInv == PortTypeOK /\ Port!PortTruth

\* The port starts off, and the module has not started it.
LEMMA PortInit == ASSUME Port!Init PROVE PortIInv
  BY DEF Port!Init, Port!Off, PortIInv, PortTypeOK, PortType, ModType, Port!PortTruth

\* What the C module's start and stop leave: a running port as it is, and one that is off.
LEMMA PortCalls ==
  ASSUME NEW p \in PortType, NEW how \in Settings \cup {Port!Default}
  PROVE  /\ Port!HostStop(p) \in PortType /\ ~Port!HostStop(p).on
         /\ Port!HostStart(p, how) \in PortType /\ Port!HostStart(p, how).on
         /\ ~p.on => Port!HostStart(p, how).how = how
  BY DEF Port!HostStop, Port!HostStart, PortType

\* start() with any settings, whatever host_start answers.
LEMMA PortStarts ==
  ASSUME PortIInv, NEW how \in Settings \cup {Port!Default}, Port!StartWith(how)
  PROVE  PortIInv'
<1> DEFINE stopped == IF mod.started THEN Port!HostStop(port) ELSE port
<1>1. stopped \in PortType /\ ~stopped.on
  BY PortCalls DEF PortIInv, PortTypeOK, Port!PortTruth
<1>2. CASE mod.started /\ how = mod.how
  BY <1>2 DEF Port!StartWith, PortIInv, PortTypeOK, Port!PortTruth
<1>3. CASE ~(mod.started /\ how = mod.how)
  <2>1. \/ /\ port' = Port!HostStart(stopped, how) /\ mod' = [started |-> TRUE, how |-> how]
           /\ missed' = FALSE
        \/ port' = stopped /\ missed' = mod.started /\ mod' = mod
    BY <1>3 DEF Port!StartWith
  <2> HIDE DEF stopped
  <2>2. CASE port' = stopped /\ missed' = mod.started /\ mod' = mod
    BY <1>1, <2>2 DEF PortIInv, PortTypeOK, ModType, Port!PortTruth
  <2>3. CASE /\ port' = Port!HostStart(stopped, how) /\ mod' = [started |-> TRUE, how |-> how]
             /\ missed' = FALSE
    BY <1>1, <2>3, PortCalls DEF PortIInv, PortTypeOK, ModType, Port!PortTruth
  <2> QED BY <2>1, <2>2, <2>3
<1> QED BY <1>2, <1>3

\* Every call keeps it so.
LEMMA PortNext == ASSUME PortIInv, Port!Next PROVE PortIInv'
<1>1. ASSUME NEW how \in Settings, Port!Start(how) PROVE PortIInv'
  BY <1>1, PortStarts DEF Port!Start
<1>2. CASE Port!Stop
  BY <1>2, PortCalls DEF Port!Stop, Port!Off, PortIInv, PortTypeOK, ModType, PortType, Port!PortTruth
<1>3. CASE Port!Find
  BY <1>3, PortStarts DEF Port!Find, PortIInv, PortTypeOK, Port!PortTruth
<1>4. CASE Port!Running
  BY <1>4 DEF Port!Running, PortIInv, PortTypeOK, Port!PortTruth
<1> QED BY <1>1, <1>2, <1>3, <1>4 DEF Port!Next

\* UsbPort: whatever settings start() is called with, and however host_start answers, the
\* port runs as usb/core.py says it does.
THEOREM PortIsTrue == ClassesSpec => []PortTruth
<1>1. ClassesInit => PortIInv
  BY PortInit DEF ClassesInit
<1>2. PortIInv /\ [ClassesNext]_allVars => PortIInv'
  <2>1. PortIInv /\ UNCHANGED portVars => PortIInv'
    BY DEF portVars, PortIInv, PortTypeOK, Port!PortTruth
  <2> QED BY <2>1, OneComponent, PortNext
<1>3. PortIInv => PortTruth
  BY DEF PortIInv, PortTruth
<1> QED BY <1>1, <1>2, <1>3, PTL DEF ClassesSpec

-----------------------------------------------------------------------------
(* RndisTether.                                                            *)

\* The elements of a sequence, and what each operation on it does to them.
Elems(s) == {s[i] : i \in 1 .. Len(s)}

\* A sequence grows by its new element and loses its first.
LEMMA ElemsOf ==
  ASSUME NEW S, NEW s \in Seq(S)
  PROVE  /\ Elems(s) \subseteq S
         /\ \A x \in S : Append(s, x) \in Seq(S) /\ Elems(Append(s, x)) = Elems(s) \cup {x}
         /\ s # <<>> => /\ Tail(s) \in Seq(S) /\ Head(s) \in Elems(s)
                         /\ Elems(Tail(s)) \subseteq Elems(s)
<1>1. Elems(s) \subseteq S
  BY DEF Elems
<1>2. ASSUME NEW x \in S PROVE Append(s, x) \in Seq(S) /\ Elems(Append(s, x)) = Elems(s) \cup {x}
  BY <1>2 DEF Elems
<1>3. ASSUME s # <<>>
      PROVE  /\ Tail(s) \in Seq(S) /\ Head(s) \in Elems(s)
             /\ Elems(Tail(s)) \subseteq Elems(s)
  BY <1>3 DEF Elems
<1> QED BY <1>1, <1>2, <1>3

Kinds == {"init", "query", "set"}
Question == [type : Kinds, id : Nat, n : Nat \ {0}]
Reply == [type : Kinds, id : Nat, n : Nat \ {0}, ok : BOOLEAN]
Command == [type : Kinds, id : Nat, n : Nat \ {0}, polls : Int]

\* The types of the tether's state.
TetherTypeOK ==
  /\ tet \in [req : Nat, up : BOOLEAN, mac : Nat]
  /\ cmd \in Command \cup {Tether!Idle}
  /\ query \in Seq(Question) /\ ready \in Seq(Reply)
  /\ net \in [on : BOOLEAN, mac : Nat]
  /\ sent \in Nat /\ second \in BOOLEAN /\ left \in BOOLEAN

\* What goes by an id and a number: the command under way, what the phone has been
\* asked, and its answers.
Tags ==
  {<<x.id, x.n>> : x \in Elems(query) \cup Elems(ready)
                           \cup (IF cmd = Tether!Idle THEN {} ELSE {cmd})}

\* With one count, an id is one command's, and of those counted so far.
Numbered ==
  ~second => /\ \A t, u \in Tags : t[1] = u[1] => t[2] = u[2]
             /\ \A t \in Tags : t[1] <= tet.req

\* An answer has given the address before the packet filter is asked for.
Addressed == cmd # Tether!Idle /\ cmd.type = "set" => tet.mac # Tether!NoMac

TetherIInv == TetherTypeOK /\ Numbered /\ Addressed /\ Tether!AnswerIsOurs

\* It holds of a tether just opened.
LEMMA TetherInit == ASSUME Tether!Init PROVE TetherIInv
<1>1. Elems(<<>>) = {}
  BY DEF Elems
<1>2. TetherTypeOK
  <2>1. query \in Seq(Question) /\ ready \in Seq(Reply)
    BY DEF Tether!Init
  <2> QED BY <2>1 DEF Tether!Init, Tether!Fresh, Tether!NoMac, TetherTypeOK
<1>3. Numbered
  <2>1. Tags = {}
    BY <1>1 DEF Tether!Init, Tags
  <2> QED BY <2>1 DEF Numbered
<1>4. Addressed /\ Tether!AnswerIsOurs
  BY DEF Tether!Init, Tether!Fresh, Addressed, Tether!AnswerIsOurs
<1> QED BY <1>2, <1>3, <1>4 DEF TetherIInv

\* What holds no new tag, and has the count there was, keeps ids apart.
LEMMA NumberedKept ==
  ASSUME Numbered, Tags' \subseteq Tags, tet'.req = tet.req, second' = second PROVE Numbered'
  BY DEF Numbered
\* A command that is sent takes the next of the count.
LEMMA NumberedSends ==
  ASSUME TetherTypeOK, Numbered, second' = second, tet'.req = tet.req + 1, NEW n,
         Tags' \subseteq Tags \cup {<<tet.req + 1, n>>}, \A t \in Tags : t[1] \in Nat
  PROVE  Numbered'
  BY DEF Numbered, TetherTypeOK

\* The tags are pairs of an id and a number.
LEMMA TagsTyped == ASSUME TetherTypeOK PROVE \A t \in Tags : t[1] \in Nat /\ t[2] \in Nat \ {0}
<1>1. SUFFICES ASSUME NEW x \in Elems(query) \cup Elems(ready)
                                  \cup (IF cmd = Tether!Idle THEN {} ELSE {cmd})
               PROVE  x.id \in Nat /\ x.n \in Nat \ {0}
  BY DEF Tags
<1>2. CASE x \in Elems(query)
  <2>1. x \in Question
    BY <1>2, ElemsOf DEF TetherTypeOK
  <2> QED BY <2>1 DEF Question
<1>3. CASE x \in Elems(ready)
  <2>1. x \in Reply
    BY <1>3, ElemsOf DEF TetherTypeOK
  <2> QED BY <2>1 DEF Reply
<1>4. CASE cmd # Tether!Idle /\ x = cmd
  BY <1>4 DEF TetherTypeOK, Command
<1> QED BY <1>1, <1>2, <1>3, <1>4

\* The first half of _command, with the address a query has just had, and the answer it
\* came with taken off or not.
LEMMA TetherSends ==
  ASSUME TetherIInv, NEW t \in [req : Nat, up : BOOLEAN, mac : Nat], t.req = tet.req,
         t.up => tet.up, NEW type \in Kinds, type = "set" => t.mac # Tether!NoMac,
         Tether!SendCommand(t, type),
         ready' \in Seq(Reply), Elems(ready') \subseteq Elems(ready),
         UNCHANGED <<net, second, left>>, second \/ answered'.cmd = answered'.answer
  PROVE  TetherIInv'
<1>1. t.req < MaxSent /\ tet' = [t EXCEPT !.req = @ + 1]
  BY DEF Tether!SendCommand, Tether!SendAs
<1>2. /\ tet' \in [req : Nat, up : BOOLEAN, mac : Nat] /\ tet'.req = tet.req + 1
      /\ tet'.up = t.up /\ tet'.mac = t.mac
  BY <1>1
<1>3. CASE cmd' = Tether!Idle /\ UNCHANGED <<sent, query>>
  <2>1. Tags' \subseteq Tags
    BY <1>3 DEF Tags
  <2>2. TetherTypeOK'
    BY <1>2, <1>3 DEF TetherIInv, TetherTypeOK
  <2>3. Numbered'
    BY <1>2, <2>1, TagsTyped, NumberedSends DEF TetherIInv
  <2>4. Addressed' /\ Tether!AnswerIsOurs'
    BY <1>2, <1>3 DEF TetherIInv, TetherTypeOK, Addressed, Tether!AnswerIsOurs
  <2> QED BY <2>2, <2>3, <2>4 DEF TetherIInv
<1>4. ASSUME sent' = sent + 1,
             cmd' = [type |-> type, id |-> t.req + 1, n |-> sent + 1, polls |-> Polls],
             query' = Append(query, [type |-> type, id |-> t.req + 1, n |-> sent + 1])
      PROVE  TetherIInv'
  <2>1. /\ [type |-> type, id |-> t.req + 1, n |-> sent + 1] \in Question
        /\ cmd' \in Command /\ cmd'.type = type /\ cmd'.id = tet.req + 1 /\ cmd'.n = sent + 1
    BY <1>4, ConstantsAssumption DEF TetherIInv, TetherTypeOK, Question, Command,
       Tether!PollsAssumption
  <2>2. /\ query' \in Seq(Question)
        /\ Elems(query') = Elems(query) \cup {[type |-> type, id |-> t.req + 1, n |-> sent + 1]}
    BY <1>4, <2>1, ElemsOf DEF TetherIInv, TetherTypeOK
  <2>3. Tags' \subseteq Tags \cup {<<tet.req + 1, sent + 1>>}
    BY <2>1, <2>2 DEF Tags
  <2>4. TetherTypeOK'
    BY <1>2, <1>4, <2>1, <2>2 DEF TetherIInv, TetherTypeOK
  <2>5. Numbered'
    BY <1>2, <2>3, TagsTyped, NumberedSends DEF TetherIInv
  <2>6. Addressed' /\ Tether!AnswerIsOurs'
    BY <1>2, <2>1 DEF TetherIInv, TetherTypeOK, Addressed, Tether!AnswerIsOurs
  <2> QED BY <2>4, <2>5, <2>6 DEF TetherIInv
<1> QED BY <1>3, <1>4 DEF Tether!SendCommand, Tether!SendAs, Tether!Raises

\* Every step of the tether, its phone and its program keeps it so.
LEMMA TetherNext == ASSUME TetherIInv, Tether!Next PROVE TetherIInv'
<1>1. CASE Tether!Activate
  BY <1>1, TetherSends DEF Tether!Activate, TetherIInv, TetherTypeOK, Kinds, Tether!AnswerIsOurs
<1>2. CASE Tether!Answer
  <2>1. PICK ok \in BOOLEAN :
          ready' = Append(ready, [type |-> Head(query).type, id |-> Head(query).id,
                                  n |-> Head(query).n, ok |-> ok])
    BY <1>2, Zenon DEF Tether!Answer
  <2>2. /\ query # <<>> /\ query' = Tail(query)
        /\ UNCHANGED <<tet, cmd, net, sent, second, left, told, answered>>
    BY <1>2 DEF Tether!Answer
  <2> DEFINE q == Head(query)  r == [type |-> q.type, id |-> q.id, n |-> q.n, ok |-> ok]
  <2>3. /\ q \in Elems(query) /\ q \in Question /\ query' \in Seq(Question)
        /\ Elems(query') \subseteq Elems(query)
    BY <2>2, ElemsOf DEF TetherIInv, TetherTypeOK
  <2>4. r \in Reply /\ r.id = q.id /\ r.n = q.n
    BY <2>3 DEF Question, Reply
  <2>5. ready' \in Seq(Reply) /\ Elems(ready') = Elems(ready) \cup {r}
    BY <2>1, <2>4, ElemsOf DEF TetherIInv, TetherTypeOK
  <2> HIDE DEF q, r
  <2>6. Tags' \subseteq Tags
    BY <2>2, <2>3, <2>4, <2>5 DEF Tags
  <2>7. TetherTypeOK' /\ Numbered'
    BY <2>2, <2>3, <2>5, <2>6, NumberedKept DEF TetherIInv, TetherTypeOK
  <2> QED BY <2>2, <2>7 DEF TetherIInv, Addressed, Tether!AnswerIsOurs
<1>3. CASE Tether!NotYet \/ Tether!PassOver
  <2>1. /\ cmd # Tether!Idle /\ UNCHANGED <<tet, query, net, sent, second, left, answered>>
        /\ cmd' = [cmd EXCEPT !.polls = @ - 1] \/ cmd' = Tether!Idle
        /\ ready' = ready \/ (ready # <<>> /\ ready' = Tail(ready))
    BY <1>3 DEF Tether!NotYet, Tether!PassOver, Tether!Raises
  <2>2. ready' \in Seq(Reply) /\ Elems(ready') \subseteq Elems(ready)
    <3>1. ready \in Seq(Reply)
      BY DEF TetherIInv, TetherTypeOK
    <3>2. ready # <<>> => Tail(ready) \in Seq(Reply) /\ Elems(Tail(ready)) \subseteq Elems(ready)
      BY <3>1, ElemsOf
    <3> QED BY <2>1, <3>1, <3>2
  <2>3. \/ cmd' \in Command /\ cmd'.id = cmd.id /\ cmd'.n = cmd.n /\ cmd'.type = cmd.type
        \/ cmd' = Tether!Idle
    <3>1. cmd \in Command
      BY <2>1 DEF TetherIInv, TetherTypeOK
    <3>2. /\ [cmd EXCEPT !.polls = @ - 1] \in Command
          /\ [cmd EXCEPT !.polls = @ - 1].id = cmd.id
          /\ [cmd EXCEPT !.polls = @ - 1].n = cmd.n
          /\ [cmd EXCEPT !.polls = @ - 1].type = cmd.type
      BY <3>1 DEF Command
    <3> QED BY <2>1, <3>2
  <2>4. Tags' \subseteq Tags
    BY <2>1, <2>2, <2>3 DEF Tags
  <2>5. TetherTypeOK' /\ Numbered'
    BY <2>1, <2>2, <2>3, <2>4, NumberedKept DEF TetherIInv, TetherTypeOK
  <2> QED BY <2>1, <2>3, <2>5 DEF TetherIInv, Addressed, Tether!AnswerIsOurs
<1>4. CASE Tether!TakeAnswer
  <2> DEFINE r == Head(ready)
  <2>1. /\ cmd # Tether!Idle /\ ready # <<>> /\ r.type = cmd.type /\ r.id = cmd.id
        /\ ready' = Tail(ready) /\ answered' = [cmd |-> cmd.n, answer |-> r.n]
        /\ UNCHANGED <<second, left>>
        /\ IF r.ok THEN Tether!NextCommand(r.n)
           ELSE cmd' = Tether!Idle /\ UNCHANGED <<net, tet, sent, query>>
    BY <1>4 DEF Tether!TakeAnswer, Tether!Ours, Tether!Raises
  <2>2. /\ r \in Elems(ready) /\ r \in Reply /\ ready' \in Seq(Reply)
        /\ Elems(ready') \subseteq Elems(ready) /\ cmd \in Command
    BY <2>1, ElemsOf DEF TetherIInv, TetherTypeOK
  <2> HIDE DEF r
  <2>3. r.n \in Nat \ {0} /\ cmd.type \in Kinds
    BY <2>2 DEF Reply, Command
  <2>4. <<r.id, r.n>> \in Tags /\ <<cmd.id, cmd.n>> \in Tags
    BY <2>1, <2>2 DEF Tags
  <2>5. second \/ answered'.cmd = answered'.answer
    BY <2>1, <2>4 DEF TetherIInv, Numbered
  <2>6. CASE cmd' = Tether!Idle /\ UNCHANGED <<tet, sent, query, net>>
    <3>1. Tags' \subseteq Tags
      BY <2>2, <2>6 DEF Tags
    <3>2. TetherTypeOK' /\ Numbered'
      BY <2>1, <2>2, <2>6, <3>1, NumberedKept DEF TetherIInv, TetherTypeOK
    <3>3. Addressed'
      BY <2>6 DEF Addressed
    <3>4. Tether!AnswerIsOurs'
      BY <2>1, <2>5, <2>6 DEF TetherIInv, Tether!AnswerIsOurs
    <3> QED BY <3>2, <3>3, <3>4 DEF TetherIInv
  <2>7. CASE r.ok /\ cmd.type = "set" /\ ~(cmd' = Tether!Idle /\ UNCHANGED <<tet, sent, query, net>>)
    <3>1. /\ net' = [on |-> TRUE, mac |-> tet.mac] /\ tet' = [tet EXCEPT !.up = TRUE]
          /\ cmd' = Tether!Idle /\ UNCHANGED <<sent, query>>
      BY <2>1, <2>7 DEF Tether!NextCommand, Tether!Raises
    <3>2. /\ tet' \in [req : Nat, up : BOOLEAN, mac : Nat] /\ tet'.req = tet.req
          /\ net' \in [on : BOOLEAN, mac : Nat] /\ net'.on /\ net'.mac = tet.mac
      BY <3>1 DEF TetherIInv, TetherTypeOK
    <3>3. Tags' \subseteq Tags
      BY <2>2, <3>1 DEF Tags
    <3>4. TetherTypeOK' /\ Numbered'
      BY <2>1, <2>2, <3>1, <3>2, <3>3, NumberedKept DEF TetherIInv, TetherTypeOK
    <3>5. tet.mac # Tether!NoMac
      BY <2>1, <2>7 DEF TetherIInv, Addressed
    <3>6. Addressed'
      BY <3>1 DEF Addressed
    <3>7. Tether!AnswerIsOurs'
      BY <2>1, <2>5, <3>2, <3>5 DEF Tether!AnswerIsOurs
    <3> QED BY <3>4, <3>6, <3>7 DEF TetherIInv
  <2>8. CASE r.ok /\ cmd.type # "set"
    <3> DEFINE t == IF cmd.type = "query" THEN [tet EXCEPT !.mac = r.n] ELSE tet
    <3>1. Tether!SendCommand(t, Tether!After[cmd.type]) /\ UNCHANGED net
      BY <2>1, <2>8 DEF Tether!NextCommand
    <3>2. /\ t \in [req : Nat, up : BOOLEAN, mac : Nat] /\ t.req = tet.req /\ t.up = tet.up
          /\ cmd.type = "query" => t.mac # Tether!NoMac
      BY <2>3 DEF TetherIInv, TetherTypeOK, Tether!NoMac
    <3>3. Tether!After[cmd.type] \in Kinds /\ (Tether!After[cmd.type] = "set" => cmd.type = "query")
      BY <2>3, <2>8 DEF Kinds, Tether!After
    <3> HIDE DEF t
    <3> QED BY <2>1, <2>2, <2>5, <3>1, <3>2, <3>3, TetherSends
  <2> QED BY <2>1, <2>6, <2>7, <2>8
<1>5. CASE Tether!Deactivate
  <2>1. /\ tet' = [tet EXCEPT !.up = FALSE] /\ net' = [net EXCEPT !.on = FALSE] /\ left' = FALSE
        /\ UNCHANGED <<cmd, query, ready, sent, second, answered>>
    BY <1>5 DEF Tether!Deactivate
  <2>2. /\ tet' \in [req : Nat, up : BOOLEAN, mac : Nat] /\ ~tet'.up /\ tet'.req = tet.req
        /\ tet'.mac = tet.mac /\ net' \in [on : BOOLEAN, mac : Nat] /\ ~net'.on
    BY <2>1 DEF TetherIInv, TetherTypeOK
  <2>3. Tags' \subseteq Tags
    BY <2>1 DEF Tags
  <2>4. TetherTypeOK' /\ Numbered'
    BY <2>1, <2>2, <2>3, NumberedKept DEF TetherIInv, TetherTypeOK
  <2> QED BY <2>1, <2>2, <2>4 DEF TetherIInv, Addressed, Tether!AnswerIsOurs
<1>6. CASE Tether!PhoneGoes
  <2>1. /\ net' = [net EXCEPT !.on = FALSE] /\ left' = TRUE /\ query' = <<>> /\ ready' = <<>>
        /\ UNCHANGED <<tet, cmd, sent, second, answered>>
    BY <1>6 DEF Tether!PhoneGoes
  <2>2. net' \in [on : BOOLEAN, mac : Nat] /\ ~net'.on
    BY <2>1 DEF TetherIInv, TetherTypeOK
  <2>3. Tags' \subseteq Tags
    BY <2>1 DEF Tags, Elems
  <2>4. query' \in Seq(Question) /\ ready' \in Seq(Reply)
    BY <2>1
  <2>5. TetherTypeOK' /\ Numbered'
    BY <2>1, <2>2, <2>3, <2>4, NumberedKept DEF TetherIInv, TetherTypeOK
  <2> QED BY <2>1, <2>2, <2>5 DEF TetherIInv, Addressed, Tether!AnswerIsOurs
<1>7. CASE Tether!Remake
  <2>1. /\ cmd = Tether!Idle /\ tet' = Tether!Fresh /\ left' = FALSE
        /\ second' = (second \/ query # <<>> \/ ready # <<>>)
        /\ UNCHANGED <<cmd, query, ready, net, sent, answered>>
    BY <1>7 DEF Tether!Remake
  <2>2. TetherTypeOK'
    BY <2>1 DEF TetherIInv, TetherTypeOK, Tether!Fresh, Tether!NoMac
  <2>3. ASSUME ~second' PROVE Tags' = {}
    <3>1. query' = <<>> /\ ready' = <<>> /\ cmd' = Tether!Idle
      BY <2>1, <2>3 DEF TetherIInv, TetherTypeOK
    <3> QED BY <3>1 DEF Tags, Elems
  <2>4. Numbered'
    BY <2>3 DEF Numbered
  <2> QED BY <2>1, <2>2, <2>4 DEF TetherIInv, Addressed, Tether!AnswerIsOurs, Tether!Fresh
<1> QED BY <1>1, <1>2, <1>3, <1>4, <1>5, <1>6, <1>7 DEF Tether!Next

\* RndisTether: however late the phone answers, whatever is given up, refused or begun
\* again, a command of usb/host/net.py ends with its own answer.
THEOREM AnswersAreOurs == ClassesSpec => []AnswerIsOurs
<1>1. ClassesInit => TetherIInv
  BY TetherInit DEF ClassesInit
<1>2. TetherIInv /\ [ClassesNext]_allVars => TetherIInv'
  <2>1. TetherIInv /\ UNCHANGED tetherVars => TetherIInv'
    BY DEF tetherVars, TetherIInv, TetherTypeOK, Numbered, Addressed, Tags, Tether!AnswerIsOurs
  <2> QED BY <2>1, OneComponent, TetherNext
<1>3. TetherIInv => AnswerIsOurs
  BY DEF TetherIInv, AnswerIsOurs
<1> QED BY <1>1, <1>2, <1>3, PTL DEF ClassesSpec

-----------------------------------------------------------------------------
(* UvcCamera.                                                              *)

\* A CameraInterface's fields, and a sequence, of whatever values.
CamOf(S) == [alt : S, index : S, probe : S, pending : S, att : S]
IsCam(c) == \E S : c \in CamOf(S)
IsSeq(s) == \E S : s \in Seq(S)

\* A put adds one element behind those there are, a get takes the first.
LEMMA PutsAndGets ==
  ASSUME NEW s, IsSeq(s)
  PROVE  /\ \A x : /\ IsSeq(Append(s, x)) /\ DOMAIN Append(s, x) = 1 .. Len(s) + 1
                  /\ \A i \in DOMAIN Append(s, x) :
                       \/ Append(s, x)[i] = x
                       \/ i \in DOMAIN s /\ Append(s, x)[i] = s[i]
         /\ s # <<>> => /\ IsSeq(Tail(s))
                         /\ \A i \in DOMAIN Tail(s) : i + 1 \in DOMAIN s /\ Tail(s)[i] = s[i + 1]
<1>1. PICK S : s \in Seq(S)
  BY DEF IsSeq
<1>2. ASSUME NEW x
      PROVE  /\ IsSeq(Append(s, x)) /\ DOMAIN Append(s, x) = 1 .. Len(s) + 1
             /\ \A i \in DOMAIN Append(s, x) :
                  \/ Append(s, x)[i] = x
                  \/ i \in DOMAIN s /\ Append(s, x)[i] = s[i]
  <2>1. s \in Seq(S \cup {x})
    BY <1>1
  <2>2. Append(s, x) \in Seq(S \cup {x})
    BY <2>1
  <2> QED BY <2>1, <2>2 DEF IsSeq
<1>3. ASSUME s # <<>>
      PROVE  /\ IsSeq(Tail(s))
             /\ \A i \in DOMAIN Tail(s) : i + 1 \in DOMAIN s /\ Tail(s)[i] = s[i + 1]
  <2>1. Tail(s) \in Seq(S)
    BY <1>1, <1>3
  <2> QED BY <1>1, <1>3, <2>1 DEF IsSeq
<1> QED BY <1>2, <1>3

\* What a status stage leaves of a session: its alternate and what its endpoint reads;
\* and while it streams its mode.
LEMMA AckLeaves ==
  ASSUME NEW d, IsCam(d)
  PROVE  /\ IsCam(Ack(d)) /\ Ack(d).alt = d.alt /\ Ack(d).att = d.att
         /\ d.alt # 0 => Ack(d).index = d.index
<1>1. PICK S : d \in CamOf(S)
  BY DEF IsCam
<1>2. CASE d.pending = None
  BY <1>2 DEF Ack
<1>3. CASE d.pending # None
  <2> DEFINE pair == IF d.pending.pair \in Pairs THEN d.pending.pair ELSE First1
             e == [d EXCEPT !.pending = None, !.probe = pair]
             T == S \cup {None, pair}
  <2>1. e \in CamOf(T) /\ e.alt = d.alt /\ e.att = d.att /\ e.index = d.index
    BY <1>1 DEF CamOf
  <2>2. /\ [e EXCEPT !.index = pair] \in CamOf(T) /\ [e EXCEPT !.index = pair].alt = e.alt
        /\ [e EXCEPT !.index = pair].att = e.att
    <3> HIDE DEF e, pair
    <3>1. pair \in T
      OBVIOUS
    <3> HIDE DEF T
    <3> QED BY <2>1, <3>1 DEF CamOf
  <2>3. Ack(d) = IF d.pending.control = "commit" /\ d.alt = 0 THEN [e EXCEPT !.index = pair] ELSE e
    BY <1>3 DEF Ack, Choose
  <2> HIDE DEF pair, e, T
  <2> QED BY <2>1, <2>2, <2>3 DEF IsCam
<1> QED BY <1>2, <1>3

\* SET_CUR, answered or cut short, leaves as much.
LEMMA SetsLeave ==
  ASSUME NEW d, IsCam(d), NEW control, NEW pair
  PROVE  /\ IsCam(Pend(d, control, pair)) /\ Pend(d, control, pair).alt = d.alt
         /\ Pend(d, control, pair).att = d.att /\ Pend(d, control, pair).index = d.index
         /\ IsCam(SetCur(d, control, pair)) /\ SetCur(d, control, pair).alt = d.alt
         /\ SetCur(d, control, pair).att = d.att
         /\ d.alt # 0 => SetCur(d, control, pair).index = d.index
<1> DEFINE set == [is |-> "pending", control |-> control, pair |-> pair]
<1>1. PICK S : d \in CamOf(S)
  BY DEF IsCam
<1>2. Pend(d, control, pair) = [d EXCEPT !.pending = set]
  BY DEF Pend
<1> HIDE DEF set
<1>3. /\ Pend(d, control, pair) \in CamOf(S \cup {set}) /\ Pend(d, control, pair).alt = d.alt
      /\ Pend(d, control, pair).att = d.att /\ Pend(d, control, pair).index = d.index
  BY <1>1, <1>2 DEF CamOf
<1>4. IsCam(Pend(d, control, pair))
  BY <1>3 DEF IsCam
<1> QED BY <1>3, <1>4, AckLeaves DEF SetCur

\* The frame its program has, of whatever values.
FrameOf(S) == [is : S, n : S, size : S, len : S]
IsFrame(f) == f = None \/ \E S : f \in FrameOf(S)

\* How far the program is with a frame is all a step of its write changes of it.
LEMMA FrameGoesOn ==
  ASSUME NEW f, IsFrame(f), f # None, NEW at
  PROVE  LET g == [f EXCEPT !.is = at]
         IN IsFrame(g) /\ g.is = at /\ g.len = f.len
<1>1. PICK S : f \in FrameOf(S)
  BY DEF IsFrame
<1>2. [f EXCEPT !.is = at] \in FrameOf(S \cup {at})
  BY <1>1 DEF FrameOf
<1> QED BY <1>1, <1>2 DEF IsFrame, FrameOf

\* A streaming camera's endpoint reads frames of its mode; a frame through its checks is
\* of it too unless a session began since, and then the ring is still empty.
InTime == held # None /\ held.is = "checked" /\ format = "yuy2" /\ cam.alt # 0
SessionIInv ==
  /\ IsCam(cam) /\ IsSeq(ring) /\ IsFrame(held)
  /\ cam.alt # 0 => cam.att = FrameBytes(cam.index)
  /\ InTime => held.len = cam.att
  /\ held # None /\ held.is = "late" => ring = <<>>
  /\ WholeFrames

\* It holds before any session.
LEMMA SessionInit == ASSUME Init PROVE SessionIInv
<1>1. cam = NewCam /\ ring = <<>> /\ held = None
  BY DEF Init
<1>2. cam \in CamOf({0, First1, None}) /\ cam.alt = 0
  BY <1>1 DEF NewCam, CamOf
<1>3. ring \in Seq({})
  BY <1>1
<1> QED BY <1>1, <1>2, <1>3 DEF SessionIInv, InTime, IsCam, IsSeq, IsFrame, WholeFrames

\* What neither selects an alternate nor puts a frame leaves the session as it is.
LEMMA SessionKept ==
  ASSUME SessionIInv, IsCam(cam'), cam'.alt = cam.alt, cam'.att = cam.att,
         cam.alt # 0 => cam'.index = cam.index, UNCHANGED <<format, ring, cut>>,
         held' = held \/ held' = None \/ (IsFrame(held') /\ held'.is = "built")
  PROVE  SessionIInv'
<1>1. WholeFrames'
  BY DEF SessionIInv, WholeFrames
<1>2. cam'.alt # 0 => cam'.att = FrameBytes(cam.index)'
  BY DEF SessionIInv, FrameBytes, SizeOf
<1>3. IsFrame(held')
  BY DEF SessionIInv, IsFrame
<1> QED BY <1>1, <1>2, <1>3 DEF SessionIInv, InTime

\* SET_INTERFACE begins a session with an empty ring, or ends the one there was; a put
\* under way is late.
LEMMA SessionBegins ==
  ASSUME SessionIInv, NEW alt, SetAlt(alt), UNCHANGED format PROVE SessionIInv'
<1>1. PICK S : cam \in CamOf(S)
  BY DEF SessionIInv, IsCam
<1> DEFINE att == IF alt = 0 THEN 0 ELSE FrameBytes(cam.index)
<1>2. cam' = [cam EXCEPT !.alt = alt, !.att = att] /\ ring' = <<>> /\ held' = Overtaken
  BY DEF SetAlt, AltSet
<1>3. att = IF alt = 0 THEN 0 ELSE FrameBytes(cam.index)
  OBVIOUS
<1> HIDE DEF att
<1>4. /\ cam' \in CamOf(S \cup {alt, att}) /\ cam'.alt = alt /\ cam'.att = att
      /\ cam'.index = cam.index
  BY <1>1, <1>2 DEF CamOf
<1>5. cam'.alt # 0 => cam'.att = FrameBytes(cam.index)'
  BY <1>3, <1>4 DEF FrameBytes, SizeOf
<1>6. ring' \in Seq({})
  BY <1>2
<1>7. IsFrame(held') /\ ~InTime'
  <2>1. CASE held' = held /\ (held = None \/ format # "yuy2" \/ held.is # "checked")
    BY <2>1 DEF SessionIInv, InTime
  <2>2. CASE held # None /\ held' = [held EXCEPT !.is = "late"]
    <3>1. IsFrame(held') /\ held'.is = "late"
      BY <2>2, FrameGoesOn DEF SessionIInv
    <3> QED BY <3>1 DEF InTime
  <2> QED BY <1>2, <2>1, <2>2 DEF Overtaken
<1> QED BY <1>2, <1>4, <1>5, <1>6, <1>7 DEF SessionIInv, IsCam, IsSeq, WholeFrames

\* A put of a frame of the length the endpoint reads; or of another, first in the session.
LEMMA SessionPut ==
  ASSUME SessionIInv, held # None, Put(held), UNCHANGED <<format, cam>>,
         held.is = "late" \/ (format = "yuy2" => held.is = "checked")
  PROVE  SessionIInv'
<1> DEFINE piece == [n |-> held.n, size |-> held.size, len |-> held.len]
<1>1. held' = None /\ (ring' = ring \/ ring' = Append(ring, piece))
  BY DEF Put
<1>2. /\ ~cut' => ~cut
      /\ ~cut' /\ cam.alt # 0 /\ format = "yuy2" /\ held.is = "late" => held.len = cam.att
  BY DEF Put, Breaks
<1>3. piece.len = held.len
  OBVIOUS
<1> HIDE DEF piece
<1>4. IsSeq(ring')
  BY <1>1, PutsAndGets DEF SessionIInv
<1>5. WholeFrames'
  <2> SUFFICES ASSUME cam.alt # 0, format = "yuy2", NEW i \in DOMAIN ring', i > 1 \/ ~cut'
               PROVE  ring'[i].len = cam.att
    BY DEF WholeFrames
  <2>1. CASE i \in DOMAIN ring /\ ring'[i] = ring[i]
    BY <1>2, <2>1 DEF SessionIInv, WholeFrames
  <2>2. CASE ring' = Append(ring, piece) /\ ring'[i] = piece
    <3>1. CASE held.is = "late"
      <4>1. ring = <<>>
        BY <3>1 DEF SessionIInv
      <4>2. i \in 1 .. 1
        BY <2>2, <4>1
      <4>3. ~cut'
        BY <4>2
      <4> QED BY <1>2, <1>3, <2>2, <3>1, <4>3
    <3>2. CASE held.is = "checked"
      BY <1>3, <2>2, <3>2 DEF SessionIInv, InTime
    <3> QED BY <3>1, <3>2
  <2> QED BY <1>1, <2>1, <2>2, PutsAndGets DEF SessionIInv
<1>6. cam'.alt # 0 => cam'.att = FrameBytes(cam.index)'
  BY DEF SessionIInv, FrameBytes, SizeOf
<1> QED BY <1>1, <1>4, <1>5, <1>6 DEF SessionIInv, InTime, IsFrame

\* What is left when the endpoint has taken of a ring: behind the first piece, what was
\* behind it.
LEMMA RestOf ==
  ASSUME NEW s, IsSeq(s), s # <<>>, NEW taken
  PROVE  /\ IsSeq(Rest(s, taken))
         /\ \A i \in DOMAIN Rest(s, taken) :
              i > 1 => \E j \in DOMAIN s : j > 1 /\ Rest(s, taken)[i] = s[j]
<1> DEFINE cutoff == Ends(s[1], s[1].len - taken)
<1>1. PICK S : s \in Seq(S)
  BY DEF IsSeq
<1>2. CASE Rest(s, taken) = Tail(s)
  <2>1. /\ IsSeq(Tail(s))
        /\ \A i \in DOMAIN Tail(s) : i \in Nat /\ i + 1 \in DOMAIN s /\ Tail(s)[i] = s[i + 1]
    BY <1>1, PutsAndGets
  <2>2. \A i \in Nat : i > 1 => i + 1 > 1
    OBVIOUS
  <2> QED BY <1>2, <2>1, <2>2
<1>3. CASE Rest(s, taken) = [s EXCEPT ![1] = cutoff]
  <2> HIDE DEF cutoff
  <2>1. [s EXCEPT ![1] = cutoff] \in Seq(S \cup {cutoff})
    BY <1>1
  <2>2. \A i \in DOMAIN s : i > 1 => [s EXCEPT ![1] = cutoff][i] = s[i]
    BY <1>1
  <2>3. DOMAIN [s EXCEPT ![1] = cutoff] = DOMAIN s
    BY <1>1
  <2> QED BY <1>3, <2>1, <2>2, <2>3 DEF IsSeq
<1> QED BY <1>2, <1>3 DEF Rest

\* What the endpoint takes: a whole frame, or of one that was put late.
LEMMA SessionCross == ASSUME SessionIInv, Cross PROVE SessionIInv'
<1>1. ring # <<>> /\ UNCHANGED <<format, cam, held, cut>>
  BY DEF Cross
<1>2. \/ ring' = Tail(ring)
      \/ /\ format = "yuy2" => ring[1].len # cam.att
         /\ \E taken : \/ ring' = Rest(ring, taken)
                       \/ Len(ring) > 1 /\ ring' = Rest(Tail(ring), taken)
  BY DEF Cross
<1>3. /\ IsSeq(Tail(ring))
      /\ \A i \in DOMAIN Tail(ring) : i + 1 \in DOMAIN ring /\ Tail(ring)[i] = ring[i + 1]
  BY <1>1, PutsAndGets DEF SessionIInv
<1>4. \A i \in DOMAIN Tail(ring) : i + 1 > 1 /\ \E j \in DOMAIN ring : j > 1 /\ Tail(ring)[i] = ring[j]
  <2>1. \A i \in DOMAIN Tail(ring) : i \in Nat /\ i > 0
    BY <1>3 DEF IsSeq
  <2>2. \A i \in Nat : i > 0 => i + 1 > 1
    OBVIOUS
  <2> QED BY <1>3, <2>1, <2>2
<1>5. /\ IsSeq(ring')
      /\ \A i \in DOMAIN ring' :
           i > 1 \/ ring' = Tail(ring) => \E j \in DOMAIN ring : j > 1 /\ ring'[i] = ring[j]
  <2>1. CASE ring' = Tail(ring)
    BY <1>3, <1>4, <2>1
  <2>2. ASSUME NEW taken, ring' = Rest(ring, taken), ring' # Tail(ring)
        PROVE  /\ IsSeq(ring')
               /\ \A i \in DOMAIN ring' : i > 1 => \E j \in DOMAIN ring : j > 1 /\ ring'[i] = ring[j]
    BY <1>1, <2>2, RestOf DEF SessionIInv
  <2>3. ASSUME NEW taken, Len(ring) > 1, ring' = Rest(Tail(ring), taken)
        PROVE  /\ IsSeq(ring')
               /\ \A i \in DOMAIN ring' : i > 1 => \E j \in DOMAIN ring : j > 1 /\ ring'[i] = ring[j]
    <3>1. Tail(ring) # <<>>
      <4>1. PICK S : ring \in Seq(S)
        BY DEF SessionIInv, IsSeq
      <4>2. Tail(ring) \in Seq(S) /\ Len(Tail(ring)) = Len(ring) - 1
        BY <1>1, <4>1
      <4>3. Len(ring) \in Nat /\ Len(ring) > 1
        BY <2>3, <4>1
      <4>4. \A n \in Nat : n > 1 => n - 1 # 0
        OBVIOUS
      <4>5. Len(Tail(ring)) # 0
        BY <4>2, <4>3, <4>4, Zenon
      <4>6. Len(<<>>) = 0
        OBVIOUS
      <4> QED BY <4>5, <4>6, Zenon
    <3>2. /\ IsSeq(Rest(Tail(ring), taken))
          /\ \A i \in DOMAIN Rest(Tail(ring), taken) :
               i > 1 => \E j \in DOMAIN Tail(ring) :
                          j > 1 /\ Rest(Tail(ring), taken)[i] = Tail(ring)[j]
      <4> DEFINE t == Tail(ring)
      <4>1. IsSeq(t) /\ t # <<>>
        BY <1>3, <3>1
      <4> HIDE DEF t
      <4>2. /\ IsSeq(Rest(t, taken))
            /\ \A i \in DOMAIN Rest(t, taken) :
                 i > 1 => \E j \in DOMAIN t : j > 1 /\ Rest(t, taken)[i] = t[j]
        BY <4>1, RestOf
      <4> QED BY <4>2 DEF t
    <3> QED BY <1>4, <2>3, <3>2
  <2> QED BY <1>2, <2>1, <2>2, <2>3
<1>6. WholeFrames'
  <2> SUFFICES ASSUME cam.alt # 0, format = "yuy2", NEW i \in DOMAIN ring', i > 1 \/ ~cut
               PROVE  ring'[i].len = cam.att
    BY <1>1 DEF WholeFrames
  <2>1. \A j \in DOMAIN ring : j > 1 => ring[j].len = cam.att
    BY DEF SessionIInv, WholeFrames
  <2>2. CASE i > 1 \/ ring' = Tail(ring)
    BY <1>5, <2>1, <2>2
  <2>3. CASE ~cut /\ ring' # Tail(ring)
    <3>1. 1 \in DOMAIN ring
      BY <1>1 DEF SessionIInv, IsSeq
    <3>2. ring[1].len = cam.att
      BY <2>3, <3>1 DEF SessionIInv, WholeFrames
    <3> QED BY <1>2, <2>3, <3>2
  <2> QED BY <2>2, <2>3
<1>7. cam'.alt # 0 => cam'.att = FrameBytes(cam.index)'
  BY <1>1 DEF SessionIInv, FrameBytes, SizeOf
<1>8. ~(held # None /\ held.is = "late")
  BY <1>1 DEF SessionIInv
<1> QED BY <1>1, <1>5, <1>6, <1>7, <1>8 DEF SessionIInv, InTime

\* Every step of the camera, its program and either host keeps it so.
LEMMA SessionNext == ASSUME SessionIInv, Next PROVE SessionIInv'
<1>1. CASE Reset
  <2>1. PICK S : cam \in CamOf(S)
    BY DEF SessionIInv, IsCam
  <2>2. cam' \in CamOf(S \cup {0}) /\ cam'.alt = 0
    BY <1>1, <2>1 DEF Reset, CamOf
  <2> QED BY <1>1, <2>2 DEF Reset, SessionIInv, InTime, IsCam, WholeFrames
<1>2. CASE ComputerSets \/ ComputerAborts \/ ComputerGets \/ SetProbe \/ GetProbe \/ Commit
           \/ NegotiationFails
  <2>1. /\ UNCHANGED <<format, ring, held, cut>>
        /\ \/ cam' = cam \/ cam' = Ack(cam)
           \/ \E control, pair : cam' = SetCur(cam, control, pair) \/ cam' = Pend(cam, control, pair)
    BY <1>2 DEF ComputerSets, ComputerAborts, ComputerGets, SetProbe, GetProbe, Commit,
       NegotiationFails, SetCurCut, Get
  <2>2. /\ IsCam(cam') /\ cam'.alt = cam.alt /\ cam'.att = cam.att
        /\ cam.alt # 0 => cam'.index = cam.index
    BY <2>1, AckLeaves, SetsLeave DEF SessionIInv
  <2> QED BY <2>1, <2>2, SessionKept
<1>3. CASE ComputerSelects \/ Start \/ StartFails \/ Stop
  <2>1. /\ UNCHANGED format
        /\ UNCHANGED <<cam, ring, held, cut>> \/ \E alt : SetAlt(alt)
    BY <1>3 DEF ComputerSelects, Start, StartFails, Stop, Selects
  <2>2. CASE UNCHANGED <<cam, ring, held, cut>>
    BY <2>1, <2>2, SessionKept DEF SessionIInv
  <2> QED BY <2>1, <2>2, SessionBegins
<1>4. CASE Build
  <2>1. UNCHANGED <<format, cam, ring, cut>>
    BY <1>4 DEF Build
  <2>2. IsFrame(held') /\ held'.is = "built"
    <3>1. PICK len : held' = [is |-> "built", n |-> made + 1, size |-> SizeOf(cam.index), len |-> len]
      BY <1>4 DEF Build
    <3>2. held' \in FrameOf({"built", made + 1, SizeOf(cam.index), len})
      BY <3>1 DEF FrameOf
    <3> QED BY <3>1, <3>2 DEF IsFrame
  <2> QED BY <2>1, <2>2, SessionKept DEF SessionIInv
<1>5. CASE WriteFrame \/ WriteLength
  <2>1. /\ UNCHANGED <<format, cam, ring, cut>> /\ held # None
        /\ \/ held' = None
           \/ held' = [held EXCEPT !.is = "checked"] /\ (format = "yuy2" => held.len = FrameBytes(cam.index))
           \/ held' = [held EXCEPT !.is = "half"]
    BY <1>5 DEF WriteFrame, WriteLength, Fits
  <2>2. CASE held' = None
    BY <2>1, <2>2, SessionKept DEF SessionIInv
  <2>3. ASSUME NEW at \in {"checked", "half"}, held' = [held EXCEPT !.is = at],
               at = "checked" /\ format = "yuy2" => held.len = FrameBytes(cam.index)
        PROVE  SessionIInv'
    <3>1. IsFrame(held') /\ held'.is = at /\ held'.len = held.len
      BY <2>1, <2>3, FrameGoesOn DEF SessionIInv
    <3>2. WholeFrames' /\ (cam'.alt # 0 => cam'.att = FrameBytes(cam.index)')
      BY <2>1 DEF SessionIInv, WholeFrames, FrameBytes, SizeOf
    <3> QED BY <2>1, <2>3, <3>1, <3>2 DEF SessionIInv, InTime
  <2> QED BY <2>1, <2>2, <2>3
<1>6. CASE WriteChecked
  BY <1>6, SessionPut DEF WriteChecked
<1>7. CASE New \/ ShowTick
  BY <1>7, SessionKept DEF New, ShowTick, deviceVars, SessionIInv
<1> QED BY <1>1, <1>2, <1>3, <1>4, <1>5, <1>6, <1>7, SessionCross DEF Next

\* UvcCamera: whatever hosts ask for meanwhile, and wherever a callback comes in the
\* program's write, the endpoint of a streaming YUY2 camera reads whole frames of its
\* length; but for a session that began between a frame's check and its put, whose first
\* piece alone is of another.
THEOREM FramesAreWhole == ClassesSpec => []WholeFrames
<1>1. ClassesInit => SessionIInv
  BY SessionInit DEF ClassesInit
<1>2. SessionIInv /\ [ClassesNext]_allVars => SessionIInv'
  <2>1. SessionIInv /\ UNCHANGED vars => SessionIInv'
    BY DEF vars, SessionIInv, InTime, WholeFrames, FrameBytes, SizeOf
  <2> QED BY <2>1, OneComponent, SessionNext
<1>3. SessionIInv => WholeFrames
  BY DEF SessionIInv
<1> QED BY <1>1, <1>2, <1>3, PTL DEF ClassesSpec

-----------------------------------------------------------------------------
(* UacAudio: the volume.                                                   *)

\* A SpeakerInterface's fields, of whatever values; and what service() may be about to say.
CardOf(S) == [alt : S, mute : S, volume : S, pending : S, fb : S, att : S]
IsCard(c) == \E S : c \in CardOf(S)

\* SET_INTERFACE touches neither control.
LEMMA AltLeaves ==
  ASSUME NEW c, IsCard(c), NEW alt
  PROVE  LET e == Audio!SetAlt(c, alt)
         IN /\ IsCard(e) /\ e.mute = c.mute /\ e.volume = c.volume /\ e.alt = alt
            /\ alt # 0 => e.fb = Audio!Nominal /\ e.att = Audio!Feeds(Audio!Nominal)
            /\ alt = 0 => e.fb = c.fb
<1>1. PICK S : c \in CardOf(S)
  BY DEF IsCard
<1> DEFINE fb == IF alt = 0 THEN c.fb ELSE Audio!Nominal
           att == IF alt = 0 THEN Audio!None ELSE Audio!Feeds(Audio!Nominal)
           T == S \cup {alt, fb, att}
<1>2. Audio!SetAlt(c, alt) = [c EXCEPT !.alt = alt, !.fb = fb, !.att = att]
  BY <1>1 DEF Audio!SetAlt, CardOf
<1>3. /\ alt # 0 => fb = Audio!Nominal /\ att = Audio!Feeds(Audio!Nominal)
      /\ alt = 0 => fb = c.fb
  OBVIOUS
<1> HIDE DEF fb, att
<1>4. /\ Audio!SetAlt(c, alt) \in CardOf(T)
      /\ Audio!SetAlt(c, alt).mute = c.mute /\ Audio!SetAlt(c, alt).volume = c.volume
      /\ Audio!SetAlt(c, alt).alt = alt /\ Audio!SetAlt(c, alt).fb = fb
      /\ Audio!SetAlt(c, alt).att = att
  BY <1>1, <1>2 DEF CardOf
<1> QED BY <1>3, <1>4 DEF IsCard

\* A SET of the rate drops what was pending.
LEMMA ClockLeaves ==
  ASSUME NEW c, IsCard(c)
  PROVE  LET e == Audio!SetClockAck(c)
         IN /\ IsCard(e) /\ e.mute = c.mute /\ e.volume = c.volume /\ e.alt = c.alt
            /\ e.fb = c.fb /\ e.att = c.att
<1>1. PICK S : c \in CardOf(S)
  BY DEF IsCard
<1>2. Audio!SetClockAck(c) \in CardOf(S \cup {Audio!None})
  BY <1>1 DEF Audio!SetClockAck, CardOf
<1> QED BY <1>1, <1>2 DEF IsCard, Audio!SetClockAck, CardOf

\* A SET of a control that is cut short leaves both as they were; one whose data comes sets
\* the control it names.
LEMMA SetUpLeaves ==
  ASSUME IsCard(card), NEW control
  PROVE  LET e == Audio!SetUp(control)
         IN /\ IsCard(e) /\ e.mute = card.mute /\ e.volume = card.volume /\ e.alt = card.alt
            /\ e.fb = card.fb /\ e.att = card.att
            /\ e.pending = [is |-> "pending", control |-> control,
                            value |-> IF control = "mute" THEN FALSE ELSE 0]
<1>1. PICK S : card \in CardOf(S)
  BY DEF IsCard
<1> DEFINE set == [is |-> "pending", control |-> control,
                   value |-> IF control = "mute" THEN FALSE ELSE 0]
<1>2. Audio!SetUp(control) = [card EXCEPT !.pending = set]
  BY DEF Audio!SetUp
<1> HIDE DEF set
<1>3. Audio!SetUp(control) \in CardOf(S \cup {set})
  BY <1>1, <1>2 DEF CardOf
<1> QED BY <1>1, <1>2, <1>3 DEF IsCard, CardOf, set

\* A SET that arrives whole changes its own control, and nothing of the session.
LEMMA SetTakes ==
  ASSUME IsCard(card), NEW control \in {"mute", "volume"}, NEW v,
         card' = Audio!Take([Audio!SetUp(control) EXCEPT !.pending.value = v])
  PROVE  /\ IsCard(card') /\ card'.alt = card.alt /\ card'.fb = card.fb /\ card'.att = card.att
         /\ card'.mute = (IF control = "mute" THEN v ELSE card.mute)
         /\ card'.volume = (IF control = "volume" THEN v ELSE card.volume)
<1> DEFINE c == Audio!SetUp(control)  e == [c EXCEPT !.pending.value = v]
           set == [is |-> "pending", control |-> control, value |-> v]
<1>1. PICK S : c \in CardOf(S)
  BY SetUpLeaves DEF IsCard
<1>2. e = [c EXCEPT !.pending = [c.pending EXCEPT !.value = v]]
  OBVIOUS
<1>3. [c.pending EXCEPT !.value = v] = set
  <2> DEFINE zeros == IF control = "mute" THEN FALSE ELSE 0
             r == [is |-> "pending", control |-> control, value |-> zeros]
  <2>1. c.pending = r
    BY SetUpLeaves
  <2> HIDE DEF zeros
  <2>2. [r EXCEPT !.value = v] = set
    OBVIOUS
  <2> HIDE DEF r, set, c
  <2> QED BY <2>1, <2>2
<1>4. e = [c EXCEPT !.pending = set]
  BY <1>2, <1>3
<1>5. /\ c.mute = card.mute /\ c.volume = card.volume /\ c.alt = card.alt /\ c.fb = card.fb
      /\ c.att = card.att
  BY SetUpLeaves
<1>6. set.is = "pending" /\ set.control = control /\ set.value = v
  OBVIOUS
<1>7. card' = Audio!Take(e)
  OBVIOUS
<1> HIDE DEF c, e, set
<1>8. /\ e \in CardOf(S \cup {set}) /\ e.pending = set /\ e.mute = card.mute
      /\ e.volume = card.volume /\ e.alt = card.alt /\ e.fb = card.fb /\ e.att = card.att
  BY <1>1, <1>4, <1>5 DEF CardOf
<1>9. e.pending # Audio!None
  BY <1>6, <1>8 DEF Audio!None
<1> DEFINE mute == IF control = "mute" THEN v ELSE card.mute
           volume == IF control = "volume" THEN v ELSE card.volume
<1>10. card' = [e EXCEPT !.pending = Audio!None, !.mute = mute, !.volume = volume]
  BY <1>6, <1>7, <1>8, <1>9 DEF Audio!Take
<1> HIDE DEF mute, volume
<1>11. card' \in CardOf(S \cup {set, Audio!None, mute, volume})
  BY <1>8, <1>10 DEF CardOf
<1>12. /\ card'.alt = card.alt /\ card'.fb = card.fb /\ card'.att = card.att
       /\ card'.mute = mute /\ card'.volume = volume
  BY <1>8, <1>10 DEF CardOf
<1> QED BY <1>11, <1>12 DEF IsCard, mute, volume

\* The controls have what was set last, and what service() is about to say is a request of
\* the feedback endpoint, which says what service() last worked out.
CardIInv ==
  /\ IsCard(card) /\ setting \in [mute : BOOLEAN, volume : {0, -10}]
  /\ Audio!VolumeTrue /\ Audio!FeedbackTrue
  /\ svc # Audio!None => svc = Audio!Feeds(svc.value) /\ due
  /\ due \in BOOLEAN

\* It holds of a card just made.
LEMMA CardInit == ASSUME Audio!Init PROVE CardIInv
<1>1. /\ card = Audio!NewCard /\ svc = Audio!None /\ due = FALSE
      /\ setting = [mute |-> FALSE, volume |-> 0]
  BY DEF Audio!Init
<1>2. /\ card \in CardOf({0, FALSE, Audio!None, Audio!Nominal}) /\ card.alt = 0
      /\ card.mute = FALSE /\ card.volume = 0
  BY <1>1 DEF Audio!NewCard, CardOf
<1> QED BY <1>1, <1>2 DEF CardIInv, IsCard, Audio!VolumeTrue, Audio!FeedbackTrue

\* Steps that leave the controls, and begin a session with the feedback anew or leave it.
LEMMA CardKept ==
  ASSUME CardIInv, IsCard(card'), card'.mute = card.mute, card'.volume = card.volume,
         \/ card'.alt = 0
         \/ card'.alt = card.alt /\ card'.att = card.att /\ card'.fb = card.fb
         \/ card'.att = Audio!Feeds(Audio!Nominal) /\ card'.fb = Audio!Nominal,
         UNCHANGED <<setting, due, svc>>
  PROVE  CardIInv'
BY DEF CardIInv, Audio!VolumeTrue, Audio!FeedbackTrue, Audio!Feeds

\* Every step of the card, its two ends and the computer keeps it so.
LEMMA CardNext == ASSUME CardIInv, Audio!Next PROVE CardIInv'
<1>1. CASE Audio!SetVolume
  <2>1. PICK control \in {"mute", "volume"}, v \in BOOLEAN \cup {0, -10} :
          /\ v \in Audio!Values(control)
          /\ card' = Audio!Take([Audio!SetUp(control) EXCEPT !.pending.value = v])
          /\ setting' = [setting EXCEPT ![control] = v]
    BY <1>1 DEF Audio!SetVolume, Audio!Values
  <2>2. /\ IsCard(card') /\ card'.alt = card.alt /\ card'.fb = card.fb /\ card'.att = card.att
        /\ card'.mute = (IF control = "mute" THEN v ELSE card.mute)
        /\ card'.volume = (IF control = "volume" THEN v ELSE card.volume)
    BY <2>1, SetTakes DEF CardIInv
  <2>3. /\ setting' \in [mute : BOOLEAN, volume : {0, -10}]
        /\ setting'.mute = (IF control = "mute" THEN v ELSE setting.mute)
        /\ setting'.volume = (IF control = "volume" THEN v ELSE setting.volume)
    <3>1. CASE control = "mute"
      BY <2>1, <3>1 DEF CardIInv, Audio!Values
    <3>2. CASE control = "volume"
      BY <2>1, <3>2 DEF CardIInv, Audio!Values
    <3> QED BY <3>1, <3>2
  <2>4. UNCHANGED <<svc, due>>
    BY <1>1 DEF Audio!SetVolume, Audio!ringVars
  <2> QED BY <2>2, <2>3, <2>4 DEF CardIInv, Audio!VolumeTrue, Audio!FeedbackTrue, Audio!Feeds
<1>2. CASE Audio!SetVolumeCut
  <2>1. /\ \E control \in {"mute", "volume"} : card' = Audio!SetUp(control)
        /\ UNCHANGED <<setting, due, svc>>
    BY <1>2 DEF Audio!SetVolumeCut, Audio!ringVars
  <2> QED BY <2>1, SetUpLeaves, CardKept DEF CardIInv
<1>3. CASE Audio!GetVolume \/ Audio!New
  <2>1. UNCHANGED <<card, setting, due, svc>>
    BY <1>3 DEF Audio!GetVolume, Audio!GetAck, Audio!New, Audio!ringVars
  <2> QED BY <2>1, CardKept DEF CardIInv
<1>4. CASE Audio!Reset
  <2>1. card' = [card EXCEPT !.alt = 0] /\ UNCHANGED <<setting, due, svc>>
    BY <1>4 DEF Audio!Reset
  <2>2. PICK S : card \in CardOf(S)
    BY DEF CardIInv, IsCard
  <2>3. card' \in CardOf(S \cup {0}) /\ card'.alt = 0 /\ card'.mute = card.mute
        /\ card'.volume = card.volume
    BY <2>1, <2>2 DEF CardOf
  <2>4. IsCard(card')
    BY <2>3 DEF IsCard
  <2> QED BY <2>1, <2>3, <2>4, CardKept
<1>5. CASE Audio!Flow
  <2>1. UNCHANGED <<card, setting, svc>> /\ due' = TRUE
    BY <1>5 DEF Audio!Flow
  <2> QED BY <2>1 DEF CardIInv, Audio!VolumeTrue, Audio!FeedbackTrue, Audio!Feeds
<1>6. CASE Audio!ServiceReads
  <2>1. /\ UNCHANGED <<card, setting>> /\ due
        /\ \/ due' = FALSE /\ svc = Audio!None /\ svc' = svc
           \/ due' = due /\ svc' = Audio!Feeds(Audio!Wanted(level))
    BY <1>6 DEF Audio!ServiceReads
  <2>2. due' \in BOOLEAN /\ (svc' # Audio!None => due')
    BY <2>1 DEF CardIInv
  <2>3. svc' # Audio!None => svc' = Audio!Feeds(svc'.value)
    <3>1. \A v : Audio!Feeds(v).value = v
      BY DEF Audio!Feeds
    <3>2. svc' = Audio!None \/ svc' = Audio!Feeds(Audio!Wanted(level))
      BY <2>1
    <3> QED BY <3>1, <3>2
  <2> QED BY <2>1, <2>2, <2>3 DEF CardIInv, Audio!VolumeTrue, Audio!FeedbackTrue, Audio!Feeds
<1>7. CASE Audio!ServiceSets
  <2>1. /\ svc # Audio!None /\ svc' = Audio!None /\ due' = FALSE /\ UNCHANGED setting
        /\ card' = IF svc.value = card.fb THEN card
                   ELSE [card EXCEPT !.fb = svc.value, !.att = svc]
    BY <1>7 DEF Audio!ServiceSets
  <2>2. CASE card' = card
    BY <2>1, <2>2 DEF CardIInv, Audio!VolumeTrue, Audio!FeedbackTrue, Audio!Feeds
  <2>3. CASE card' = [card EXCEPT !.fb = svc.value, !.att = svc]
    <3>1. PICK S : card \in CardOf(S)
      BY DEF CardIInv, IsCard
    <3>2. card' \in CardOf(S \cup {svc.value, svc}) /\ card'.mute = card.mute
          /\ card'.volume = card.volume /\ card'.fb = svc.value /\ card'.att = svc
      BY <2>3, <3>1 DEF CardOf
    <3> QED BY <2>1, <3>2 DEF CardIInv, IsCard, Audio!VolumeTrue, Audio!FeedbackTrue, Audio!Feeds
  <2> QED BY <2>1, <2>2, <2>3
<1>8. ASSUME NEW d \in Audio!Dirs, Audio!Start(d) PROVE CardIInv'
  <2> DEFINE c == Audio!SetClockAck(Audio!SetAlt(card, stream[d].pick.s.alt))
  <2>1. /\ card' = card \/ card' = c \/ card' = Audio!SetAlt(c, 0)
        /\ UNCHANGED <<setting, due, svc>>
    BY <1>8, Zenon DEF Audio!Start
  <2>2. /\ IsCard(c) /\ c.mute = card.mute /\ c.volume = card.volume
        /\ c.alt = 0 \/ (c.att = Audio!Feeds(Audio!Nominal) /\ c.fb = Audio!Nominal)
    <3> DEFINE alt == stream[d].pick.s.alt  e == Audio!SetAlt(card, alt)
    <3>1. /\ IsCard(e) /\ e.mute = card.mute /\ e.volume = card.volume /\ e.alt = alt
          /\ alt # 0 => e.fb = Audio!Nominal /\ e.att = Audio!Feeds(Audio!Nominal)
      BY AltLeaves DEF CardIInv
    <3>2. c = Audio!SetClockAck(e)
      OBVIOUS
    <3> HIDE DEF c, e, alt
    <3> QED BY <3>1, <3>2, ClockLeaves
  <2> HIDE DEF c
  <2> QED BY <2>1, <2>2, AltLeaves, CardKept DEF CardIInv
<1>9. ASSUME NEW d \in Audio!Dirs, Audio!StartFails(d) \/ Audio!Stop(d) PROVE CardIInv'
  <2>1. /\ card' = card \/ (\E alt : card' = Audio!SetAlt(card, alt))
        /\ UNCHANGED <<setting, due, svc>>
    BY <1>9 DEF Audio!StartFails, Audio!Stop, Audio!Selects
  <2> QED BY <2>1, AltLeaves, CardKept DEF CardIInv
<1> QED BY <1>1, <1>2, <1>3, <1>4, <1>5, <1>6, <1>7, <1>8, <1>9 DEF Audio!Next

\* UacAudio: whatever the computer begins and gives up, and whatever service() and the
\* sessions do meanwhile, the mute and the volume of SpeakerInterface are those set last.
THEOREM VolumeIsTrue == ClassesSpec => []VolumeTrue
<1>1. ClassesInit => CardIInv
  BY CardInit DEF ClassesInit
<1>2. CardIInv /\ [ClassesNext]_allVars => CardIInv'
  <2>1. CardIInv /\ UNCHANGED audioVars => CardIInv'
    BY DEF audioVars, CardIInv, Audio!VolumeTrue, Audio!FeedbackTrue, Audio!Feeds
  <2> QED BY <2>1, OneComponent, CardNext
<1>3. CardIInv => VolumeTrue
  BY DEF CardIInv, VolumeTrue
<1> QED BY <1>1, <1>2, <1>3, PTL DEF ClassesSpec

-----------------------------------------------------------------------------
(* UacAudio: the pace.                                                     *)

\* A thousandth of both sides.
LEMMA Thousandths ==
  ASSUME NEW T \in Nat, NEW e \in Int, NEW q \in Int,
         (1000 * T) * q <= 1000 * e * 8, 1000 * e * 8 < (1000 * T) * q + 1000 * T
  PROVE  T * q <= 8 * e /\ 8 * e < T * q + T
<1>1. (1000 * T) * q = 1000 * (T * q) /\ T * q \in Int
  OBVIOUS
<1> QED BY <1>1

\* What service() asks for follows the level: an eighth of the ring is a thousandth of the
\* rate, rounded down.
LEMMA StepBounds ==
  ASSUME NEW T \in Nat \ {0}, NEW e \in Int, NEW q, q = (1000 * e * 8) \div (1000 * T)
  PROVE  q \in Int /\ T * q <= 8 * e /\ 8 * e < T * q + T
<1> DEFINE a == 1000 * e * 8  b == 1000 * T
<1>1. a \in Int /\ b \in Nat \ {0}
  OBVIOUS
<1> HIDE DEF a, b
<1>2. q \in Int /\ b * q <= a /\ a < b * q + b
  <2>1. q = a \div b
    BY DEF a, b
  <2> QED BY <1>1, <2>1, SMTT(30)
<1> USE DEF a, b
<1>3. /\ q \in Int /\ T \in Nat
      /\ (1000 * T) * q <= 1000 * e * 8 /\ 1000 * e * 8 < (1000 * T) * q + 1000 * T
  BY <1>2
<1> QED BY <1>3, Thousandths

\* A product with a natural number keeps the order.
LEMMA TimesKeeps == ASSUME NEW T \in Nat, NEW a \in Int, NEW b \in Int, a <= b PROVE T * a <= T * b
  OBVIOUS

\* A period that a step of q corrects, with the clocks d apart, leaves the ring as near to
\* its target as drift and rounding allow, and so within it.
LEMMA PeriodHolds ==
  ASSUME NEW T \in Nat, T >= 8, NEW D \in Nat, D * (T + 8) < 8 * T,
         NEW e \in Int, -(D * (T + 8)) <= 8 * e, 8 * e <= D * (T + 8),
         NEW q \in Int, T * q <= 8 * e, 8 * e < T * q + T,
         NEW d \in Int, -D <= d, d <= D
  PROVE  /\ -10 <= q /\ q <= 10
         /\ -(D * (T + 8)) <= 8 * (e - q - d) /\ 8 * (e - q - d) <= D * (T + 8)
<1>1. D * (T + 8) = T * D + 8 * D /\ T * D \in Int /\ T * D >= 0
  OBVIOUS
<1>2. T * q \in Int
  OBVIOUS
<1>3. q < 8
  <2>1. SUFFICES ASSUME 8 <= q PROVE FALSE
    OBVIOUS
  <2>2. T * 8 <= T * q
    BY <2>1, TimesKeeps
  <2> QED BY <2>2, <1>2
<1>4. -9 <= q
  <2>1. SUFFICES ASSUME q <= -10 PROVE FALSE
    OBVIOUS
  <2>2. T * q <= T * (-10)
    BY <2>1, TimesKeeps
  <2> QED BY <2>2, <1>1, <1>2
<1>5. CASE e >= 0
  <2>1. q >= 0
    <3>1. SUFFICES ASSUME q <= -1 PROVE FALSE
      OBVIOUS
    <3>2. T * q <= T * (-1)
      BY <3>1, TimesKeeps
    <3> QED BY <3>2, <1>2, <1>5
  <2>2. q <= e
    <3>1. SUFFICES ASSUME e + 1 <= q PROVE FALSE
      OBVIOUS
    <3>2. T * (e + 1) <= T * q /\ 8 * (e + 1) <= T * (e + 1)
      BY <3>1, <1>5, TimesKeeps
    <3> QED BY <3>2, <1>2
  <2>3. CASE q >= D
    BY <2>1, <2>2, <2>3, <1>1
  <2>4. CASE q + 1 <= D
    <3>1. T * (q + 1) <= T * D /\ T * (q + 1) = T * q + T
      BY <2>4, TimesKeeps
    <3> QED BY <2>1, <2>2, <3>1, <1>1, <1>2
  <2> QED BY <1>3, <1>4, <2>3, <2>4
<1>6. CASE e < 0
  <2>1. q <= -1
    <3>1. SUFFICES ASSUME 0 <= q PROVE FALSE
      OBVIOUS
    <3>2. T * 0 <= T * q
      BY <3>1, TimesKeeps
    <3> QED BY <3>2, <1>2, <1>6
  <2>2. e <= q
    <3>1. SUFFICES ASSUME q + 1 <= e PROVE FALSE
      OBVIOUS
    <3>2. T * (q + 1) <= T * e /\ T * (q + 1) = T * q + T
      BY <3>1, TimesKeeps
    <3>3. T * e <= 8 * e
      <4>1. (-e) * 8 <= (-e) * T
        BY <1>6, TimesKeeps
      <4> QED BY <4>1
    <3> QED BY <3>2, <3>3, <1>2
  <2>3. CASE q <= -D
    BY <2>1, <2>2, <2>3, <1>1
  <2>4. CASE -D <= q - 1
    <3>1. T * (-D) <= T * (q - 1) /\ T * (-D) = -(T * D) /\ T * (q - 1) = T * q - T
      BY <2>4, TimesKeeps
    <3> QED BY <2>1, <2>2, <3>1, <1>1, <1>2
  <2> QED BY <1>3, <1>4, <2>3, <2>4
<1> QED BY <1>3, <1>4, <1>5, <1>6

\* How far the ring may be from its target, in eighths; what drift that bears.
Reach == Drift * (Target + 8)
SmallDrift == Target >= 8 /\ Reach < 8 * Target

\* Once primed a session lasts, with the ring within reach of its target; what service()
\* says next, or has just said, is of the ring's level now.
RingIInv ==
  /\ level \in Int /\ primed \in BOOLEAN /\ card.fb \in Int
  /\ svc # Audio!None => svc.value \in Int
  /\ primed =>
       /\ card.alt # 0
       /\ -Reach <= 8 * (level - Target) /\ 8 * (level - Target) <= Reach
       /\ svc # Audio!None => svc.value = Audio!Wanted(level)
       /\ ~due => card.fb = Audio!Wanted(level)

\* The reach is short of the ring's ends.
LEMMA ReachIsInside == ASSUME SmallDrift, RingIInv PROVE Audio!RingHolds
  BY ConstantsAssumption DEF Audio!AudioAssumption, SmallDrift, RingIInv, Audio!RingHolds, Reach

\* What service() works out is a number, and within a hundredth not clamped.
LEMMA WantedOf ==
  ASSUME NEW l \in Int
  PROVE  /\ Audio!Step(l - Target) \in Int /\ Audio!Wanted(l) \in Int
         /\ -10 <= Audio!Step(l - Target) /\ Audio!Step(l - Target) <= 10
              => Audio!Wanted(l) = 1000 - Audio!Step(l - Target)
<1> DEFINE q == Audio!Step(l - Target)
<1>1. q \in Int
  BY ConstantsAssumption, StepBounds DEF Audio!AudioAssumption, Audio!Step, Audio!Nominal
<1>2. Audio!Wanted(l) = Audio!Clamp(1000 - q)
  BY DEF Audio!Wanted, Audio!Nominal
<1> HIDE DEF q
<1>3. 1000 \div 100 = 10
  OBVIOUS
<1>4. /\ Audio!Clamp(1000 - q) \in Int
      /\ -10 <= q /\ q <= 10 => Audio!Clamp(1000 - q) = 1000 - q
  BY <1>1, <1>3 DEF Audio!Clamp, Audio!Nominal
<1> QED BY <1>1, <1>2, <1>4 DEF q

\* It holds of an empty ring.
LEMMA RingInit == ASSUME Audio!Init PROVE RingIInv
<1>1. level = 0 /\ primed = FALSE /\ svc = Audio!None
  BY DEF Audio!Init
<1>2. card.fb = 1000
  BY DEF Audio!Init, Audio!NewCard, Audio!Nominal
<1>3. level \in Int /\ card.fb \in Int
  BY <1>1, <1>2
<1>4. primed \in BOOLEAN /\ ~primed
  BY <1>1, Zenon
<1> QED BY <1>1, <1>3, <1>4, Zenon DEF RingIInv

\* Steps of the controls leave the pace alone; a session that ends or begins unprimes.
LEMMA RingKept ==
  ASSUME RingIInv, card'.fb \in Int, UNCHANGED <<level, due, svc>>,
         \/ primed' = FALSE
         \/ primed' = primed /\ card'.alt = card.alt /\ card'.fb = card.fb
  PROVE  RingIInv'
<1>1. Audio!Wanted(level)' = Audio!Wanted(level)
  BY DEF Audio!Wanted, Audio!Step, Audio!Clamp
<1>2. CASE primed' = FALSE
  BY <1>2 DEF RingIInv
<1>3. CASE primed' = primed /\ card'.alt = card.alt /\ card'.fb = card.fb
  BY <1>1, <1>3 DEF RingIInv, Reach
<1> QED BY <1>2, <1>3

\* Every step keeps the ring within its reach.
LEMMA RingNext == ASSUME SmallDrift, CardIInv, RingIInv, Audio!Next PROVE RingIInv'
<1>1. CASE Audio!SetVolume
  <2>1. PICK control \in {"mute", "volume"}, v \in BOOLEAN \cup {0, -10} :
          card' = Audio!Take([Audio!SetUp(control) EXCEPT !.pending.value = v])
    BY <1>1 DEF Audio!SetVolume, Audio!Values
  <2>2. UNCHANGED <<level, primed, due, svc>>
    BY <1>1 DEF Audio!SetVolume, Audio!ringVars
  <2> QED BY <2>1, <2>2, SetTakes, RingKept DEF CardIInv, RingIInv
<1>2. CASE Audio!SetVolumeCut
  <2>1. /\ \E control \in {"mute", "volume"} : card' = Audio!SetUp(control)
        /\ UNCHANGED <<level, primed, due, svc>>
    BY <1>2 DEF Audio!SetVolumeCut, Audio!ringVars
  <2> QED BY <2>1, SetUpLeaves, RingKept DEF CardIInv, RingIInv
<1>3. CASE Audio!GetVolume \/ Audio!New
  <2>1. UNCHANGED <<card, level, primed, due, svc>>
    BY <1>3 DEF Audio!GetVolume, Audio!GetAck, Audio!New, Audio!ringVars
  <2> QED BY <2>1, RingKept DEF RingIInv
<1>4. CASE Audio!Reset
  <2>1. card' = [card EXCEPT !.alt = 0] /\ primed' = FALSE /\ UNCHANGED <<level, due, svc>>
    BY <1>4 DEF Audio!Reset
  <2>2. PICK S : card \in CardOf(S)
    BY DEF CardIInv, IsCard
  <2>3. card'.fb = card.fb
    BY <2>1, <2>2 DEF CardOf
  <2> QED BY <2>1, <2>3, RingKept DEF RingIInv
<1>5. CASE Audio!Flow
  <2>1. PICK d \in {-Drift, 0, Drift} :
          LET sum == level + card.att.value - (Audio!Nominal + d)
          IN level' = IF sum < 0 THEN 0 ELSE IF sum > 2 * Target THEN 2 * Target ELSE sum
    BY <1>5 DEF Audio!Flow
  <2>2. /\ card.alt # 0 /\ ~due /\ due' = TRUE /\ primed' = (primed \/ level' = Target)
        /\ UNCHANGED <<card, svc>>
    BY <1>5 DEF Audio!Flow
  <2>3. card.att.value = card.fb
    BY <2>2 DEF CardIInv, Audio!FeedbackTrue, Audio!Feeds
  <2>4. svc = Audio!None
    BY <2>2 DEF CardIInv
  <2>5. /\ d \in Int /\ -Drift <= d /\ d <= Drift /\ Drift \in Nat /\ Target \in Nat \ {0}
        /\ level \in Int /\ card.fb \in Int
    BY ConstantsAssumption DEF Audio!AudioAssumption, RingIInv
  <2> DEFINE sum == level + card.fb - (1000 + d)
  <2>6. level' = IF sum < 0 THEN 0 ELSE IF sum > 2 * Target THEN 2 * Target ELSE sum
    BY <2>1, <2>3 DEF Audio!Nominal
  <2>7. level' \in Int
    BY <2>5, <2>6
  <2>8. CASE ~primed
    <3>1. primed' => level' = Target
      BY <2>2, <2>8
    <3>2. Reach \in Int /\ Reach >= 0
      BY <2>5 DEF Reach
    <3>3. primed' => -Reach <= 8 * (level' - Target) /\ 8 * (level' - Target) <= Reach
      BY <3>1, <3>2, <2>5
    <3> QED BY <2>2, <2>4, <2>5, <2>7, <3>3 DEF RingIInv, Reach
  <2>9. CASE primed
    <3> DEFINE e == level - Target  q == Audio!Step(e)
    <3>1. /\ e \in Int /\ q \in Int /\ Target * q <= 8 * e /\ 8 * e < Target * q + Target
      <4>1. e \in Int /\ q = (1000 * e * 8) \div (1000 * Target)
        BY <2>5 DEF Audio!Step, Audio!Nominal
      <4> HIDE DEF e, q
      <4> QED BY <2>5, <4>1, StepBounds
    <3>2. -Reach <= 8 * e /\ 8 * e <= Reach
      BY <2>9 DEF RingIInv
    <3>3. card.fb = Audio!Wanted(level)
      BY <2>2, <2>9 DEF RingIInv
    <3>4. -10 <= q /\ q <= 10 => card.fb = 1000 - q
      BY <2>5, <3>3, WantedOf
    <3> HIDE DEF e, q
    <3>5. /\ -10 <= q /\ q <= 10
          /\ -Reach <= 8 * (e - q - d) /\ 8 * (e - q - d) <= Reach
      BY <2>5, <3>1, <3>2, PeriodHolds DEF SmallDrift, Reach
    <3>6. sum = Target + (e - q - d)
      BY <2>5, <3>1, <3>4, <3>5 DEF e
    <3>7. Reach < 8 * Target /\ Reach \in Int
      BY <2>5 DEF SmallDrift, Reach
    <3>8. level' = sum
      BY <2>5, <2>6, <3>1, <3>5, <3>6, <3>7
    <3>9. level' - Target = e - q - d
      BY <2>5, <3>1, <3>6, <3>8
    <3>10. -Reach <= 8 * (level' - Target) /\ 8 * (level' - Target) <= Reach
      BY <3>5, <3>9
    <3> QED BY <2>2, <2>4, <2>5, <2>7, <3>10 DEF RingIInv, Reach
  <2> QED BY <2>8, <2>9 DEF RingIInv
<1>6. CASE Audio!ServiceReads
  <2>1. /\ UNCHANGED <<card, level, primed>> /\ due
        /\ \/ card.alt = 0 /\ svc' = svc
           \/ due' = due /\ svc' = Audio!Feeds(Audio!Wanted(level))
    BY <1>6 DEF Audio!ServiceReads
  <2>2. Audio!Wanted(level) \in Int
    BY WantedOf DEF RingIInv
  <2>3. Audio!Wanted(level)' = Audio!Wanted(level)
    BY <2>1 DEF Audio!Wanted, Audio!Step, Audio!Clamp
  <2>4. CASE card.alt = 0 /\ svc' = svc
    BY <2>1, <2>4 DEF RingIInv
  <2>5. CASE due' = due /\ svc' = Audio!Feeds(Audio!Wanted(level))
    <3>1. svc'.value = Audio!Wanted(level)
      BY <2>5 DEF Audio!Feeds
    <3> QED BY <2>1, <2>2, <2>3, <2>5, <3>1 DEF RingIInv
  <2> QED BY <2>1, <2>4, <2>5
<1>7. CASE Audio!ServiceSets
  <2>1. /\ svc # Audio!None /\ svc' = Audio!None /\ due' = FALSE /\ UNCHANGED <<level, primed>>
        /\ card' = IF svc.value = card.fb THEN card
                   ELSE [card EXCEPT !.fb = svc.value, !.att = svc]
    BY <1>7 DEF Audio!ServiceSets
  <2>2. PICK S : card \in CardOf(S)
    BY DEF CardIInv, IsCard
  <2>3. card'.fb = svc.value /\ card'.alt = card.alt
    BY <2>1, <2>2 DEF CardOf
  <2>4. Audio!Wanted(level)' = Audio!Wanted(level)
    BY <2>1 DEF Audio!Wanted, Audio!Step, Audio!Clamp
  <2> QED BY <2>1, <2>3, <2>4 DEF RingIInv, Reach
<1>8. ASSUME NEW d \in Audio!Dirs, Audio!Start(d) PROVE RingIInv'
  <2> DEFINE e == Audio!SetAlt(card, stream[d].pick.s.alt)  c == Audio!SetClockAck(e)
  <2>1. /\ card' = card \/ card' = c \/ card' = Audio!SetAlt(c, 0)
        /\ primed' = FALSE /\ UNCHANGED <<level, due, svc>>
    BY <1>8, Zenon DEF Audio!Start
  <2>2. IsCard(e) /\ e.fb \in Int
    BY AltLeaves DEF CardIInv, RingIInv, Audio!Nominal
  <2> HIDE DEF e
  <2>3. IsCard(c) /\ c.fb \in Int
    BY <2>2, ClockLeaves
  <2> HIDE DEF c
  <2>4. Audio!SetAlt(c, 0).fb \in Int
    BY <2>3, AltLeaves
  <2> QED BY <2>1, <2>3, <2>4, RingKept DEF RingIInv
<1>9. ASSUME NEW d \in Audio!Dirs, Audio!StartFails(d) \/ Audio!Stop(d) PROVE RingIInv'
  <2>1. /\ card' = card \/ (\E alt : card' = Audio!SetAlt(card, alt))
        /\ primed' = FALSE /\ UNCHANGED <<level, due, svc>>
    BY <1>9 DEF Audio!StartFails, Audio!Stop, Audio!Selects
  <2>2. card'.fb \in Int
    BY <2>1, AltLeaves DEF CardIInv, RingIInv, Audio!Nominal
  <2> QED BY <2>1, <2>2, RingKept
<1> QED BY <1>1, <1>2, <1>3, <1>4, <1>5, <1>6, <1>7, <1>8, <1>9 DEF Audio!Next

\* UacAudio: with a ring of sixteen samples or more and clocks less than 8 T / (T + 8)
\* thousandths apart, T being half the ring, the endpoint says what service() last worked
\* out, and a ring that has once reached its target never runs dry nor over.
THEOREM PaceIsHeld == ASSUME SmallDrift PROVE ClassesSpec => []PaceHolds
<1>1. ClassesInit => CardIInv /\ RingIInv
  BY CardInit, RingInit DEF ClassesInit
<1>2. CardIInv /\ RingIInv /\ [ClassesNext]_allVars => CardIInv' /\ RingIInv'
  <2>1. CardIInv /\ UNCHANGED audioVars => CardIInv'
    BY DEF audioVars, CardIInv, Audio!VolumeTrue, Audio!FeedbackTrue, Audio!Feeds
  <2>2. RingIInv /\ UNCHANGED audioVars => RingIInv'
    BY DEF audioVars, RingIInv, Audio!Wanted, Audio!Step, Audio!Clamp
  <2> QED BY <2>1, <2>2, OneComponent, CardNext, RingNext
<1>3. CardIInv /\ RingIInv => PaceHolds
  BY ReachIsInside DEF CardIInv, PaceHolds, Audio!PaceHolds
<1> QED BY <1>1, <1>2, <1>3, PTL DEF ClassesSpec

-----------------------------------------------------------------------------
(* UacAudio: the pitch.                                                    *)

\* A stream of the program's goes its way, at a rate the device can run at if it says any.
IsStream(x, d) ==
  /\ x = [is |-> "obj", pick |-> x.pick, rate |-> x.rate, open |-> x.open]
  /\ x.pick.s.dir = d /\ (x.pick.s.rates # {} => x.rate \in Audio!CanRun)

\* The rates a device's clocks can be at, the streams, and the one started last.
PitchIInv ==
  /\ device \in Audio!Devices /\ says \in BOOLEAN
  /\ clk \in [{"clock", "out", "in"} -> Audio!CanRun]
  /\ DOMAIN stream = Audio!Dirs /\ stream = [d \in Audio!Dirs |-> stream[d]]
  /\ \A d \in Audio!Dirs : stream[d] = Audio!None \/ IsStream(stream[d], d)
  /\ latest \in {"none"} \cup Audio!Dirs /\ (latest # "none" => stream[latest] # Audio!None)
  /\ Audio!PlaysAtPitch

\* No stream is there at first.
LEMMA PitchInit == ASSUME Audio!Init PROVE PitchIInv
  BY DEF Audio!Init, PitchIInv, Audio!PlaysAtPitch

\* What sets the rate of a stream is a clock or its endpoint.
LEMMA KeyIs == ASSUME NEW x, NEW d \in Audio!Dirs, IsStream(x, d)
  PROVE Audio!KeyOf(x.pick) \in {"clock", "out", "in"} /\ x # Audio!None
  BY DEF Audio!KeyOf, IsStream, Audio!Dirs, Audio!None

\* Only the program's calls change what the property is about.
LEMMA PitchKept == ASSUME PitchIInv, UNCHANGED <<device, says, clk, stream, latest>> PROVE PitchIInv'
  BY DEF PitchIInv, IsStream, Audio!CanRun, Audio!PlaysAtPitch

\* A stream just made has not been started.
LEMMA PitchNew == ASSUME Audio!OffersAssumption, PitchIInv, Audio!New PROVE PitchIInv'
<1>1. PICK d \in Audio!Dirs : \E offer \in Audio!OffersOf[device][says][d] :
       /\ stream[d] # Audio!None => ~stream[d].open
       /\ stream' = [stream EXCEPT ![d] =
            IF offer.pick = Audio!None THEN Audio!None
            ELSE [is |-> "obj", pick |-> offer.pick, rate |-> offer.rate, open |-> FALSE]]
       /\ latest' = IF latest = d THEN "none" ELSE latest
  BY DEF Audio!New
<1>2. PICK offer \in Audio!OffersOf[device][says][d] :
       /\ stream' = [stream EXCEPT ![d] =
            IF offer.pick = Audio!None THEN Audio!None
            ELSE [is |-> "obj", pick |-> offer.pick, rate |-> offer.rate, open |-> FALSE]]
       /\ latest' = IF latest = d THEN "none" ELSE latest
  BY <1>1
<1>3. UNCHANGED <<device, says, clk>> /\ Audio!CanRun' = Audio!CanRun
  BY DEF Audio!New, Audio!CanRun
<1> DEFINE x == IF offer.pick = Audio!None THEN Audio!None
                ELSE [is |-> "obj", pick |-> offer.pick, rate |-> offer.rate, open |-> FALSE]
<1>4. x = Audio!None \/ IsStream(x, d)
  <2>1. offer.pick # Audio!None =>
          offer.pick.s.dir = d /\ (offer.pick.s.rates # {} => offer.rate \in Audio!CanRun)
    BY DEF Audio!OffersAssumption, PitchIInv, Audio!CanRun
  <2>2. CASE offer.pick # Audio!None
    <3>1. x.pick = offer.pick /\ x.rate = offer.rate /\ x.open = FALSE
          /\ x = [is |-> "obj", pick |-> offer.pick, rate |-> offer.rate, open |-> FALSE]
      BY <2>2
    <3> HIDE DEF x
    <3> QED BY <2>1, <2>2, <3>1 DEF IsStream
  <2> QED BY <2>2
<1>5. stream' = [stream EXCEPT ![d] = x]
  BY <1>2
<1> HIDE DEF x
<1>6. /\ DOMAIN stream' = Audio!Dirs /\ stream' = [e \in Audio!Dirs |-> stream'[e]] /\ stream'[d] = x
      /\ \A e \in Audio!Dirs : e # d => stream'[e] = stream[e]
  BY <1>5 DEF PitchIInv
<1>7. \A e \in Audio!Dirs : stream'[e] = Audio!None \/ IsStream(stream'[e], e)
  BY <1>4, <1>6 DEF PitchIInv
<1>8. \A e \in Audio!Dirs : stream'[e] = Audio!None \/ IsStream(stream[e], e)'
  <2> SUFFICES ASSUME NEW e \in Audio!Dirs, IsStream(stream'[e], e) PROVE IsStream(stream[e], e)'
    BY <1>7
  <2> QED BY <1>3 DEF IsStream
<1>9. latest' = "none" \/ (latest' = latest /\ latest # d)
  BY <1>2
<1>10. Audio!PlaysAtPitch'
  BY <1>3, <1>6, <1>9 DEF PitchIInv, Audio!PlaysAtPitch
<1> QED BY <1>3, <1>6, <1>8, <1>9, <1>10 DEF PitchIInv

\* A stream is opened or closed; the rest of it stays.
LEMMA StreamSet ==
  ASSUME PitchIInv, UNCHANGED <<device, says>>, NEW d \in Audio!Dirs, stream[d] # Audio!None, NEW b,
         stream' = [stream EXCEPT ![d].open = b]
  PROVE  /\ DOMAIN stream' = Audio!Dirs /\ stream' = [e \in Audio!Dirs |-> stream'[e]]
         /\ \A e \in Audio!Dirs : stream'[e] = Audio!None \/ IsStream(stream[e], e)'
         /\ \A e \in Audio!Dirs : (stream'[e] = Audio!None <=> stream[e] = Audio!None)
         /\ \A e \in Audio!Dirs : stream[e] # Audio!None =>
              stream'[e].pick = stream[e].pick /\ stream'[e].rate = stream[e].rate
<1> DEFINE x == [stream[d] EXCEPT !.open = b]
<1>1. stream' = [stream EXCEPT ![d] = x]
  OBVIOUS
<1>2. IsStream(stream[d], d)
  BY DEF PitchIInv
<1>3. IsStream(x, d) /\ x.pick = stream[d].pick /\ x.rate = stream[d].rate
  <2>1. stream[d] = [is |-> "obj", pick |-> stream[d].pick, rate |-> stream[d].rate,
                     open |-> stream[d].open]
    BY <1>2 DEF IsStream
  <2>2. x = [is |-> "obj", pick |-> stream[d].pick, rate |-> stream[d].rate, open |-> b]
    BY <2>1
  <2> HIDE DEF x
  <2>3. x.pick = stream[d].pick /\ x.rate = stream[d].rate /\ x.open = b
    BY <2>2
  <2> QED BY <1>2, <2>2, <2>3 DEF IsStream
<1> HIDE DEF x
<1>4. /\ DOMAIN stream' = Audio!Dirs /\ stream' = [e \in Audio!Dirs |-> stream'[e]] /\ stream'[d] = x
      /\ \A e \in Audio!Dirs : e # d => stream'[e] = stream[e]
  BY <1>1 DEF PitchIInv
<1>5. x # Audio!None
  BY <1>3, KeyIs
<1>6. Audio!CanRun' = Audio!CanRun
  BY DEF Audio!CanRun
<1>7. \A e \in Audio!Dirs : stream'[e] = Audio!None \/ IsStream(stream'[e], e)
  BY <1>3, <1>4 DEF PitchIInv
<1>8. \A e \in Audio!Dirs : stream'[e] = Audio!None \/ IsStream(stream[e], e)'
  <2> SUFFICES ASSUME NEW e \in Audio!Dirs, IsStream(stream'[e], e) PROVE IsStream(stream[e], e)'
    BY <1>7
  <2> QED BY <1>6 DEF IsStream
<1> QED BY <1>3, <1>4, <1>5, <1>8

\* A stream that stops is no longer the one started last.
LEMMA PitchStops == ASSUME PitchIInv, NEW d \in Audio!Dirs, Audio!Stop(d) PROVE PitchIInv'
<1>1. /\ stream[d] # Audio!None /\ stream' = [stream EXCEPT ![d].open = FALSE]
      /\ UNCHANGED <<device, says, clk>>
      /\ latest' = "none" \/ (latest' = latest /\ latest # d)
  BY DEF Audio!Stop
<1>2. Audio!CanRun' = Audio!CanRun
  BY <1>1 DEF Audio!CanRun
<1>3. /\ DOMAIN stream' = Audio!Dirs /\ stream' = [e \in Audio!Dirs |-> stream'[e]]
      /\ \A e \in Audio!Dirs : stream'[e] = Audio!None \/ IsStream(stream[e], e)'
      /\ \A e \in Audio!Dirs : (stream'[e] = Audio!None <=> stream[e] = Audio!None)
      /\ \A e \in Audio!Dirs : stream[e] # Audio!None =>
           stream'[e].pick = stream[e].pick /\ stream'[e].rate = stream[e].rate
  BY <1>1, StreamSet
<1>4. CASE latest' = "none"
  BY <1>1, <1>2, <1>3, <1>4 DEF PitchIInv, Audio!PlaysAtPitch
<1>5. CASE latest' = latest /\ latest # "none"
  <2>1. latest \in Audio!Dirs /\ stream[latest] # Audio!None
    BY <1>5 DEF PitchIInv
  <2>2. /\ stream'[latest] # Audio!None
        /\ stream'[latest].pick = stream[latest].pick /\ stream'[latest].rate = stream[latest].rate
    BY <1>3, <2>1
  <2>3. Audio!PlaysAtPitch'
    BY <1>1, <1>2, <1>5, <2>2 DEF PitchIInv, Audio!PlaysAtPitch
  <2> QED BY <1>1, <1>2, <1>3, <1>5, <2>1, <2>2, <2>3 DEF PitchIInv
<1> QED BY <1>1, <1>4, <1>5

\* A start sets the clock its stream goes by, and no other.
LEMMA PitchStarts == ASSUME PitchIInv, NEW d \in Audio!Dirs, Audio!Start(d) PROVE PitchIInv'
<1>1. PICK opens \in BOOLEAN :
       /\ stream' = [stream EXCEPT ![d].open = opens]
       /\ latest' = IF opens THEN d ELSE IF latest = d \/ (latest # "none" /\
            Audio!KeyOf(stream[latest].pick) = Audio!KeyOf(stream[d].pick)) THEN "none" ELSE latest
  BY DEF Audio!Start
<1>2. stream[d] # Audio!None /\ clk' = Audio!SetsRate(stream[d]) /\ UNCHANGED <<device, says>>
  BY DEF Audio!Start
<1>3. Audio!CanRun' = Audio!CanRun
  BY <1>2 DEF Audio!CanRun
<1> DEFINE o == stream[d]  k == Audio!KeyOf(stream[d].pick)
<1>4. k \in {"clock", "out", "in"} /\ IsStream(o, d)
  BY <1>2, KeyIs DEF PitchIInv
<1>5. /\ clk' \in [{"clock", "out", "in"} -> Audio!CanRun]
      /\ o.rate \in Audio!CanRun => clk'[k] = o.rate
      /\ \A j \in {"clock", "out", "in"} : j # k => clk'[j] = clk[j]
  <2>1. clk' = IF o.rate \in Audio!CanRun THEN [clk EXCEPT ![k] = o.rate] ELSE clk
    BY <1>2 DEF Audio!SetsRate
  <2> HIDE DEF o, k
  <2> QED BY <1>4, <2>1 DEF PitchIInv
<1>6. /\ DOMAIN stream' = Audio!Dirs /\ stream' = [e \in Audio!Dirs |-> stream'[e]]
      /\ \A e \in Audio!Dirs : stream'[e] = Audio!None \/ IsStream(stream[e], e)'
      /\ \A e \in Audio!Dirs : (stream'[e] = Audio!None <=> stream[e] = Audio!None)
      /\ \A e \in Audio!Dirs : stream[e] # Audio!None =>
           stream'[e].pick = stream[e].pick /\ stream'[e].rate = stream[e].rate
  BY <1>1, <1>2, StreamSet
<1>7. CASE latest' = d
  <2>1. opens
    BY <1>1, <1>7 DEF Audio!Dirs
  <2>2. stream'[d].pick = o.pick /\ stream'[d].rate = o.rate
    BY <1>2, <1>6
  <2>3. Audio!PlaysAtPitch'
    <3>1. SUFFICES ASSUME o.pick.s.rates # {} \/ o.rate \in Audio!CanRun PROVE clk'[k] = o.rate
      BY <1>3, <1>7, <2>2 DEF Audio!PlaysAtPitch
    <3> QED BY <1>4, <1>5, <3>1 DEF IsStream
  <2> QED BY <1>2, <1>3, <1>5, <1>6, <1>7, <2>3 DEF PitchIInv
<1>8. CASE latest' # d /\ latest' # "none"
  <2>1. /\ latest' = latest /\ latest \in Audio!Dirs /\ latest # d /\ stream[latest] # Audio!None
        /\ Audio!KeyOf(stream[latest].pick) # k
    BY <1>1, <1>8 DEF PitchIInv
  <2>2. stream'[latest].pick = stream[latest].pick /\ stream'[latest].rate = stream[latest].rate
    BY <1>6, <2>1
  <2>3. Audio!KeyOf(stream[latest].pick) \in {"clock", "out", "in"}
    BY <2>1, KeyIs DEF PitchIInv
  <2>4. clk'[Audio!KeyOf(stream[latest].pick)] = clk[Audio!KeyOf(stream[latest].pick)]
    BY <1>5, <2>1, <2>3
  <2>5. Audio!PlaysAtPitch'
    BY <1>3, <2>1, <2>2, <2>4 DEF PitchIInv, Audio!PlaysAtPitch
  <2> QED BY <1>2, <1>3, <1>5, <1>6, <2>1, <2>5 DEF PitchIInv
<1>9. CASE latest' = "none"
  BY <1>2, <1>3, <1>5, <1>6, <1>9 DEF PitchIInv, Audio!PlaysAtPitch
<1> QED BY <1>7, <1>8, <1>9

\* Every step keeps it so.
LEMMA PitchNext == ASSUME Audio!OffersAssumption, PitchIInv, Audio!Next PROVE PitchIInv'
<1>1. CASE Audio!Reset
  <2>1. /\ stream' = [d \in Audio!Dirs |-> Audio!None] /\ latest' = "none"
        /\ UNCHANGED <<device, says, clk>>
    BY <1>1 DEF Audio!Reset
  <2>2. Audio!CanRun' = Audio!CanRun
    BY <2>1 DEF Audio!CanRun
  <2> QED BY <2>1, <2>2 DEF PitchIInv, Audio!PlaysAtPitch
<1>2. CASE \/ Audio!SetVolume \/ Audio!SetVolumeCut \/ Audio!GetVolume \/ Audio!Flow
           \/ Audio!ServiceReads \/ Audio!ServiceSets
           \/ \E d \in Audio!Dirs : Audio!StartFails(d)
  <2>1. UNCHANGED <<device, says, clk, stream, latest>>
    BY <1>2 DEF Audio!SetVolume, Audio!SetVolumeCut, Audio!GetVolume, Audio!Flow,
             Audio!ServiceReads, Audio!ServiceSets, Audio!StartFails, Audio!hostVars
  <2> QED BY <2>1, PitchKept
<1> QED BY <1>1, <1>2, PitchNew, PitchStarts, PitchStops DEF Audio!Next

\* UacAudio: the stream started last runs at the rate its object has, whatever is made,
\* started, stopped or refused on the same device, with one clock for both or without.
THEOREM PitchIsTrue == ClassesSpec => []PlaysAtPitch
<1>1. ClassesInit => PitchIInv
  BY PitchInit DEF ClassesInit
<1>2. PitchIInv /\ [ClassesNext]_allVars => PitchIInv'
  <2>1. PitchIInv /\ UNCHANGED audioVars => PitchIInv'
    BY PitchKept DEF audioVars
  <2> QED BY <2>1, OneComponent, PitchNext, ConstantsAssumption
<1>3. PitchIInv => PlaysAtPitch
  BY DEF PitchIInv, PlaysAtPitch
<1> QED BY <1>1, <1>2, <1>3, PTL DEF ClassesSpec

-----------------------------------------------------------------------------
(* MscBot.  What its fields and packets are, and what the handlers do.     *)

\* What a command block, a packet and a transfer are.
BotOps == {"ready", "sense", "capacity", "read", "write", "eject"}
BotCommands == [op : BotOps, lba : Nat, n : Nat, tag : Nat]
Sized(c) ==
  /\ c.op \in {"ready", "eject"} => c.n = 0
  /\ c.op \in {"sense", "capacity"} => c.n = 1
  /\ c.op \in {"read", "write"} => c.n > 0
CbwPackets == [kind : {"cbw"}, tag : Nat, val : BotCommands]
BlockPackets(V) == [kind : {"none", "block"}, tag : Nat, val : V]
ShortPackets == [kind : {"none", "csw", "reply", "capacity"}, tag : Nat, val : Int]
OutKinds == {"cbw", "chunk", "discard"}
InKinds == {"data", "reply", "fail", "csw"}
Xfers(K) == {Msc!NoXfer} \cup [at : {"armed", "done"}, kind : K, left : Int, done : Int]
Queues == {q \in Seq({"out", "in"}) : \A i, j \in DOMAIN q : q[i] = q[j] => i = j}

\* The driver's fields, with blocks that hold values of V.
Drivers(V) ==
  [cmd : BotCommands, cbw : CbwPackets \cup BlockPackets(Int), csw : ShortPackets,
   reply : ShortPackets, buf : [1 .. Chunk -> V], lba : Nat, left : Int, chunk : Nat,
   discard : Int, sense : Int, out : Xfers(OutKinds), in : Xfers(InKinds), events : Queues,
   raised : BOOLEAN, ejected : BOOLEAN, card : {"computer", "board"}]

\* What is yet to do of a command is on the medium; and no chunk is on its way once the
\* card is ejected.
Bounded(d) ==
  /\ d.lba + d.left <= Blocks \/ d.left = 0
  /\ d.out.kind = "chunk" => d.lba + d.left <= Blocks /\ d.chunk <= Chunk /\ ~d.ejected

\* What any handler does: it may begin transfers where none is pending.
Handles(V, d, e) ==
  /\ e \in Drivers(V) /\ Bounded(e) /\ e.events = d.events /\ e.card = d.card
  /\ e.out = d.out \/ (d.out.at = "none" /\ e.out.at = "armed")
  /\ e.in = d.in \/ (d.in.at = "none" /\ e.in.at = "armed")

\* submit_xfer: the transfer, or an exception.
LEMMA SubmitsIn ==
  ASSUME NEW V, NEW d \in Drivers(V), Bounded(d), NEW kind \in InKinds, NEW n \in Int
  PROVE  /\ Handles(V, d, Msc!SubmitIn(d, kind, n))
         /\ Msc!SubmitIn(d, kind, n).out = d.out
         /\ Msc!SubmitIn(d, kind, n).ejected = d.ejected
<1> DEFINE t == Msc!Armed(kind, n)
<1>1. t \in Xfers(InKinds) /\ t.at = "armed"
  BY DEF Msc!Armed, Xfers
<1>2. /\ Msc!Raise(d) \in Drivers(V) /\ Bounded(Msc!Raise(d)) /\ Msc!Raise(d).events = d.events
      /\ Msc!Raise(d).card = d.card /\ Msc!Raise(d).out = d.out /\ Msc!Raise(d).in = d.in
      /\ Msc!Raise(d).ejected = d.ejected
  BY DEF Msc!Raise, Bounded, Drivers
<1> HIDE DEF t
<1> DEFINE e == [d EXCEPT !.in = t]
<1>3. /\ e \in Drivers(V) /\ Bounded(e) /\ e.events = d.events /\ e.card = d.card
      /\ e.out = d.out /\ e.in = t /\ e.ejected = d.ejected
  BY <1>1 DEF Bounded, Drivers
<1>4. Msc!SubmitIn(d, kind, n) = IF d.in.at # "none" THEN Msc!Raise(d) ELSE e
  BY DEF Msc!SubmitIn, t
<1> HIDE DEF e
<1> QED BY <1>1, <1>2, <1>3, <1>4 DEF Handles

\* A transfer submitted on the OUT endpoint; where one is pending it raises instead.
LEMMA SubmitsOut ==
  ASSUME NEW V, NEW d \in Drivers(V), Bounded(d), NEW kind \in OutKinds, NEW n \in Int,
         kind = "chunk" => d.lba + d.left <= Blocks /\ d.chunk <= Chunk /\ ~d.ejected
  PROVE  /\ Handles(V, d, Msc!SubmitOut(d, kind, n))
         /\ d.out.at = "none" => Msc!SubmitOut(d, kind, n).raised = d.raised
<1> DEFINE t == Msc!Armed(kind, n)
<1>1. t \in Xfers(OutKinds) /\ t.at = "armed" /\ t.kind = kind
  BY DEF Msc!Armed, Xfers
<1>2. /\ Msc!Raise(d) \in Drivers(V) /\ Bounded(Msc!Raise(d)) /\ Msc!Raise(d).events = d.events
      /\ Msc!Raise(d).card = d.card /\ Msc!Raise(d).out = d.out /\ Msc!Raise(d).in = d.in
  BY DEF Msc!Raise, Bounded, Drivers
<1> HIDE DEF t
<1> DEFINE e == [d EXCEPT !.out = t]
<1>3. /\ e \in Drivers(V) /\ Bounded(e) /\ e.events = d.events /\ e.card = d.card
      /\ e.out = t /\ e.in = d.in /\ e.raised = d.raised
  BY <1>1 DEF Bounded, Drivers
<1>4. Msc!SubmitOut(d, kind, n) = IF d.out.at # "none" THEN Msc!Raise(d) ELSE e
  BY DEF Msc!SubmitOut, t
<1> HIDE DEF e
<1> QED BY <1>1, <1>2, <1>3, <1>4 DEF Handles

\* _status submits the status block.
LEMMA StatusHandles ==
  ASSUME NEW V, NEW d \in Drivers(V), Bounded(d), NEW status \in {0, 1}
  PROVE  Handles(V, d, Msc!Status(d, status)) /\ Msc!Status(d, status).out = d.out
<1> DEFINE p == Msc!UsbPacket("csw", d.cmd.tag, status)  e == [d EXCEPT !.csw = p]
<1>0. p \in ShortPackets
  <2>1. d.cmd.tag \in Nat
    BY DEF Drivers, BotCommands
  <2> QED BY <2>1 DEF Msc!UsbPacket, ShortPackets
<1> HIDE DEF p
<1>1. /\ e \in Drivers(V) /\ Bounded(e)
      /\ e.events = d.events /\ e.card = d.card /\ e.out = d.out /\ e.in = d.in
  <2>1. e \in Drivers(V)
    BY <1>0 DEF Drivers
  <2> QED BY <2>1 DEF Drivers, Bounded
<1> HIDE DEF e
<1>2. Handles(V, e, Msc!SubmitIn(e, "csw", 1)) /\ Msc!SubmitIn(e, "csw", 1).out = e.out
  BY <1>1, SubmitsIn DEF InKinds
<1> QED BY <1>1, <1>2 DEF Msc!Status, Handles, e, p

\* _arm_cbw submits the read of the next command block.
LEMMA ArmCbwHandles ==
  ASSUME NEW V, NEW d \in Drivers(V), Bounded(d)
  PROVE  Handles(V, d, Msc!ArmCbw(d)) /\ Msc!ArmCbw(d).raised = d.raised
<1>1. Handles(V, d, Msc!SubmitOut(d, "cbw", 1))
      /\ (d.out.at = "none" => Msc!SubmitOut(d, "cbw", 1).raised = d.raised)
  BY SubmitsOut DEF OutKinds
<1>2. Handles(V, d, d)
  BY DEF Handles
<1> QED BY <1>1, <1>2 DEF Msc!ArmCbw

\* The lesser of two numbers.
LEMMA LesserOf ==
  ASSUME NEW a \in Int, NEW b \in Nat, a >= 0
  PROVE  Msc!Lesser(a, b) \in Nat /\ Msc!Lesser(a, b) <= a /\ Msc!Lesser(a, b) <= b
BY DEF Msc!Lesser

\* _discard reads on what the computer sends for a command that failed.
LEMMA DiscardHandles ==
  ASSUME NEW V, NEW d \in Drivers(V), Bounded(d), d.discard >= 0
  PROVE  /\ Handles(V, d, Msc!Discard(d))
         /\ d.out.at = "none" => Msc!Discard(d).raised = d.raised
<1>1. Msc!Lesser(d.discard, Chunk) \in Nat
  BY LesserOf, ConstantsAssumption DEF Msc!SizesAssumption, Drivers
<1> QED BY <1>1, SubmitsOut DEF Msc!Discard, OutKinds

\* _fail sets how much is to be discarded.
LEMMA DiscardSet == ASSUME NEW V, NEW d \in Drivers(V), NEW n \in Int
  PROVE [d EXCEPT !.discard = n] \in Drivers(V) /\ [d EXCEPT !.discard = n].discard = n
  BY DEF Drivers

\* Or that nothing is left.
LEMMA LeftSet == ASSUME NEW V, NEW d \in Drivers(V), NEW n \in Int
  PROVE [d EXCEPT !.left = n] \in Drivers(V)
  BY DEF Drivers

\* _fail, of a command just received.
LEMMA FailHandles ==
  ASSUME NEW V, Msc!Zero \in V, NEW d \in Drivers(V), Bounded(d), d.out = Msc!NoXfer,
         NEW sense \in Int
  PROVE  /\ Handles(V, d, Msc!Fail(d, sense))
         /\ Msc!Fail(d, sense).out = Msc!NoXfer \/ Msc!Fail(d, sense).raised = d.raised
<1> DEFINE e == [d EXCEPT !.sense = sense]  k == Msc!Lesser(d.cmd.n, Chunk)
           n == d.cmd.n  f == [e EXCEPT !.discard = n]
           g == [e EXCEPT !.buf = [i \in 1..Chunk |-> IF i <= k THEN Msc!Zero ELSE @[i]], !.left = 0]
<1>1. d.cmd.n \in Nat /\ k \in Nat
  <2>1. d.cmd.n \in Nat
    BY DEF Drivers, BotCommands
  <2> QED BY <2>1, ConstantsAssumption DEF Msc!SizesAssumption, Msc!Lesser
<1>2. /\ e \in Drivers(V) /\ Bounded(e) /\ e.events = d.events /\ e.card = d.card
      /\ e.out = d.out /\ e.in = d.in /\ e.raised = d.raised /\ e.buf = d.buf
  BY DEF Drivers, Bounded
<1>3. /\ f \in Drivers(V) /\ Bounded(f) /\ f.events = d.events /\ f.card = d.card
      /\ f.out = d.out /\ f.in = d.in /\ f.raised = d.raised /\ f.discard >= 0
  <2>0. n \in Nat
    BY <1>1
  <2> HIDE DEF e, n
  <2>1. f \in Drivers(V) /\ f.discard = n
    <3>1. n \in Int /\ e \in Drivers(V)
      BY <2>0, <1>2
    <3> QED BY <3>1, DiscardSet
  <2>2. /\ f.lba = e.lba /\ f.left = e.left /\ f.out = e.out /\ f.chunk = e.chunk
        /\ f.ejected = e.ejected /\ f.events = e.events /\ f.card = e.card /\ f.in = e.in
        /\ f.raised = e.raised
    BY <1>2 DEF Drivers
  <2> QED BY <1>2, <2>0, <2>1, <2>2 DEF Bounded
<1>4. /\ g \in Drivers(V) /\ Bounded(g) /\ g.events = d.events /\ g.card = d.card
      /\ g.out = d.out /\ g.in = d.in
  <2> DEFINE b == [i \in 1..Chunk |-> IF i <= k THEN Msc!Zero ELSE e.buf[i]]
  <2>1. b \in [1 .. Chunk -> V]
    BY <1>1, <1>2 DEF Drivers
  <2>2. g = [e EXCEPT !.buf = b, !.left = 0]
    BY <1>2 DEF Drivers
  <2> HIDE DEF e, b, f, g
  <2> DEFINE h == [e EXCEPT !.buf = b]
  <2>3. h \in Drivers(V) /\ h.out = e.out /\ h.events = e.events /\ h.card = e.card /\ h.in = e.in
    BY <1>2, <2>1 DEF Drivers
  <2>4. g = [h EXCEPT !.left = 0]
    BY <2>2
  <2> HIDE DEF h
  <2>5. /\ g \in Drivers(V) /\ g.left = 0
        /\ g.out = e.out /\ g.events = e.events /\ g.card = e.card /\ g.in = e.in
    <3>1. h \in Drivers(V)
      BY <2>3
    <3> DEFINE p == [h EXCEPT !.left = 0]
    <3>2. p \in Drivers(V)
      BY <3>1, LeftSet
    <3>3. p.left = 0 /\ p.out = h.out /\ p.events = h.events /\ p.card = h.card /\ p.in = h.in
      BY <3>1 DEF Drivers
    <3> QED BY <2>3, <2>4, <3>2, <3>3
  <2> QED BY <1>2, <2>5 DEF Bounded, Msc!NoXfer
<1>5. Msc!Fail(d, sense) \in {Msc!Discard(f), Msc!SubmitIn(g, "fail", k), Msc!Status(e, 1)}
  BY DEF Msc!Fail
<1> HIDE DEF e, f, g, k
<1>6. CASE Msc!Fail(d, sense) = Msc!Discard(f)
  BY <1>3, <1>6, DiscardHandles DEF Handles, Msc!NoXfer
<1>7. CASE Msc!Fail(d, sense) = Msc!SubmitIn(g, "fail", k)
  <2>1. Handles(V, g, Msc!SubmitIn(g, "fail", k)) /\ Msc!SubmitIn(g, "fail", k).out = g.out
    BY <1>1, <1>4, SubmitsIn DEF InKinds
  <2> QED BY <1>4, <1>7, <2>1 DEF Handles
<1>8. CASE Msc!Fail(d, sense) = Msc!Status(e, 1)
  <2>1. Handles(V, e, Msc!Status(e, 1)) /\ Msc!Status(e, 1).out = e.out
    BY <1>2, StatusHandles
  <2> QED BY <1>2, <1>8, <2>1 DEF Handles
<1> QED BY <1>5, <1>6, <1>7, <1>8

\* _read_chunk, of blocks on the medium.
LEMMA ReadChunkHandles ==
  ASSUME NEW V, NEW d \in Drivers(V), Bounded(d), d.lba + d.left <= Blocks, d.left >= 0,
         medium \in [Msc!LBAs -> V]
  PROVE  Handles(V, d, Msc!ReadChunk(d)) /\ Msc!ReadChunk(d).out = d.out
<1> DEFINE k == Msc!Lesser(d.left, Chunk)
           b == Msc!readblocks(d.lba, k, d.buf)
           e == [d EXCEPT !.buf = b]  f == [e EXCEPT !.lba = @ + k]  g == [f EXCEPT !.left = @ - k]
<1>1. /\ k \in Nat /\ k <= d.left /\ d.left \in Int /\ d.lba \in Nat /\ Chunk \in Nat \ {0}
      /\ Blocks \in Nat
  BY ConstantsAssumption DEF Msc!SizesAssumption, Msc!Lesser, Drivers
<1>2. b \in [1 .. Chunk -> V]
  <2>1. ASSUME NEW i \in 1 .. Chunk, i <= k PROVE d.lba + i - 1 \in Msc!LBAs
    <3> HIDE DEF k
    <3> QED BY <1>1, <2>1 DEF Msc!LBAs
  <2>2. d.buf \in [1 .. Chunk -> V]
    BY DEF Drivers
  <2> HIDE DEF k
  <2> QED BY <2>1, <2>2 DEF Msc!readblocks
<1> HIDE DEF k, b
<1>3. e \in Drivers(V)
  BY <1>2 DEF Drivers
<1>4. e.lba = d.lba /\ e.left = d.left /\ e.out = d.out /\ e.chunk = d.chunk /\ e.in = d.in
      /\ e.ejected = d.ejected /\ e.events = d.events /\ e.card = d.card
  BY DEF Drivers
<1> HIDE DEF e
<1>5. f \in Drivers(V)
  <2>1. e.lba + k \in Nat
    BY <1>1, <1>4
  <2> DEFINE x == e.lba + k
  <2> HIDE DEF x
  <2>2. [e EXCEPT !.lba = x] \in Drivers(V)
    BY <1>3, <2>1 DEF Drivers, x
  <2> QED BY <2>2 DEF f, x
<1>6. f.lba = d.lba + k /\ f.left = d.left /\ f.out = d.out /\ f.chunk = d.chunk /\ f.in = d.in
      /\ f.ejected = d.ejected /\ f.events = d.events /\ f.card = d.card
  BY <1>3, <1>4 DEF Drivers
<1> HIDE DEF f
<1>7. g \in Drivers(V)
  <2>1. f.left - k \in Int
    BY <1>1, <1>6
  <2> DEFINE x == f.left - k
  <2> HIDE DEF x
  <2>2. [f EXCEPT !.left = x] \in Drivers(V)
    BY <1>5, <2>1 DEF Drivers, x
  <2> QED BY <2>2 DEF g, x
<1>8. g.lba = d.lba + k /\ g.left = d.left - k /\ g.out = d.out /\ g.chunk = d.chunk /\ g.in = d.in
      /\ g.ejected = d.ejected /\ g.events = d.events /\ g.card = d.card
  BY <1>5, <1>6 DEF Drivers
<1> HIDE DEF g
<1>9. Bounded(g)
  BY <1>1, <1>8 DEF Bounded
<1>10. g = [d EXCEPT !.buf = Msc!readblocks(d.lba, Msc!Lesser(d.left, Chunk), @),
                     !.lba = @ + Msc!Lesser(d.left, Chunk), !.left = @ - Msc!Lesser(d.left, Chunk)]
  BY DEF b, e, f, g, k, Drivers
<1>11. Msc!ReadChunk(d) \in {Msc!Raise(d), Msc!SubmitIn(g, "data", k)}
  BY <1>10 DEF Msc!ReadChunk, k
<1>12. Handles(V, d, Msc!Raise(d)) /\ Msc!Raise(d).out = d.out
  BY DEF Msc!Raise, Handles, Bounded, Drivers
<1>13. Handles(V, g, Msc!SubmitIn(g, "data", k)) /\ Msc!SubmitIn(g, "data", k).out = g.out
  BY <1>1, <1>7, <1>9, SubmitsIn DEF InKinds
<1>14. Handles(V, d, Msc!SubmitIn(g, "data", k)) /\ Msc!SubmitIn(g, "data", k).out = d.out
  BY <1>8, <1>13 DEF Handles
<1> QED BY <1>11, <1>12, <1>14

\* What no handler's bookkeeping touches.
Same(d, e) ==
  /\ e.out = d.out /\ e.in = d.in /\ e.events = d.events /\ e.card = d.card
  /\ e.ejected = d.ejected /\ e.raised = d.raised /\ e.cmd = d.cmd

PutPlace(d, l, n) == [d EXCEPT !.lba = l, !.left = n]
\* The place in the command moves.
LEMMA Places ==
  ASSUME NEW V, NEW d \in Drivers(V), NEW l \in Nat, NEW n \in Int
  PROVE  /\ PutPlace(d, l, n) \in Drivers(V) /\ Same(d, PutPlace(d, l, n))
         /\ PutPlace(d, l, n).lba = l /\ PutPlace(d, l, n).left = n
         /\ PutPlace(d, l, n).chunk = d.chunk
<1> DEFINE f == [d EXCEPT !.lba = l]  e == [f EXCEPT !.left = n]
<1>1. f \in Drivers(V) /\ Same(d, f) /\ f.lba = l /\ f.chunk = d.chunk
  BY DEF Drivers, Same
<1> HIDE DEF f
<1>2. e \in Drivers(V) /\ Same(f, e) /\ e.lba = f.lba /\ e.left = n /\ e.chunk = f.chunk
  BY <1>1 DEF Drivers, Same
<1>3. e = PutPlace(d, l, n)
  BY DEF f, PutPlace
<1> QED BY <1>1, <1>2, <1>3 DEF Same

\* _write_chunk_arm reads the next chunk of blocks.
LEMMA WriteChunkArmHandles ==
  ASSUME NEW V, NEW d \in Drivers(V), d.lba + d.left <= Blocks, d.left >= 0, ~d.ejected,
         d.out.at = "none"
  PROVE  Handles(V, d, Msc!WriteChunkArm(d)) /\ Msc!WriteChunkArm(d).raised = d.raised
<1> DEFINE k == Msc!Lesser(d.left, Chunk)  e == [d EXCEPT !.chunk = k]
<1>1. k \in Nat /\ k <= Chunk
  BY ConstantsAssumption DEF Msc!SizesAssumption, Msc!Lesser, Drivers
<1> HIDE DEF k
<1>2. /\ e \in Drivers(V) /\ Same(d, e) /\ e.lba = d.lba /\ e.left = d.left /\ e.chunk = k
  BY <1>1 DEF Drivers, Same
<1> HIDE DEF e
<1>3. Bounded(e)
  BY <1>1, <1>2 DEF Bounded, Same
<1>4. Handles(V, e, Msc!SubmitOut(e, "chunk", k)) /\ Msc!SubmitOut(e, "chunk", k).raised = e.raised
  BY <1>1, <1>2, <1>3, SubmitsOut DEF OutKinds, Same
<1>5. Msc!WriteChunkArm(d) = Msc!SubmitOut(e, "chunk", k)
  BY DEF Msc!WriteChunkArm, e, k
<1> QED BY <1>2, <1>4, <1>5 DEF Handles, Same

\* _send submits a reply of one packet.
LEMMA SendHandles ==
  ASSUME NEW V, NEW d \in Drivers(V), d.out = Msc!NoXfer, NEW kind \in {"reply", "capacity"},
         NEW val \in Int
  PROVE  Handles(V, d, Msc!Send(d, kind, val)) /\ Msc!Send(d, kind, val).out = Msc!NoXfer
<1> DEFINE p == Msc!UsbPacket(kind, 0, val)  f == [d EXCEPT !.reply = p]  e == [f EXCEPT !.left = 0]
<1>1. p \in ShortPackets
  BY DEF Msc!UsbPacket, ShortPackets
<1> HIDE DEF p
<1>2. f \in Drivers(V) /\ Same(d, f)
  BY <1>1 DEF Drivers, Same
<1> HIDE DEF f
<1>3. e \in Drivers(V) /\ Same(f, e) /\ e.left = 0
  BY <1>2 DEF Drivers, Same
<1>4. Msc!Send(d, kind, val) = Msc!SubmitIn(e, "reply", 1)
  BY DEF Msc!Send, e, f, p
<1> HIDE DEF e
<1>5. Bounded(e)
  BY <1>2, <1>3 DEF Bounded, Same, Msc!NoXfer
<1>6. Handles(V, e, Msc!SubmitIn(e, "reply", 1)) /\ Msc!SubmitIn(e, "reply", 1).out = e.out
  BY <1>3, <1>5, SubmitsIn DEF InKinds
<1> QED BY <1>2, <1>3, <1>4, <1>6 DEF Handles, Same

\* The dispatch of the command received last: it raises only with no transfer begun out.
LEMMA DispatchHandles ==
  ASSUME NEW V, Msc!Zero \in V, NEW d \in Drivers(V), Bounded(d), d.out = Msc!NoXfer, ~d.raised,
         medium \in [Msc!LBAs -> V]
  PROVE  /\ Handles(V, d, Msc!Dispatch(d))
         /\ Msc!Dispatch(d).out = Msc!NoXfer \/ ~Msc!Dispatch(d).raised
<1> DEFINE c == d.cmd
<1>1. /\ c \in BotCommands /\ c.op \in BotOps /\ c.lba \in Nat /\ c.n \in Nat /\ d.ejected \in BOOLEAN
      /\ d.out.at = "none"
  BY DEF Drivers, BotCommands, Msc!NoXfer
<1>2. CASE c.op = "eject"
  <2> DEFINE e == [d EXCEPT !.ejected = TRUE]
  <2>1. /\ e \in Drivers(V) /\ e.out = d.out /\ e.in = d.in /\ e.events = d.events /\ e.card = d.card
        /\ e.lba = d.lba /\ e.left = d.left
    BY DEF Drivers
  <2>2. Msc!Dispatch(d) = Msc!Status(e, 0)
    BY <1>2 DEF Msc!Dispatch
  <2> HIDE DEF e
  <2>3. Bounded(e)
    BY <2>1 DEF Bounded, Msc!NoXfer
  <2>4. Handles(V, e, Msc!Status(e, 0)) /\ Msc!Status(e, 0).out = e.out
    BY <2>1, <2>3, StatusHandles
  <2> QED BY <2>1, <2>2, <2>4 DEF Handles
<1>3. CASE c.op = "sense"
  <2> DEFINE e == [d EXCEPT !.sense = Msc!NoSense]
  <2>1. e \in Drivers(V) /\ Same(d, e) /\ d.sense \in Int
    BY DEF Drivers, Msc!NoSense, Same
  <2>2. Msc!Dispatch(d) = Msc!Send(e, "reply", d.sense)
    BY <1>3 DEF Msc!Dispatch
  <2> HIDE DEF e
  <2>3. Handles(V, e, Msc!Send(e, "reply", d.sense)) /\ Msc!Send(e, "reply", d.sense).out = Msc!NoXfer
    BY <2>1, SendHandles DEF Same
  <2> QED BY <2>1, <2>2, <2>3 DEF Handles, Same
<1>4. CASE c.op \notin {"eject", "sense"} /\ d.ejected
  <2>1. Msc!Dispatch(d) = Msc!Fail(d, Msc!NotReady)
    BY <1>1, <1>4 DEF Msc!Dispatch, BotOps
  <2> QED BY <2>1, FailHandles DEF Msc!NotReady
<1>5. CASE c.op = "ready" /\ ~d.ejected
  <2>1. Msc!Dispatch(d) = Msc!Status(d, 0)
    BY <1>5 DEF Msc!Dispatch
  <2> QED BY <2>1, StatusHandles
<1>6. CASE c.op = "capacity" /\ ~d.ejected
  <2>1. Msc!Dispatch(d) = Msc!Send(d, "capacity", Blocks) /\ Blocks \in Int
    BY <1>6, ConstantsAssumption DEF Msc!Dispatch, Msc!SizesAssumption
  <2> QED BY <2>1, SendHandles
<1> DEFINE e == [d EXCEPT !.lba = c.lba, !.left = c.n]
<1>7. e \in Drivers(V) /\ Same(d, e) /\ e.lba = c.lba /\ e.left = c.n
  <2>1. c.lba \in Nat /\ c.n \in Int
    BY <1>1
  <2>2. e = PutPlace(d, c.lba, c.n)
    BY DEF PutPlace
  <2>3. \A l \in Nat, n \in Int :
           /\ PutPlace(d, l, n) \in Drivers(V) /\ Same(d, PutPlace(d, l, n))
           /\ PutPlace(d, l, n).lba = l /\ PutPlace(d, l, n).left = n
    BY Places
  <2> HIDE DEF c, e
  <2> QED BY <2>1, <2>2, <2>3
<1>8. CASE c.op = "read" /\ ~d.ejected
  <2>1. Msc!Dispatch(d) = IF Msc!OutOfRange(c) THEN Msc!Fail(d, Msc!Illegal) ELSE Msc!ReadChunk(e)
    BY <1>8 DEF Msc!Dispatch
  <2> HIDE DEF e
  <2>2. CASE Msc!OutOfRange(c)
    BY <2>1, <2>2, FailHandles DEF Msc!Illegal
  <2>3. CASE ~Msc!OutOfRange(c)
    <3>1. e.lba + e.left <= Blocks
      BY <1>1, <1>7, <2>3, ConstantsAssumption DEF Msc!OutOfRange, Msc!SizesAssumption
    <3>2. Bounded(e)
      BY <1>7, <3>1 DEF Bounded, Same, Msc!NoXfer
    <3>3. Handles(V, e, Msc!ReadChunk(e)) /\ Msc!ReadChunk(e).out = e.out
      BY <1>1, <1>7, <3>1, <3>2, ReadChunkHandles
    <3> QED BY <1>7, <2>1, <2>3, <3>3 DEF Handles, Same
  <2> QED BY <2>2, <2>3
<1>9. CASE c.op = "write" /\ ~d.ejected
  <2>1. Msc!Dispatch(d) = IF readonly THEN Msc!Fail(d, Msc!Protected)
                      ELSE IF Msc!OutOfRange(c) THEN Msc!Fail(d, Msc!Illegal)
                      ELSE Msc!WriteChunkArm(e)
    BY <1>9 DEF Msc!Dispatch
  <2> HIDE DEF e
  <2>2. CASE Msc!Dispatch(d) \in {Msc!Fail(d, Msc!Protected), Msc!Fail(d, Msc!Illegal)}
    BY <2>2, FailHandles DEF Msc!Illegal, Msc!Protected
  <2>3. CASE ~Msc!OutOfRange(c) /\ Msc!Dispatch(d) = Msc!WriteChunkArm(e)
    <3>1. e.lba + e.left <= Blocks /\ e.left >= 0 /\ e.out.at = "none"
      BY <1>1, <1>7, <2>3, ConstantsAssumption DEF Msc!OutOfRange, Msc!SizesAssumption, Same
    <3>2. ~e.ejected /\ ~e.raised
      BY <1>7, <1>9 DEF Same
    <3>3. Handles(V, e, Msc!WriteChunkArm(e)) /\ Msc!WriteChunkArm(e).raised = e.raised
      BY <1>7, <3>1, <3>2, WriteChunkArmHandles
    <3> QED BY <1>7, <2>3, <3>2, <3>3 DEF Handles, Same
  <2> QED BY <2>1, <2>2, <2>3
<1> QED BY <1>1, <1>2, <1>3, <1>4, <1>5, <1>6, <1>8, <1>9 DEF BotOps

\* The callbacks of the two endpoints, run with the endpoint free again.
LEMMA CbwDoneHandles ==
  ASSUME NEW V, Msc!Zero \in V, NEW d \in Drivers(V), Bounded(d), d.out = Msc!NoXfer, ~d.raised,
         medium \in [Msc!LBAs -> V]
  PROVE  Handles(V, d, Msc!CbwDone(d))
<1>1. CASE d.cbw.kind # "cbw"
  BY <1>1, ArmCbwHandles DEF Msc!CbwDone
<1>2. CASE d.cbw.kind = "cbw"
  <2> DEFINE c == [d EXCEPT !.cmd = d.cbw.val]  e == Msc!Dispatch(c)  f == [e EXCEPT !.raised = FALSE]
  <2>1. d.cbw.val \in BotCommands
    BY <1>2 DEF Drivers, CbwPackets, BlockPackets
  <2>2. /\ c \in Drivers(V) /\ c.out = d.out /\ c.in = d.in /\ c.events = d.events
        /\ c.card = d.card /\ c.raised = d.raised /\ c.lba = d.lba /\ c.left = d.left
    BY <2>1 DEF Drivers
  <2>3. Msc!CbwDone(d) = IF e.raised THEN Msc!Fail(f, Msc!Illegal) ELSE e
    BY <1>2 DEF Msc!CbwDone
  <2> HIDE DEF c
  <2>4. Bounded(c)
    BY <2>2 DEF Bounded, Msc!NoXfer
  <2>5. Handles(V, c, e) /\ (e.out = Msc!NoXfer \/ ~e.raised)
    BY <2>2, <2>4, DispatchHandles
  <2> HIDE DEF e
  <2>6. CASE ~e.raised
    BY <2>2, <2>3, <2>5, <2>6 DEF Handles
  <2>7. CASE e.raised
    <3>1. e \in Drivers(V)
      BY <2>5 DEF Handles
    <3>2. /\ f \in Drivers(V) /\ f.out = e.out /\ f.in = e.in /\ f.events = e.events
          /\ f.card = e.card /\ f.lba = e.lba /\ f.left = e.left
      BY <3>1 DEF Drivers
    <3> HIDE DEF f
    <3>3. Bounded(f) /\ f.out = Msc!NoXfer
      BY <2>5, <2>7, <3>2 DEF Bounded, Handles, Msc!NoXfer
    <3>4. Handles(V, f, Msc!Fail(f, Msc!Illegal))
      BY <3>2, <3>3, FailHandles DEF Msc!Illegal
    <3>5. Msc!CbwDone(d) = Msc!Fail(f, Msc!Illegal)
      BY <2>3, <2>7
    <3>6. e.in = c.in \/ (c.in.at = "none" /\ e.in.at = "armed")
      BY <2>5 DEF Handles
    <3> QED BY <2>2, <2>5, <3>2, <3>3, <3>4, <3>5, <3>6 DEF Handles, Msc!NoXfer
  <2> QED BY <2>6, <2>7
<1> QED BY <1>1, <1>2

\* _in_done goes on with the next chunk, or with the status.
LEMMA InDoneHandles ==
  ASSUME NEW V, NEW d \in Drivers(V), Bounded(d), medium \in [Msc!LBAs -> V]
  PROVE  Handles(V, d, Msc!InDone(d))
<1>1. CASE d.left > 0
  <2>1. d.lba + d.left <= Blocks /\ d.left >= 0
    BY <1>1 DEF Bounded, Drivers
  <2>2. Msc!InDone(d) = Msc!ReadChunk(d)
    BY <1>1 DEF Msc!InDone
  <2> QED BY <2>1, <2>2, ReadChunkHandles
<1>2. CASE ~(d.left > 0)
  <2>1. Msc!InDone(d) = Msc!Status(d, 0)
    BY <1>2 DEF Msc!InDone
  <2> QED BY <2>1, StatusHandles
<1> QED BY <1>1, <1>2

\* _out_done after a chunk: the place moves on, then the next chunk or the status.
LEMMA OutDoneHandles ==
  ASSUME NEW V, NEW d \in Drivers(V), d.lba + d.left <= Blocks, d.out = Msc!NoXfer, ~d.ejected
  PROVE  Handles(V, d, Msc!OutDone(d))
<1> DEFINE l == d.lba + d.chunk  n == d.left - d.chunk  e == [d EXCEPT !.lba = l, !.left = n]
<1>1. l \in Nat /\ n \in Int /\ l + n = d.lba + d.left
  BY DEF Drivers
<1>2. e = PutPlace(d, l, n)
  BY DEF PutPlace
<1>3. Msc!OutDone(d) = IF e.left > 0 THEN Msc!WriteChunkArm(e) ELSE Msc!Status(e, 0)
  BY DEF Msc!OutDone
<1> HIDE DEF l, n, e
<1>4. e \in Drivers(V) /\ Same(d, e) /\ e.lba = l /\ e.left = n
  BY <1>1, <1>2, Places
<1>5. e.lba + e.left <= Blocks
  BY <1>1, <1>4
<1>6. CASE e.left > 0
  <2>1. e.left >= 0 /\ ~e.ejected /\ e.out.at = "none"
    BY <1>1, <1>4, <1>6 DEF Same, Msc!NoXfer
  <2>2. Handles(V, e, Msc!WriteChunkArm(e))
    BY <1>4, <1>5, <2>1, WriteChunkArmHandles
  <2> QED BY <1>3, <1>4, <1>6, <2>2 DEF Handles, Same
<1>7. CASE ~(e.left > 0)
  <2>1. Bounded(e)
    BY <1>4, <1>5 DEF Bounded, Same, Msc!NoXfer
  <2>2. Handles(V, e, Msc!Status(e, 0))
    BY <1>4, <2>1, StatusHandles
  <2> QED BY <1>3, <1>4, <1>7, <2>2 DEF Handles, Same
<1> QED BY <1>6, <1>7

\* _discard_done: less is left to discard.
LEMMA DiscardDoneHandles ==
  ASSUME NEW V, NEW d \in Drivers(V), Bounded(d), NEW n \in Int
  PROVE  Handles(V, d, Msc!DiscardDone(d, n))
<1> DEFINE x == d.discard - n  e == [d EXCEPT !.discard = x]
<1>1. x \in Int
  BY DEF Drivers
<1>2. Msc!DiscardDone(d, n) = IF e.discard > 0 THEN Msc!Discard(e) ELSE Msc!Status(e, 1)
  BY DEF Msc!DiscardDone
<1> HIDE DEF x
<1>3. e \in Drivers(V) /\ Same(d, e) /\ e.lba = d.lba /\ e.left = d.left /\ e.chunk = d.chunk
      /\ e.discard = x
  BY <1>1 DEF Drivers, Same
<1> HIDE DEF e
<1>4. Bounded(e)
  BY <1>3 DEF Bounded, Same
<1>5. CASE e.discard > 0
  BY <1>1, <1>2, <1>3, <1>4, <1>5, DiscardHandles DEF Handles, Same
<1>6. CASE ~(e.discard > 0)
  BY <1>2, <1>3, <1>4, <1>6, StatusHandles DEF Handles, Same
<1> QED BY <1>5, <1>6

-----------------------------------------------------------------------------
(* The host.                                                               *)

HostsOf(S) ==
  [at : {"idle", "cbw", "data", "csw", "reset"}, op : {"ready", "open", "read", "write", "eject"},
   blocks : S, lba : Nat, left : Nat, read : S, data : S, since : S, tries : S, known : S]
IsHost(h) == \E S : h \in HostsOf(S)

\* What a call has yet to do covers its present command.
CallSound(h, c) ==
  /\ IsHost(h) /\ c \in BotCommands /\ Sized(c)
  /\ h.op = "eject" => h.left = 0
  /\ h.at # "idle" =>
       /\ h.op # "ready" /\ (h.op = "open" => c.op \in {"ready", "sense", "capacity"})
       /\ h.op # "open" /\ c.op # "sense" => c.n <= h.left

\* A command begins, or a call is over.
Begins ==
  /\ host'.at = "cbw" /\ cbw'.tag = cbw.tag + 1 /\ come' = Msc!NoRead
  /\ send' = <<Msc!UsbPacket("cbw", cbw'.tag, cbw')>>
Over == host'.at = "idle" /\ send' = <<>> /\ come' = Msc!NoRead /\ cbw' = cbw

\* A command the host sends for a call has a size and fits what is left of the call.
LEMMA SendsSound ==
  ASSUME NEW h, IsHost(h), cbw.tag \in Nat, NEW op \in BotOps, NEW n \in Nat,
         op \in {"ready", "eject"} => n = 0, op \in {"sense", "capacity"} => n = 1,
         op \in {"read", "write"} => n > 0,
         h.op # "ready", h.op = "eject" => h.left = 0,
         h.op = "open" => op \in {"ready", "sense", "capacity"},
         h.op # "open" /\ op # "sense" => n <= h.left,
         Msc!Sends(h, op, n)
  PROVE  CallSound(host', cbw') /\ Begins /\ host'.op = h.op
<1>1. PICK S : h \in HostsOf(S)
  BY DEF IsHost
<1>2. /\ cbw' = Msc!Command(op, h.lba, n, cbw.tag + 1) /\ come' = Msc!NoRead
      /\ send' = <<Msc!UsbPacket("cbw", cbw'.tag, cbw')>>
      /\ host' = [h EXCEPT !.at = "cbw", !.data = <<>>]
  BY DEF Msc!Sends
<1>3. cbw' \in BotCommands /\ Sized(cbw') /\ cbw'.tag = cbw.tag + 1 /\ cbw'.op = op /\ cbw'.n = n
  BY <1>1, <1>2 DEF Msc!Command, BotCommands, HostsOf, Sized
<1> DEFINE T == S \cup {<<>>}  g == [h EXCEPT !.at = "cbw"]
<1>4. g \in HostsOf(T) /\ g.at = "cbw" /\ g.op = h.op /\ g.left = h.left
  BY <1>1 DEF HostsOf
<1>5. host' = [g EXCEPT !.data = <<>>]
  BY <1>2
<1>6. <<>> \in T
  OBVIOUS
<1> HIDE DEF g, T
<1>7. host' \in HostsOf(T) /\ host'.at = "cbw" /\ host'.op = h.op /\ host'.left = h.left
  BY <1>4, <1>5, <1>6 DEF HostsOf
<1> QED BY <1>2, <1>3, <1>7 DEF CallSound, Begins, IsHost

\* Drive between two calls.
LEMMA IdleIsHost ==
  ASSUME NEW k
  PROVE  LET h == [Msc!NoDrive EXCEPT !.known = k]
         IN IsHost(h) /\ h.at = "idle" /\ h.op = "ready" /\ h.left = 0
<1> DEFINE h == [Msc!NoDrive EXCEPT !.known = k]
<1>1. h \in HostsOf({{}, <<>>, 0, k})
  BY DEF Msc!NoDrive, HostsOf
<1>2. h.at = "idle" /\ h.op = "ready" /\ h.left = 0
  BY DEF Msc!NoDrive
<1> QED BY <1>1, <1>2 DEF IsHost

\* A call that returns leaves the host idle.
LEMMA ReturnsSound ==
  ASSUME CallSound(host, cbw), Msc!Returns
  PROVE  CallSound(host', cbw') /\ Over
<1>1. host' = [Msc!NoDrive EXCEPT !.known = host.known]
  BY DEF Msc!Returns, Msc!Idle
<1>2. IsHost(host') /\ host'.at = "idle" /\ host'.op = "ready" /\ host'.left = 0
  BY <1>1, IdleIsHost
<1>3. send' = <<>> /\ come' = Msc!NoRead /\ cbw' = cbw
  BY DEF Msc!Returns
<1> QED BY <1>2, <1>3 DEF CallSound, Over

\* What follows a command, whatever its status.
LEMMA SettleSound ==
  ASSUME CallSound(host, cbw), host.at # "idle", NEW status, Msc!Settle(status)
  PROVE  CallSound(host', cbw') /\ (Begins \/ Over)
<1>1. /\ IsHost(host) /\ cbw.tag \in Nat /\ cbw.op \in BotOps /\ cbw.n \in Nat /\ host.op # "ready"
  BY DEF CallSound, BotCommands
<1>2. PICK S : host \in HostsOf(S)
  BY <1>1 DEF IsHost
<1>3. CASE host.op = "open"
  <2>1. Msc!OpenGoesOn(status) /\ cbw.op \in {"ready", "sense", "capacity"}
    BY <1>3 DEF Msc!Settle, CallSound
  <2> DEFINE h == [host EXCEPT !.tries = @ + 1]
  <2>2. IsHost(h) /\ h.op = "open"
    <3>1. h \in HostsOf(S \cup {host.tries + 1})
      BY <1>2 DEF HostsOf
    <3>2. h.op = "open"
      BY <1>2, <1>3 DEF HostsOf
    <3> QED BY <3>1, <3>2 DEF IsHost
  <2>3. CASE Msc!Sends(h, "sense", 1)
    <3> HIDE DEF h
    <3> QED BY <1>1, <2>2, <2>3, SendsSound DEF BotOps
  <2>4. CASE \E op \in {"ready", "capacity"} : \E n \in {0, 1} :
               Msc!Sends(host, op, n) /\ (op = "ready" => n = 0) /\ (op = "capacity" => n = 1)
    BY <1>1, <1>3, <2>4, SendsSound DEF BotOps
  <2>5. CASE /\ host' = [Msc!Idle EXCEPT !.known = IF status = 0 THEN host.data[1].val ELSE 0]
             /\ send' = <<>> /\ come' = Msc!NoRead /\ UNCHANGED cbw
    <3> DEFINE k == IF status = 0 THEN host.data[1].val ELSE 0
    <3>1. host' = [Msc!NoDrive EXCEPT !.known = k]
      BY <2>5 DEF Msc!Idle, Msc!NoDrive
    <3> HIDE DEF k
    <3>2. IsHost(host') /\ host'.at = "idle" /\ host'.op = "ready" /\ host'.left = 0
      BY <3>1, IdleIsHost
    <3> QED BY <2>5, <3>2 DEF CallSound, Over
  <2> QED BY <2>1, <2>3, <2>4, <2>5 DEF Msc!OpenGoesOn
<1>4. CASE host.op # "open" /\ cbw.op = "sense"
  BY <1>4, ReturnsSound DEF Msc!Settle
<1>5. CASE host.op # "open" /\ cbw.op # "sense" /\ status # 0
  <2>1. Msc!Sends(host, "sense", 1)
    BY <1>5 DEF Msc!Settle
  <2> QED BY <1>1, <1>5, <2>1, SendsSound DEF BotOps, CallSound
<1>6. CASE host.op # "open" /\ cbw.op # "sense" /\ status = 0
  <2> DEFINE f == [host EXCEPT !.lba = @ + cbw.n]  g == [f EXCEPT !.left = @ - cbw.n]
             h == [g EXCEPT !.read = @ \o host.data]
  <2>1. IF h.left > 0 THEN Msc!NextPart(h) ELSE Msc!Returns
    BY <1>6 DEF Msc!Settle
  <2>2. cbw.n <= host.left /\ host.left \in Nat /\ host.lba \in Nat
    BY <1>2, <1>6 DEF CallSound, HostsOf
  <2> DEFINE x == host.lba + cbw.n  y == host.left - cbw.n
  <2>3. x \in Nat /\ y \in Nat
    BY <1>1, <2>2
  <2>4. f = [host EXCEPT !.lba = x]
    OBVIOUS
  <2> HIDE DEF x
  <2>5. f \in HostsOf(S) /\ f.left = host.left /\ f.op = host.op
    BY <1>2, <2>3, <2>4 DEF HostsOf
  <2>6. g = [f EXCEPT !.left = y]
    BY <2>5
  <2> HIDE DEF f, y
  <2>7. g \in HostsOf(S) /\ g.left = y /\ g.op = host.op
    BY <2>3, <2>5, <2>6 DEF HostsOf
  <2> HIDE DEF g
  <2>8. h \in HostsOf(S \cup {g.read \o host.data}) /\ h.left = y /\ h.op = host.op
    BY <2>7 DEF HostsOf
  <2> HIDE DEF h
  <2>9. CASE h.left > 0
    <3>1. Msc!Sends(h, h.op, Msc!Lesser(h.left, MaxBlocks))
      BY <2>1, <2>9 DEF Msc!NextPart
    <3>2. /\ Msc!Lesser(h.left, MaxBlocks) \in Nat /\ Msc!Lesser(h.left, MaxBlocks) > 0
          /\ Msc!Lesser(h.left, MaxBlocks) <= h.left
      BY <2>3, <2>8, <2>9, ConstantsAssumption DEF Msc!Lesser, Msc!SizesAssumption
    <3>3. h.op \in {"read", "write"}
      <4>1. host.op = "eject" => y = 0
        BY <1>1, <2>2 DEF CallSound, y
      <4> QED BY <1>1, <1>2, <1>6, <2>8, <2>9, <4>1 DEF HostsOf
    <3>4. IsHost(h)
      BY <2>8 DEF IsHost
    <3> HIDE DEF Msc!NextPart
    <3> QED BY <1>1, <3>1, <3>2, <3>3, <3>4, SendsSound DEF BotOps
  <2>10. CASE ~(h.left > 0)
    BY <2>1, <2>10, ReturnsSound
  <2> QED BY <2>9, <2>10
<1> QED BY <1>3, <1>4, <1>5, <1>6

\* A call begins.
LEMMA CallsSound ==
  ASSUME CallSound(host, cbw), NEW op \in {"read", "write", "open", "eject"}, NEW b \in Msc!LBAs,
         NEW n \in 1 .. MaxCount, Msc!Call(op, b, n)
  PROVE  CallSound(host', cbw') /\ Begins
<1>1. cbw.tag \in Nat /\ b \in Nat /\ n \in Nat /\ n > 0
  BY ConstantsAssumption DEF CallSound, BotCommands, Msc!LBAs, Msc!SizesAssumption
<1>2. CASE op = "open"
  <2> DEFINE h == [Msc!NoDrive EXCEPT !.op = op]
  <2>1. Msc!Sends(h, "ready", 0)
    BY <1>2 DEF Msc!Call
  <2>2. h \in HostsOf({{}, <<>>, 0}) /\ h.op = "open" /\ h.left = 0
    BY <1>2 DEF Msc!NoDrive, HostsOf
  <2> HIDE DEF h
  <2> QED BY <1>1, <2>1, <2>2, SendsSound DEF IsHost, BotOps
<1>3. CASE op = "eject"
  <2> DEFINE i == [Msc!NoDrive EXCEPT !.known = host.known]  h == [i EXCEPT !.op = op]
  <2>1. Msc!Sends(h, "eject", 0)
    BY <1>3 DEF Msc!Call, Msc!Idle
  <2>2. i \in HostsOf({{}, <<>>, 0, host.known}) /\ i.left = 0
    BY DEF Msc!NoDrive, HostsOf
  <2> HIDE DEF i
  <2>3. h \in HostsOf({{}, <<>>, 0, host.known}) /\ h.op = "eject" /\ h.left = 0
    BY <1>3, <2>2 DEF HostsOf
  <2> HIDE DEF h
  <2> QED BY <1>1, <2>1, <2>3, SendsSound DEF IsHost, BotOps
<1>4. CASE op \in {"read", "write"}
  <2> DEFINE i == [Msc!NoDrive EXCEPT !.known = host.known]  bs == b..(b + n - 1)
             h1 == [i EXCEPT !.op = op]  h2 == [h1 EXCEPT !.blocks = bs]
             h3 == [h2 EXCEPT !.lba = b]  h4 == [h3 EXCEPT !.left = n]
             h == [h4 EXCEPT !.since = cbw.tag]
             S == {{}, <<>>, 0, host.known, bs, cbw.tag}
  <2>1. Msc!NextPart(h)
    BY <1>4 DEF Msc!Call, Msc!Idle
  <2>2. i \in HostsOf(S)
    BY DEF Msc!NoDrive, HostsOf
  <2>3. bs \in S /\ cbw.tag \in S
    OBVIOUS
  <2> HIDE DEF i, bs, S
  <2>4. h1 \in HostsOf(S) /\ h1.op = op
    BY <1>4, <2>2 DEF HostsOf
  <2> HIDE DEF h1
  <2>5. h2 \in HostsOf(S) /\ h2.op = op
    BY <2>3, <2>4 DEF HostsOf
  <2> HIDE DEF h2
  <2>6. h3 \in HostsOf(S) /\ h3.op = op
    BY <1>1, <2>5 DEF HostsOf
  <2> HIDE DEF h3
  <2>7. h4 \in HostsOf(S) /\ h4.op = op /\ h4.left = n
    BY <1>1, <2>6 DEF HostsOf
  <2> HIDE DEF h4
  <2>8. h \in HostsOf(S) /\ h.op = op /\ h.left = n
    BY <2>3, <2>7 DEF HostsOf
  <2> HIDE DEF h
  <2>9. /\ Msc!Lesser(n, MaxBlocks) \in Nat /\ Msc!Lesser(n, MaxBlocks) > 0
        /\ Msc!Lesser(n, MaxBlocks) <= n
    BY <1>1, ConstantsAssumption DEF Msc!Lesser, Msc!SizesAssumption
  <2>10. Msc!Sends(h, op, Msc!Lesser(n, MaxBlocks))
    BY <2>1, <2>8 DEF Msc!NextPart
  <2>11. IsHost(h)
    BY <2>8 DEF IsHost
  <2> QED BY <1>1, <1>4, <2>8, <2>9, <2>10, <2>11, SendsSound DEF BotOps
<1> QED BY <1>2, <1>3, <1>4

-----------------------------------------------------------------------------
(* The device's steps.                                                     *)

Has(q, ep) == \E i \in DOMAIN q : q[i] = ep

\* The queue of callbacks holds each endpoint once.
LEMMA QueueOf ==
  ASSUME NEW q \in Queues
  PROVE  /\ q # <<>> => /\ Head(q) \in {"out", "in"} /\ Tail(q) \in Queues
                         /\ Has(q, Head(q)) /\ ~Has(Tail(q), Head(q))
                         /\ \A ep \in {"out", "in"} \ {Head(q)} : Has(Tail(q), ep) <=> Has(q, ep)
         /\ \A ep \in {"out", "in"} :
              ~Has(q, ep) => /\ Append(q, ep) \in Queues /\ Has(Append(q, ep), ep)
                             /\ \A o \in {"out", "in"} \ {ep} : Has(Append(q, ep), o) <=> Has(q, o)
<1>1. q \in Seq({"out", "in"}) /\ \A i, j \in DOMAIN q : q[i] = q[j] => i = j
  BY DEF Queues
<1>2. ASSUME q # <<>>
      PROVE  /\ Head(q) \in {"out", "in"} /\ Tail(q) \in Queues
             /\ Has(q, Head(q)) /\ ~Has(Tail(q), Head(q))
             /\ \A ep \in {"out", "in"} \ {Head(q)} : Has(Tail(q), ep) <=> Has(q, ep)
  <2>1. /\ Tail(q) \in Seq({"out", "in"}) /\ Head(q) = q[1] /\ 1 \in DOMAIN q
        /\ q[1] \in {"out", "in"}
        /\ \A i \in DOMAIN Tail(q) : i + 1 \in DOMAIN q /\ Tail(q)[i] = q[i + 1] /\ i \in Nat /\ i > 0
        /\ \A i \in DOMAIN q : i # 1 => i - 1 \in DOMAIN Tail(q) /\ Tail(q)[i - 1] = q[i]
    BY <1>1, <1>2
  <2>2. Tail(q) \in Queues
    <3>1. ASSUME NEW i \in DOMAIN Tail(q), NEW j \in DOMAIN Tail(q), Tail(q)[i] = Tail(q)[j]
          PROVE  i = j
      <4>1. i + 1 \in DOMAIN q /\ j + 1 \in DOMAIN q /\ q[i + 1] = q[j + 1]
        BY <2>1, <3>1
      <4>2. i + 1 = j + 1
        BY <1>1, <4>1
      <4> QED BY <2>1, <4>2
    <3> QED BY <2>1, <3>1 DEF Queues
  <2>3. Has(q, Head(q)) /\ ~Has(Tail(q), Head(q))
    BY <1>1, <2>1 DEF Has
  <2>4. ASSUME NEW ep \in {"out", "in"} \ {Head(q)} PROVE Has(Tail(q), ep) <=> Has(q, ep)
    BY <2>1 DEF Has
  <2> QED BY <2>1, <2>2, <2>3, <2>4
<1>3. ASSUME NEW ep \in {"out", "in"}, ~Has(q, ep)
      PROVE  /\ Append(q, ep) \in Queues /\ Has(Append(q, ep), ep)
             /\ \A o \in {"out", "in"} \ {ep} : Has(Append(q, ep), o) <=> Has(q, o)
  <2>1. /\ Append(q, ep) \in Seq({"out", "in"}) /\ Len(q) \in Nat /\ DOMAIN q = 1 .. Len(q)
        /\ DOMAIN Append(q, ep) = 1 .. Len(q) + 1 /\ Append(q, ep)[Len(q) + 1] = ep
        /\ \A i \in DOMAIN q : Append(q, ep)[i] = q[i]
    BY <1>1
  <2>2. Append(q, ep) \in Queues
    <3>1. ASSUME NEW i \in DOMAIN Append(q, ep), NEW j \in DOMAIN Append(q, ep),
                 Append(q, ep)[i] = Append(q, ep)[j]
          PROVE  i = j
      <4>1. i \in DOMAIN q \/ i = Len(q) + 1
        BY <2>1
      <4>2. j \in DOMAIN q \/ j = Len(q) + 1
        BY <2>1
      <4> QED BY <1>1, <1>3, <2>1, <3>1, <4>1, <4>2 DEF Has
    <3> QED BY <2>1, <3>1 DEF Queues
  <2> QED BY <2>1, <2>2 DEF Has
<1> QED BY <1>2, <1>3

\* The callbacks to come are those of the transfers that are done.
Told(d) == (d.out.at = "done" <=> Has(d.events, "out")) /\ (d.in.at = "done" <=> Has(d.events, "in"))
DevSound(V, d) == d \in Drivers(V) /\ Bounded(d) /\ ~d.raised /\ Told(d)

\* A callback over: what the handler left, without the exception and the event.
RanTo(e) == [e EXCEPT !.raised = FALSE, !.events = Tail(@)]

\* What a callback leaves is sound when what its handler left is.
LEMMA RanLeaves ==
  ASSUME NEW V, NEW e \in Drivers(V), Bounded(e), e.events # <<>>
  PROVE  /\ RanTo(e) \in Drivers(V) /\ Bounded(RanTo(e)) /\ ~RanTo(e).raised
         /\ RanTo(e).events = Tail(e.events) /\ RanTo(e).out = e.out /\ RanTo(e).in = e.in
<1> DEFINE f == [e EXCEPT !.raised = FALSE]  q == Tail(e.events)  g == [f EXCEPT !.events = q]
<1>1. f \in Drivers(V) /\ Bounded(f) /\ ~f.raised /\ f.events = e.events /\ f.out = e.out
      /\ f.in = e.in
  BY DEF Drivers, Bounded
<1>2. q \in Queues
  <2>1. e.events \in Queues
    BY DEF Drivers
  <2> QED BY <2>1, QueueOf
<1>3. RanTo(e) = g
  BY <1>1 DEF RanTo
<1> HIDE DEF f, q
<1>4. g \in Drivers(V) /\ Bounded(g) /\ ~g.raised /\ g.events = q /\ g.out = f.out /\ g.in = f.in
  BY <1>1, <1>2 DEF Drivers, Bounded
<1> QED BY <1>1, <1>3, <1>4 DEF q

\* A callback finds its endpoint free, and the other as it was.
LEMMA FreeOf ==
  ASSUME NEW V, NEW d \in Drivers(V), Bounded(d), ~d.raised
  PROVE  /\ [d EXCEPT !.out = Msc!NoXfer] \in Drivers(V) /\ Bounded([d EXCEPT !.out = Msc!NoXfer])
         /\ [d EXCEPT !.out = Msc!NoXfer].out = Msc!NoXfer /\ [d EXCEPT !.out = Msc!NoXfer].in = d.in
         /\ [d EXCEPT !.out = Msc!NoXfer].events = d.events /\ ~[d EXCEPT !.out = Msc!NoXfer].raised
         /\ [d EXCEPT !.out = Msc!NoXfer].lba = d.lba /\ [d EXCEPT !.out = Msc!NoXfer].left = d.left
         /\ [d EXCEPT !.out = Msc!NoXfer].ejected = d.ejected
         /\ [d EXCEPT !.out = Msc!NoXfer].buf = d.buf
         /\ [d EXCEPT !.out = Msc!NoXfer].chunk = d.chunk
         /\ [d EXCEPT !.in = Msc!NoXfer] \in Drivers(V) /\ Bounded([d EXCEPT !.in = Msc!NoXfer])
         /\ [d EXCEPT !.in = Msc!NoXfer].in = Msc!NoXfer /\ [d EXCEPT !.in = Msc!NoXfer].out = d.out
         /\ [d EXCEPT !.in = Msc!NoXfer].events = d.events
<1>1. Msc!NoXfer \in Xfers(OutKinds) /\ Msc!NoXfer \in Xfers(InKinds) /\ Msc!NoXfer.kind # "chunk"
  BY DEF Msc!NoXfer, Xfers
<1> DEFINE x == Msc!NoXfer
<1> HIDE DEF x
<1>2. x \in Xfers(OutKinds) /\ x \in Xfers(InKinds) /\ x.kind # "chunk"
  BY <1>1 DEF x
<1> SUFFICES /\ [d EXCEPT !.out = x] \in Drivers(V) /\ Bounded([d EXCEPT !.out = x])
             /\ [d EXCEPT !.out = x].out = x /\ [d EXCEPT !.out = x].in = d.in
             /\ [d EXCEPT !.out = x].events = d.events /\ ~[d EXCEPT !.out = x].raised
             /\ [d EXCEPT !.out = x].lba = d.lba /\ [d EXCEPT !.out = x].left = d.left
             /\ [d EXCEPT !.out = x].ejected = d.ejected /\ [d EXCEPT !.out = x].buf = d.buf
             /\ [d EXCEPT !.out = x].chunk = d.chunk
             /\ [d EXCEPT !.in = x] \in Drivers(V) /\ Bounded([d EXCEPT !.in = x])
             /\ [d EXCEPT !.in = x].in = x /\ [d EXCEPT !.in = x].out = d.out
             /\ [d EXCEPT !.in = x].events = d.events
  BY DEF x
<1>3. [d EXCEPT !.out = x] \in Drivers(V) /\ [d EXCEPT !.in = x] \in Drivers(V)
  BY <1>2 DEF Drivers
<1> QED BY <1>2, <1>3 DEF Drivers, Bounded

\* After a callback of either endpoint.
LEMMA CallbackSound ==
  ASSUME NEW V, NEW e, NEW ep \in {"out", "in"},
         DevSound(V, dev), dev.events # <<>>, Head(dev.events) = ep,
         e \in Drivers(V), Bounded(e), e.events = dev.events,
         ep = "out" =>
           (e.out.at # "done" /\ (e.in = dev.in \/ (dev.in.at = "none" /\ e.in.at = "armed"))),
         ep = "in" =>
           (e.in.at # "done" /\ (e.out = dev.out \/ (dev.out.at = "none" /\ e.out.at = "armed")))
  PROVE  DevSound(V, RanTo(e))
<1>1. /\ RanTo(e) \in Drivers(V) /\ Bounded(RanTo(e)) /\ ~RanTo(e).raised
      /\ RanTo(e).events = Tail(dev.events) /\ RanTo(e).out = e.out /\ RanTo(e).in = e.in
  BY RanLeaves
<1>2. /\ ~Has(Tail(dev.events), ep)
      /\ \A o \in {"out", "in"} \ {ep} : Has(Tail(dev.events), o) <=> Has(dev.events, o)
  <2>1. dev.events \in Queues
    BY DEF DevSound, Drivers
  <2> QED BY <2>1, QueueOf
<1>3. CASE ep = "out"
  <2>1. e.in.at = "done" <=> dev.in.at = "done"
    BY <1>3
  <2> QED BY <1>1, <1>2, <1>3, <2>1 DEF DevSound, Told
<1>4. CASE ep = "in"
  <2>1. e.out.at = "done" <=> dev.out.at = "done"
    BY <1>4
  <2> QED BY <1>1, <1>2, <1>4, <2>1 DEF DevSound, Told
<1> QED BY <1>3, <1>4

\* What a chunk that came puts in the medium.
LEMMA WritesBlocks ==
  ASSUME NEW V, medium \in [Msc!LBAs -> V], NEW buf \in [1 .. Chunk -> V], NEW lba \in Nat,
         NEW k \in Nat, k <= Chunk
  PROVE  Msc!writeblocks(lba, k, buf) \in [Msc!LBAs -> V]
<1>1. ASSUME NEW b \in Msc!LBAs, b \in lba .. (lba + k - 1) PROVE b - lba + 1 \in 1 .. Chunk
  BY <1>1, ConstantsAssumption DEF Msc!SizesAssumption, Msc!LBAs
<1> QED BY <1>1 DEF Msc!writeblocks

\* The callback of the OUT endpoint, whichever transfer ended.
LEMMA OutCallbackSound ==
  ASSUME NEW V, Msc!Zero \in V, DevSound(V, dev), medium \in [Msc!LBAs -> V], Msc!OutCallback
  PROVE  DevSound(V, dev') /\ medium' \in [Msc!LBAs -> V]
<1> DEFINE d == [dev EXCEPT !.out = Msc!NoXfer]
<1>1. /\ d \in Drivers(V) /\ Bounded(d) /\ d.out = Msc!NoXfer /\ d.in = dev.in
      /\ d.events = dev.events
      /\ ~d.raised /\ d.lba = dev.lba /\ d.left = dev.left /\ d.ejected = dev.ejected
      /\ d.buf = dev.buf /\ d.chunk = dev.chunk
  BY FreeOf DEF DevSound
<1>2. dev.events # <<>> /\ Head(dev.events) = "out"
  BY DEF Msc!OutCallback
<1>3. dev.out.kind \in OutKinds /\ dev.out.done \in Int
  <2>1. dev.events \in Queues /\ dev.out \in Xfers(OutKinds)
    BY DEF DevSound, Drivers
  <2>2. Has(dev.events, "out")
    BY <1>2, <2>1, QueueOf
  <2> QED BY <2>1, <2>2 DEF DevSound, Told, Xfers, Msc!NoXfer
<1>4. ASSUME NEW e, Handles(V, d, e), dev' = RanTo(e) PROVE DevSound(V, dev')
  <2>1. e.out.at # "done"
    BY <1>1, <1>4 DEF Handles, Msc!NoXfer
  <2> QED BY <1>1, <1>2, <1>4, <2>1, CallbackSound DEF Handles
<1> DEFINE at == d.lba..(d.lba + d.chunk - 1)
<1>5. CASE dev.out.kind = "cbw"
  <2>1. dev' = RanTo(Msc!CbwDone(d)) /\ medium' = medium
    BY <1>5 DEF Msc!OutCallback, Msc!Ran, RanTo
  <2> HIDE DEF d
  <2> QED BY <1>1, <1>4, <2>1, CbwDoneHandles
<1>6. CASE dev.out.kind = "discard"
  <2>1. dev' = RanTo(Msc!DiscardDone(d, dev.out.done)) /\ medium' = medium
    BY <1>6 DEF Msc!OutCallback, Msc!Ran, RanTo
  <2> HIDE DEF d
  <2> QED BY <1>1, <1>3, <1>4, <2>1, DiscardDoneHandles
<1>7. CASE dev.out.kind = "chunk" /\ at \cap bad # {}
  <2>1. dev' = RanTo(Msc!Raise(d)) /\ medium' = medium
    BY <1>7 DEF Msc!OutCallback, Msc!Ran, RanTo
  <2> HIDE DEF d
  <2>2. Handles(V, d, Msc!Raise(d))
    BY <1>1 DEF Msc!Raise, Handles, Drivers, Bounded
  <2> QED BY <1>4, <2>1, <2>2
<1>8. CASE dev.out.kind = "chunk" /\ at \cap bad = {}
  <2>1. dev' = RanTo(Msc!OutDone(d)) /\ medium' = Msc!writeblocks(d.lba, d.chunk, d.buf)
    BY <1>8 DEF Msc!OutCallback, Msc!Ran, RanTo
  <2>2. d.lba + d.left <= Blocks /\ ~d.ejected /\ d.chunk <= Chunk
    BY <1>1, <1>8 DEF DevSound, Bounded
  <2>3. d.lba \in Nat /\ d.chunk \in Nat /\ d.buf \in [1 .. Chunk -> V]
    <3> HIDE DEF d
    <3> QED BY <1>1 DEF Drivers
  <2> HIDE DEF d
  <2>4. Handles(V, d, Msc!OutDone(d))
    BY <1>1, <2>2, OutDoneHandles
  <2>5. medium' \in [Msc!LBAs -> V]
    BY <2>1, <2>2, <2>3, WritesBlocks
  <2> QED BY <1>4, <2>1, <2>4, <2>5
<1> QED BY <1>3, <1>5, <1>6, <1>7, <1>8 DEF OutKinds

\* The callback of the IN endpoint.
LEMMA InCallbackSound ==
  ASSUME NEW V, DevSound(V, dev), medium \in [Msc!LBAs -> V], Msc!InCallback
  PROVE  DevSound(V, dev') /\ medium' = medium
<1> DEFINE d == [dev EXCEPT !.in = Msc!NoXfer]
<1>1. d \in Drivers(V) /\ Bounded(d) /\ d.in = Msc!NoXfer /\ d.out = dev.out /\ d.events = dev.events
  BY FreeOf DEF DevSound
<1>2. dev.events # <<>> /\ Head(dev.events) = "in" /\ medium' = medium
  BY DEF Msc!InCallback
<1>3. dev.in.kind \in InKinds
  <2>1. dev.events \in Queues /\ dev.in \in Xfers(InKinds)
    BY DEF DevSound, Drivers
  <2>2. Has(dev.events, "in")
    BY <1>2, <2>1, QueueOf
  <2> QED BY <2>1, <2>2 DEF DevSound, Told, Xfers, Msc!NoXfer
<1>4. PICK e \in {Msc!InDone(d), Msc!Status(d, 1), Msc!ArmCbw(d)} : dev' = RanTo(e)
  BY <1>3 DEF Msc!InCallback, Msc!Ran, RanTo, InKinds
<1> HIDE DEF d
<1>5. Handles(V, d, e)
  BY <1>1, <1>4, InDoneHandles, StatusHandles, ArmCbwHandles
<1>6. e.in.at # "done"
  BY <1>1, <1>5 DEF Handles, Msc!NoXfer
<1> QED BY <1>1, <1>2, <1>4, <1>5, <1>6, CallbackSound DEF Handles

\* A transfer that moved is still one of its endpoint's, and done when it was the last
\* packet.
LEMMA MovedOf ==
  ASSUME NEW K, NEW t \in Xfers(K), t.at = "armed", NEW p
  PROVE  /\ Msc!Moved(t, p) \in Xfers(K) /\ Msc!Moved(t, p).kind = t.kind
         /\ Msc!Moved(t, p).at = IF Msc!Full(t, p) THEN "done" ELSE "armed"
         /\ Msc!Moved(t, p).left = t.left - 1
         /\ Msc!Moved(t, p).done = IF Msc!Short(p) THEN t.done ELSE t.done + 1
<1>1. t \in [at : {"armed", "done"}, kind : K, left : Int, done : Int]
  BY DEF Xfers, Msc!NoXfer
<1> DEFINE a == IF Msc!Full(t, p) THEN "done" ELSE t.at
           c == IF Msc!Short(p) THEN t.done ELSE t.done + 1
           u == [t EXCEPT !.at = a]  v == [u EXCEPT !.left = @ - 1]  w == [v EXCEPT !.done = c]
<1>2. a \in {"armed", "done"} /\ c \in Int
  BY <1>1
<1>3. Msc!Moved(t, p) = w
  BY <1>1 DEF Msc!Moved
<1> HIDE DEF a, c
<1>4. u \in [at : {"armed", "done"}, kind : K, left : Int, done : Int]
      /\ u.at = a /\ u.kind = t.kind /\ u.left = t.left /\ u.done = t.done
  BY <1>1, <1>2
<1> HIDE DEF u
<1>5. v \in [at : {"armed", "done"}, kind : K, left : Int, done : Int]
      /\ v.at = a /\ v.kind = t.kind /\ v.left = t.left - 1 /\ v.done = t.done
  BY <1>4
<1> HIDE DEF v
<1>6. w \in [at : {"armed", "done"}, kind : K, left : Int, done : Int]
      /\ w.at = a /\ w.kind = t.kind /\ w.left = t.left - 1 /\ w.done = c
  BY <1>2, <1>5
<1> HIDE DEF w
<1> QED BY <1>3, <1>6 DEF Xfers, a, c

\* The transfer of an endpoint moves, and its callback is due when it is done.
MovedTo(ep, p) ==
  IF ep = "out" THEN [dev EXCEPT !.out = Msc!Moved(@, p), !.events = Msc!Event(dev.out, p, "out")]
  ELSE [dev EXCEPT !.in = Msc!Moved(@, p), !.events = Msc!Event(dev.in, p, "in")]

\* A packet moves on one endpoint; the last of a transfer files its event.
LEMMA MovedSound ==
  ASSUME NEW V, DevSound(V, dev), NEW ep \in {"out", "in"}, NEW p,
         ep = "out" => dev.out.at = "armed", ep = "in" => dev.in.at = "armed"
  PROVE  DevSound(V, MovedTo(ep, p))
<1>1. dev \in Drivers(V) /\ Bounded(dev) /\ ~dev.raised /\ Told(dev)
  BY DEF DevSound
<1>2. dev.events \in Queues /\ dev.out \in Xfers(OutKinds) /\ dev.in \in Xfers(InKinds)
  BY <1>1 DEF Drivers
<1>3. CASE ep = "out"
  <2> DEFINE t == Msc!Moved(dev.out, p)  q == Msc!Event(dev.out, p, "out")
             f == [dev EXCEPT !.out = t]  g == [f EXCEPT !.events = q]
  <2>1. /\ t \in Xfers(OutKinds) /\ t.kind = dev.out.kind
        /\ t.at = IF Msc!Full(dev.out, p) THEN "done" ELSE "armed"
    BY <1>2, <1>3, MovedOf
  <2>2. /\ q \in Queues /\ (Has(q, "out") <=> Msc!Full(dev.out, p))
           /\ (Has(q, "in") <=> Has(dev.events, "in"))
    BY <1>1, <1>2, <1>3, QueueOf DEF Msc!Event, Told
  <2>3. MovedTo(ep, p) = g
    BY <1>3, <1>1 DEF MovedTo
  <2> HIDE DEF t, q
  <2>4. /\ f \in Drivers(V) /\ f.out = t /\ f.in = dev.in /\ f.lba = dev.lba /\ f.left = dev.left
        /\ f.chunk = dev.chunk /\ f.ejected = dev.ejected /\ f.raised = dev.raised
    BY <1>1, <2>1 DEF Drivers
  <2> HIDE DEF f
  <2>5. /\ g \in Drivers(V) /\ g.out = t /\ g.in = dev.in /\ g.lba = dev.lba /\ g.left = dev.left
        /\ g.chunk = dev.chunk /\ g.ejected = dev.ejected /\ g.raised = dev.raised /\ g.events = q
    BY <2>2, <2>4 DEF Drivers
  <2> HIDE DEF g
  <2> QED BY <1>1, <2>1, <2>2, <2>3, <2>5 DEF DevSound, Bounded, Told
<1>4. CASE ep = "in"
  <2> DEFINE t == Msc!Moved(dev.in, p)  q == Msc!Event(dev.in, p, "in")
             f == [dev EXCEPT !.in = t]  g == [f EXCEPT !.events = q]
  <2>1. /\ t \in Xfers(InKinds) /\ t.kind = dev.in.kind
        /\ t.at = IF Msc!Full(dev.in, p) THEN "done" ELSE "armed"
    BY <1>2, <1>4, MovedOf
  <2>2. /\ q \in Queues /\ (Has(q, "in") <=> Msc!Full(dev.in, p))
           /\ (Has(q, "out") <=> Has(dev.events, "out"))
    BY <1>1, <1>2, <1>4, QueueOf DEF Msc!Event, Told
  <2>3. MovedTo(ep, p) = g
    BY <1>4, <1>1 DEF MovedTo
  <2> HIDE DEF t, q
  <2>4. /\ f \in Drivers(V) /\ f.in = t /\ f.out = dev.out /\ f.lba = dev.lba /\ f.left = dev.left
        /\ f.chunk = dev.chunk /\ f.ejected = dev.ejected /\ f.raised = dev.raised
    BY <1>1, <2>1 DEF Drivers
  <2> HIDE DEF f
  <2>5. /\ g \in Drivers(V) /\ g.in = t /\ g.out = dev.out /\ g.lba = dev.lba /\ g.left = dev.left
        /\ g.chunk = dev.chunk /\ g.ejected = dev.ejected /\ g.raised = dev.raised /\ g.events = q
    BY <2>2, <2>4 DEF Drivers
  <2> HIDE DEF g
  <2> QED BY <1>1, <2>1, <2>2, <2>3, <2>5 DEF DevSound, Bounded, Told
<1> QED BY <1>3, <1>4

BlockPacketsOut(V) == [kind : {"block"}, tag : {0}, val : V]
Packets(V) == CbwPackets \cup BlockPacketsOut(V)

\* A packet of the host is taken, into the command block or the buffer.
LEMMA PacketOutSound ==
  ASSUME NEW V, V \subseteq Int, Msc!Junk \in V, DevSound(V, dev), send \in Seq(Packets(V)),
         Msc!PacketOut
  PROVE  DevSound(V, dev') /\ send' \in Seq(Packets(V))
<1> DEFINE p == Head(send)  d == MovedTo("out", p)  v == IF Msc!Short(p) THEN Msc!Junk ELSE p.val
           e == [d EXCEPT !.cbw = p]  i == dev.out.done + 1
           b == [d.buf EXCEPT ![i] = v]  f == [d EXCEPT !.buf = b]
<1>1. send # <<>> /\ dev.out.at = "armed" /\ send' = Tail(send)
  BY DEF Msc!PacketOut, Msc!CanSend
<1>2. p \in Packets(V) /\ send' \in Seq(Packets(V))
  BY <1>1
<1>3. dev' = IF dev.out.kind = "cbw" THEN e ELSE f
  BY DEF Msc!PacketOut, MovedTo
<1>4. DevSound(V, d)
  BY <1>1, MovedSound
<1> HIDE DEF d
<1>5. d \in Drivers(V) /\ d.buf \in [1 .. Chunk -> V]
  BY <1>4 DEF DevSound, Drivers
<1>6. p \in CbwPackets \cup BlockPackets(Int)
  <2> HIDE DEF p
  <2>1. CASE p \in CbwPackets
    BY <2>1
  <2>2. CASE p \in BlockPacketsOut(V)
    <3>1. p = [kind |-> "block", tag |-> 0, val |-> p.val] /\ p.val \in Int
      BY <2>2 DEF BlockPacketsOut
    <3>2. \A x \in Int : [kind |-> "block", tag |-> 0, val |-> x] \in BlockPackets(Int)
      BY DEF BlockPackets
    <3> QED BY <3>1, <3>2
  <2> QED BY <1>2, <2>1, <2>2 DEF Packets
<1>7. v \in V
  BY <1>2 DEF Packets, CbwPackets, BlockPacketsOut, Msc!Short
<1> HIDE DEF p, v
<1>8. DevSound(V, e)
  <2>1. d \in Drivers(V) /\ Bounded(d) /\ ~d.raised /\ Told(d)
    BY <1>4 DEF DevSound
  <2>2. e \in Drivers(V) /\ ~e.raised
    BY <1>6, <2>1 DEF Drivers
  <2>3. e.out = d.out /\ e.in = d.in /\ e.events = d.events
    BY <2>1 DEF Drivers
  <2>4. Bounded(e)
    BY <2>1 DEF Drivers, Bounded
  <2>5. Told(e)
    <3> HIDE DEF e
    <3> QED BY <2>1, <2>3 DEF Told
  <2> QED BY <2>2, <2>4, <2>5 DEF DevSound
<1>9. b \in [1 .. Chunk -> V]
  BY <1>5, <1>7
<1> HIDE DEF b
<1>10. DevSound(V, f)
  <2>1. d \in Drivers(V) /\ Bounded(d) /\ ~d.raised /\ Told(d)
    BY <1>4 DEF DevSound
  <2>2. f \in Drivers(V) /\ ~f.raised
    BY <1>9, <2>1 DEF Drivers
  <2>3. f.out = d.out /\ f.in = d.in /\ f.events = d.events
    BY <2>1 DEF Drivers
  <2>4. Bounded(f)
    BY <2>1 DEF Drivers, Bounded
  <2>5. Told(f)
    <3> HIDE DEF f
    <3> QED BY <2>1, <2>3 DEF Told
  <2> QED BY <2>2, <2>4, <2>5 DEF DevSound
<1> QED BY <1>2, <1>3, <1>8, <1>10

\* A packet of the driver is taken by the host.
LEMMA PacketInSound ==
  ASSUME NEW V, DevSound(V, dev), come.room \in Int, Msc!PacketIn
  PROVE  DevSound(V, dev') /\ come'.room \in Int
<1>1. PICK p : /\ dev' = MovedTo("in", p)
               /\ come' = [room |-> IF Msc!Short(p) THEN 0 ELSE come.room - 1,
                           got |-> Append(come.got, p)]
  BY DEF Msc!PacketIn, MovedTo
<1>2. dev.in.at = "armed"
  BY DEF Msc!PacketIn, Msc!CanFetch
<1> QED BY <1>1, <1>2, MovedSound

-----------------------------------------------------------------------------
(* The state is well formed.                                               *)

BotValues(t) == (0 .. t) \cup {Msc!Zero, Msc!Junk, Msc!Unused, Msc!Boards}
BotSound ==
  /\ CallSound(host, cbw) /\ DevSound(BotValues(cbw.tag), dev)
  /\ medium \in [Msc!LBAs -> BotValues(cbw.tag)]
  /\ send \in Seq(Packets(BotValues(cbw.tag))) /\ come.room \in Int

\* The values a block can have, up to a tag.
LEMMA BotValuesOf ==
  ASSUME NEW t \in Nat
  PROVE  /\ Msc!Zero \in BotValues(t) /\ Msc!Junk \in BotValues(t) /\ Msc!Unused \in BotValues(t)
         /\ Msc!Boards \in BotValues(t) /\ t \in BotValues(t) /\ 0 \in BotValues(t)
         /\ BotValues(t) \subseteq Int
BY DEF BotValues, Msc!Zero, Msc!Junk, Msc!Unused, Msc!Boards

\* More values do no harm.
LEMMA MoreValues ==
  ASSUME NEW V, NEW W, V \subseteq W
  PROVE  /\ Drivers(V) \subseteq Drivers(W)
         /\ \A d : DevSound(V, d) => DevSound(W, d)
         /\ [Msc!LBAs -> V] \subseteq [Msc!LBAs -> W]
<1>1. [1 .. Chunk -> V] \subseteq [1 .. Chunk -> W] /\ [Msc!LBAs -> V] \subseteq [Msc!LBAs -> W]
  OBVIOUS
<1>2. Drivers(V) \subseteq Drivers(W)
  <2> DEFINE F == [1 .. Chunk -> V]  G == [1 .. Chunk -> W]
  <2>1. F \subseteq G
    BY <1>1
  <2> HIDE DEF F, G
  <2>2. [cmd : BotCommands, cbw : CbwPackets \cup BlockPackets(Int), csw : ShortPackets,
         reply : ShortPackets, buf : F, lba : Nat, left : Int, chunk : Nat,
         discard : Int, sense : Int, out : Xfers(OutKinds), in : Xfers(InKinds), events : Queues,
         raised : BOOLEAN, ejected : BOOLEAN, card : {"computer", "board"}]
        \subseteq
        [cmd : BotCommands, cbw : CbwPackets \cup BlockPackets(Int), csw : ShortPackets,
         reply : ShortPackets, buf : G, lba : Nat, left : Int, chunk : Nat,
         discard : Int, sense : Int, out : Xfers(OutKinds), in : Xfers(InKinds), events : Queues,
         raised : BOOLEAN, ejected : BOOLEAN, card : {"computer", "board"}]
    BY <2>1
  <2> QED BY <2>2 DEF Drivers, F, G
<1> QED BY <1>1, <1>2 DEF DevSound

\* A host's step that begins a command or ends the call leaves the rest sound.
LEMMA TurnsSound ==
  ASSUME BotSound, CallSound(host', cbw'), Begins \/ Over, UNCHANGED medium,
         DevSound(BotValues(cbw.tag), dev')
  PROVE  BotSound'
<1>1. cbw.tag \in Nat /\ cbw' \in BotCommands /\ cbw'.tag \in Nat
  BY DEF BotSound, CallSound, BotCommands
<1>2. cbw'.tag \in {cbw.tag, cbw.tag + 1}
  BY DEF Begins, Over
<1>3. BotValues(cbw.tag) \subseteq BotValues(cbw'.tag)
  BY <1>1, <1>2 DEF BotValues
<1>4. DevSound(BotValues(cbw'.tag), dev') /\ medium' \in [Msc!LBAs -> BotValues(cbw'.tag)]
  BY <1>3, MoreValues DEF BotSound
<1>5. send' \in Seq(Packets(BotValues(cbw'.tag))) /\ come'.room \in Int
  <2>1. come' = Msc!NoRead
    BY DEF Begins, Over
  <2>2. CASE Over
    BY <2>1, <2>2 DEF Over, Msc!NoRead
  <2>3. CASE Begins
    <3>1. Msc!UsbPacket("cbw", cbw'.tag, cbw') \in CbwPackets
      BY <1>1 DEF Msc!UsbPacket, CbwPackets
    <3>2. send' \in Seq(CbwPackets)
      BY <2>3, <3>1 DEF Begins
    <3> QED BY <2>1, <2>3, <3>1 DEF Begins, Packets, Msc!NoRead
  <2> QED BY <2>2, <2>3
<1> QED BY <1>4, <1>5 DEF BotSound

\* Where Drive is changes, within a call.
GoesTo(at) == host' = [host EXCEPT !.at = at]
GoesWith(at, came) == host' = [[host EXCEPT !.at = at] EXCEPT !.data = came]

\* A step of a call that only moves the host on.
LEMMA CallGoesOn ==
  ASSUME CallSound(host, cbw), host.at # "idle", NEW at \in {"cbw", "data", "csw", "reset"}, NEW came,
         GoesTo(at) \/ GoesWith(at, came), cbw' = cbw
  PROVE  CallSound(host', cbw') /\ host'.at = at
<1>1. PICK S : host \in HostsOf(S)
  BY DEF CallSound, IsHost
<1> DEFINE T == S \cup {came}  g == [host EXCEPT !.at = at]  h == [g EXCEPT !.data = came]
<1>2. g \in HostsOf(T) /\ g.at = at /\ g.op = host.op /\ g.left = host.left
  BY <1>1 DEF HostsOf
<1>3. came \in T /\ host' \in {g, h}
  BY DEF GoesTo, GoesWith
<1> HIDE DEF g, T
<1>4. h \in HostsOf(T) /\ h.at = at /\ h.op = host.op /\ h.left = host.left
  BY <1>2, <1>3 DEF HostsOf
<1> HIDE DEF h
<1> QED BY <1>2, <1>3, <1>4 DEF CallSound, IsHost

\* Both ends begin sound.
LEMMA BotInit == ASSUME Msc!Init PROVE BotSound
<1>1. PICK k \in {0, Blocks} : host = [Msc!NoDrive EXCEPT !.known = k]
  BY DEF Msc!Init
<1>2. IsHost(host) /\ host.at = "idle" /\ host.op = "ready" /\ host.left = 0
  BY <1>1, IdleIsHost
<1>3. cbw = Msc!Command("ready", 0, 0, 0) /\ cbw \in BotCommands /\ Sized(cbw) /\ cbw.tag = 0
  BY DEF Msc!Init, Msc!Command, BotCommands, BotOps, Sized
<1> DEFINE d == [cmd |-> Msc!Command("ready", 0, 0, 0), cbw |-> Msc!UsbPacket("none", 0, 0),
            csw |-> Msc!UsbPacket("none", 0, 0), reply |-> Msc!UsbPacket("none", 0, 0),
            buf |-> [i \in 1..Chunk |-> Msc!Unused], lba |-> 0, left |-> 0, chunk |-> 0,
            discard |-> 0,
            sense |-> Msc!NoSense, out |-> Msc!NoXfer, in |-> Msc!NoXfer, events |-> <<>>,
            raised |-> FALSE, ejected |-> FALSE, card |-> "computer"]
           V == BotValues(0)
<1>4. [i \in 1..Chunk |-> Msc!Unused] \in [1 .. Chunk -> V]
      /\ [b \in Msc!LBAs |-> 0] \in [Msc!LBAs -> V]
  BY BotValuesOf
<1>5. /\ Msc!Command("ready", 0, 0, 0) \in BotCommands
      /\ Msc!UsbPacket("none", 0, 0) \in BlockPackets(Int)
      /\ Msc!UsbPacket("none", 0, 0) \in ShortPackets /\ <<>> \in Queues
      /\ Msc!NoXfer \in Xfers(OutKinds) /\ Msc!NoXfer \in Xfers(InKinds)
  BY <1>3 DEF Msc!UsbPacket, BlockPackets, ShortPackets, Queues, Xfers
<1>6. d \in Drivers(V)
  BY <1>4, <1>5 DEF Drivers, Msc!NoSense
<1>7. /\ d.left = 0 /\ d.out = Msc!NoXfer /\ d.in = Msc!NoXfer /\ d.events = <<>> /\ ~d.raised
  OBVIOUS
<1>8. dev = Msc!ArmCbw(d)
  BY DEF Msc!Init, Msc!OnOpen
<1> HIDE DEF d
<1>9. Bounded(d)
  BY <1>7 DEF Bounded, Msc!NoXfer
<1>10. Handles(V, d, dev) /\ dev.raised = d.raised
  BY <1>6, <1>8, <1>9, ArmCbwHandles
<1>11. DevSound(V, dev)
  BY <1>7, <1>10 DEF Handles, DevSound, Told, Has, Msc!NoXfer
<1>12. medium = [b \in Msc!LBAs |-> 0] /\ send = <<>> /\ come.room = 0
  BY DEF Msc!Init, Msc!NoRead
<1> QED BY <1>2, <1>3, <1>4, <1>11, <1>12 DEF BotSound, CallSound

\* The steps of the host alone, and the reset.
LEMMA HostSteps ==
  ASSUME BotSound,
         \/ \E op \in {"read", "write", "open", "eject"}, b \in Msc!LBAs,
               n \in 1..MaxCount : Msc!Call(op, b, n)
         \/ Msc!CbwSent \/ Msc!DataEnds \/ Msc!CswEnds \/ Msc!Reset \/ Msc!TimeOut
  PROVE  BotSound'
<1>1. CallSound(host, cbw) /\ DevSound(BotValues(cbw.tag), dev) /\ cbw.tag \in Nat /\ cbw.n \in Nat
  BY DEF BotSound, CallSound, BotCommands
<1>2. ASSUME NEW op \in {"read", "write", "open", "eject"}, NEW b \in Msc!LBAs, NEW n \in 1..MaxCount,
             Msc!Call(op, b, n)
      PROVE  BotSound'
  <2>1. UNCHANGED <<dev, medium>>
    BY <1>2 DEF Msc!Call
  <2>2. CallSound(host', cbw') /\ Begins
    BY <1>1, <1>2, CallsSound
  <2> QED BY <1>1, <2>1, <2>2, TurnsSound
<1>3. CASE Msc!CbwSent
  <2>1. PICK at \in {"csw", "data"} : host' = [host EXCEPT !.at = at]
    BY <1>3 DEF Msc!CbwSent
  <2>2. host.at # "idle" /\ UNCHANGED <<cbw, dev, medium>>
        /\ come' \in {Msc!Read(1), Msc!Read(cbw.n), Msc!NoRead}
    BY <1>3 DEF Msc!CbwSent
  <2>3. send' \in Seq(Packets(BotValues(cbw.tag)))
    <3>1. Msc!UsbPacket("block", 0, cbw.tag) \in BlockPacketsOut(BotValues(cbw.tag))
      BY <1>1, BotValuesOf DEF Msc!UsbPacket, BlockPacketsOut
    <3>2. Msc!UsbPacket("block", 0, cbw.tag) \in Packets(BotValues(cbw.tag))
      BY <3>1 DEF Packets
    <3>3. send' = [i \in 1..cbw.n |-> Msc!UsbPacket("block", 0, cbw.tag)] \/ send' = <<>>
      BY <1>3 DEF Msc!CbwSent
    <3> DEFINE x == Msc!UsbPacket("block", 0, cbw.tag)  P == Packets(BotValues(cbw.tag))
    <3>5. send' = [i \in 1..cbw.n |-> x] \/ send' = <<>>
      BY <3>3
    <3>6. x \in P
      BY <3>2
    <3> HIDE DEF x, P
    <3>7. [i \in 1..cbw.n |-> x] \in Seq(P)
      BY <1>1, <3>6
    <3>8. <<>> \in Seq(P)
      OBVIOUS
    <3>9. send' \in Seq(P)
      BY <3>5, <3>7, <3>8
    <3> QED BY <3>9 DEF P
  <2>4. CallSound(host', cbw')
    <3>1. GoesTo(at)
      BY <2>1 DEF GoesTo
    <3> QED BY <1>1, <2>2, <3>1, CallGoesOn
  <2>5. come'.room \in Int
    BY <1>1, <2>2 DEF Msc!Read, Msc!NoRead
  <2> QED BY <2>2, <2>3, <2>4, <2>5 DEF BotSound
<1>4. ASSUME Msc!DataOver, host.at # "idle", UNCHANGED <<cbw, dev, medium>> PROVE BotSound'
  <2>1. CallSound(host', cbw')
    <3>1. GoesWith("csw", come.got)
      BY <1>4 DEF Msc!DataOver, GoesWith
    <3> QED BY <1>1, <1>4, <3>1, CallGoesOn
  <2>2. come'.room \in Int /\ send' = <<>>
    BY <1>4 DEF Msc!DataOver, Msc!Read
  <2> QED BY <1>4, <2>1, <2>2 DEF BotSound
<1>5. CASE Msc!DataEnds
  BY <1>4, <1>5 DEF Msc!DataEnds
<1>6. CASE Msc!CswEnds
  <2>1. host.at = "csw" /\ UNCHANGED <<dev, medium>>
    BY <1>6 DEF Msc!CswEnds
  <2>2. \/ Msc!Settle(come.got[1].val)
        \/ host' = [host EXCEPT !.at = "reset"] /\ UNCHANGED <<cbw, send, come>>
    BY <1>6 DEF Msc!CswEnds
  <2>3. CASE Msc!Settle(come.got[1].val)
    BY <1>1, <2>1, <2>3, SettleSound, TurnsSound
  <2>4. CASE host' = [host EXCEPT !.at = "reset"] /\ UNCHANGED <<cbw, send, come>>
    <3>1. CallSound(host', cbw')
      <4>1. GoesTo("reset")
        BY <2>4 DEF GoesTo
      <4> QED BY <1>1, <2>1, <2>4, <4>1, CallGoesOn
    <3> QED BY <2>1, <2>4, <3>1 DEF BotSound
  <2> QED BY <2>2, <2>3, <2>4
<1>7. CASE Msc!Reset
  <2>1. host.at = "reset" /\ Msc!Settle(2) /\ dev' = Msc!ArmCbw(dev) /\ UNCHANGED medium
    BY <1>7 DEF Msc!Reset, Msc!BotReset
  <2>2. Handles(BotValues(cbw.tag), dev, Msc!ArmCbw(dev)) /\ Msc!ArmCbw(dev).raised = dev.raised
    BY <1>1, ArmCbwHandles DEF DevSound
  <2>3. DevSound(BotValues(cbw.tag), dev')
    BY <1>1, <2>1, <2>2 DEF DevSound, Handles, Told
  <2> QED BY <1>1, <2>1, <2>3, SettleSound, TurnsSound
<1>8. CASE Msc!TimeOut
  <2>1. host.at # "idle" /\ UNCHANGED <<dev, medium>>
    BY <1>8 DEF Msc!TimeOut
  <2>2. (Msc!DataOver /\ UNCHANGED cbw) \/ Msc!Returns
    BY <1>8 DEF Msc!TimeOut
  <2>3. CASE Msc!Returns
    BY <1>1, <2>1, <2>3, ReturnsSound, TurnsSound
  <2> QED BY <1>4, <2>1, <2>2, <2>3
<1> QED BY <1>2, <1>3, <1>5, <1>6, <1>7, <1>8

\* Every step keeps the state well formed.
LEMMA BotNext == ASSUME BotSound, Msc!Next PROVE BotSound'
<1> DEFINE V == BotValues(cbw.tag)
<1>1. /\ CallSound(host, cbw) /\ DevSound(V, dev) /\ cbw.tag \in Nat
      /\ medium \in [Msc!LBAs -> V] /\ send \in Seq(Packets(V)) /\ come.room \in Int
  BY DEF BotSound, CallSound, BotCommands
<1>2. Msc!Zero \in V /\ Msc!Junk \in V /\ Msc!Boards \in V /\ V \subseteq Int
  BY <1>1, BotValuesOf
<1>3. ASSUME UNCHANGED <<host, cbw>>, DevSound(V, dev'), medium' \in [Msc!LBAs -> V],
             send' \in Seq(Packets(V)), come'.room \in Int
      PROVE  BotSound'
  BY <1>1, <1>3 DEF BotSound
<1> HIDE DEF V
<1>4. CASE \/ \E op \in {"read", "write", "open", "eject"}, b \in Msc!LBAs,
                 n \in 1..MaxCount : Msc!Call(op, b, n)
           \/ Msc!CbwSent \/ Msc!DataEnds \/ Msc!CswEnds \/ Msc!Reset \/ Msc!TimeOut
  BY <1>4, HostSteps
<1>5. CASE Msc!Replug
  <2> DEFINE q == <<>>
             f == [dev EXCEPT !.out = Msc!NoXfer]  g == [f EXCEPT !.in = Msc!NoXfer]
             h == [g EXCEPT !.events = q]
  <2>1. host' = Msc!NoDrive /\ send' = <<>> /\ come' = Msc!NoRead /\ UNCHANGED <<cbw, medium>>
        /\ dev' = Msc!ArmCbw(h)
    BY <1>5 DEF Msc!Replug, Msc!OnOpen
  <2>2. f \in Drivers(V) /\ Bounded(f) /\ f.out = Msc!NoXfer /\ ~f.raised
    BY <1>1, FreeOf DEF DevSound
  <2> HIDE DEF f
  <2>3. g \in Drivers(V) /\ Bounded(g) /\ g.out = Msc!NoXfer /\ g.in = Msc!NoXfer
        /\ g.raised = f.raised
    <3>1. g.raised = f.raised
      BY <2>2 DEF Drivers
    <3> QED BY <2>2, <3>1, FreeOf
  <2>4. q \in Queues /\ ~Has(q, "out") /\ ~Has(q, "in")
    BY DEF Queues, Has
  <2> HIDE DEF g, q
  <2>5. h \in Drivers(V) /\ Bounded(h) /\ h.out = Msc!NoXfer /\ h.in = Msc!NoXfer
        /\ h.raised = g.raised
        /\ h.events = q
    BY <2>3, <2>4 DEF Drivers, Bounded
  <2> HIDE DEF h
  <2>6. Handles(V, h, dev') /\ dev'.raised = h.raised
    BY <2>1, <2>5, ArmCbwHandles
  <2>7. DevSound(V, dev')
    BY <2>2, <2>3, <2>4, <2>5, <2>6 DEF Handles, DevSound, Told, Msc!NoXfer
  <2>8. CallSound(host', cbw')
    <3>1. host' = [Msc!NoDrive EXCEPT !.known = 0]
      BY <2>1 DEF Msc!NoDrive
    <3>2. IsHost(host') /\ host'.at = "idle" /\ host'.op = "ready" /\ host'.left = 0
      BY <3>1, IdleIsHost
    <3> QED BY <1>1, <2>1, <3>2 DEF CallSound
  <2>9. send' \in Seq(Packets(V)) /\ come'.room \in Int
    BY <2>1 DEF Msc!NoRead
  <2> QED BY <1>1, <2>1, <2>7, <2>8, <2>9 DEF BotSound, V
<1>6. CASE Msc!Leave \/ Msc!Insert
  <2>1. /\ dev' \in {[dev EXCEPT !.card = "board"], [dev EXCEPT !.ejected = FALSE, !.card = "computer"]}
        /\ UNCHANGED <<host, cbw, medium, send, come>>
    BY <1>6 DEF Msc!Leave, Msc!Insert
  <2>2. DevSound(V, [dev EXCEPT !.card = "board"])
    BY <1>1 DEF DevSound, Drivers, Bounded, Told
  <2> DEFINE f == [dev EXCEPT !.ejected = FALSE]
  <2>3. DevSound(V, f)
    BY <1>1 DEF DevSound, Drivers, Bounded, Told
  <2>4. [dev EXCEPT !.ejected = FALSE, !.card = "computer"] = [f EXCEPT !.card = "computer"]
    OBVIOUS
  <2> HIDE DEF f
  <2>5. DevSound(V, [f EXCEPT !.card = "computer"])
    BY <2>3 DEF DevSound, Drivers, Bounded, Told
  <2> QED BY <1>1, <1>3, <2>1, <2>2, <2>4, <2>5
<1>7. CASE Msc!BoardWrites
  <2>1. UNCHANGED <<host, cbw, send, come, dev>> /\ medium' = [medium EXCEPT ![0] = Msc!Boards]
    BY <1>7 DEF Msc!BoardWrites
  <2> QED BY <1>1, <1>2, <1>3, <2>1
<1>8. CASE Msc!PacketOut
  <2>1. UNCHANGED <<host, cbw, come, medium>>
    BY <1>8 DEF Msc!PacketOut
  <2>2. DevSound(V, dev') /\ send' \in Seq(Packets(V))
    BY <1>1, <1>2, <1>8, PacketOutSound
  <2> QED BY <1>1, <1>3, <2>1, <2>2
<1>9. CASE Msc!PacketIn
  <2>1. UNCHANGED <<host, cbw, send, medium>>
    BY <1>9 DEF Msc!PacketIn
  <2>2. DevSound(V, dev') /\ come'.room \in Int
    BY <1>1, <1>9, PacketInSound
  <2> QED BY <1>1, <1>3, <2>1, <2>2
<1>10. CASE Msc!OutCallback
  <2>1. UNCHANGED <<host, cbw, send, come>>
    BY <1>10 DEF Msc!OutCallback
  <2>2. DevSound(V, dev') /\ medium' \in [Msc!LBAs -> V]
    BY <1>1, <1>2, <1>10, OutCallbackSound
  <2> QED BY <1>1, <1>3, <2>1, <2>2
<1>11. CASE Msc!InCallback
  <2>1. UNCHANGED <<host, cbw, send, come>>
    BY <1>11 DEF Msc!InCallback
  <2>2. DevSound(V, dev') /\ medium' = medium
    BY <1>1, <1>11, InCallbackSound
  <2> QED BY <1>1, <1>3, <2>1, <2>2
<1> QED BY <1>4, <1>5, <1>6, <1>7, <1>8, <1>9, <1>10, <1>11 DEF Msc!Next

\* What is sound is well typed.
LEMMA BotTypes == ASSUME BotSound PROVE Msc!TypeOK
<1>1. PICK S : host \in HostsOf(S)
  BY DEF BotSound, CallSound, IsHost
<1>2. host.at \in {"idle", "cbw", "data", "csw", "reset"} /\ host.left \in Nat
  BY <1>1 DEF HostsOf
<1>3. dev \in Drivers(BotValues(cbw.tag)) /\ Bounded(dev) /\ ~dev.raised /\ Told(dev)
  BY DEF BotSound, DevSound
<1>4. dev.out.at \in {"none", "armed", "done"} /\ dev.in.at \in {"none", "armed", "done"}
  <2>1. dev.out \in Xfers(OutKinds) /\ dev.in \in Xfers(InKinds)
    BY <1>3 DEF Drivers
  <2> QED BY <2>1 DEF Xfers, Msc!NoXfer
<1>5. \A b \in Msc!LBAs : medium[b] \in 0..(cbw.tag) \cup {Msc!Zero, Msc!Junk, Msc!Unused, Msc!Boards}
  BY DEF BotSound, BotValues
<1>6. \A ep \in {"out", "in"} : dev[ep].at = "done" <=> \E i \in DOMAIN dev.events : dev.events[i] = ep
  BY <1>3 DEF Told, Has
<1> QED BY <1>2, <1>3, <1>4, <1>5, <1>6 DEF Msc!TypeOK, Bounded

-----------------------------------------------------------------------------
\* The phases of a device whose transfers go one at a time.  None pending; ready for a
\* command block; the status has gone, and its callback is to come.
Quiet(d) == d.out = Msc!NoXfer /\ d.in = Msc!NoXfer /\ d.events = <<>>
Ready(d) == d.out = Msc!Armed("cbw", 1) /\ d.in = Msc!NoXfer /\ d.events = <<>>
Answered(d) == d.out = Msc!NoXfer /\ d.in.at = "done" /\ d.in.kind = "csw" /\ d.events = <<"in">>
AtRest(d) == Ready(d) \/ Answered(d)

\* It has received the block of command c, whose callback is to come.
Taken(d, c) ==
  /\ d.out.at = "done" /\ d.out.kind = "cbw" /\ d.in = Msc!NoXfer /\ d.events = <<"out">>
  /\ d.cbw = Msc!UsbPacket("cbw", c.tag, c)

\* It offers c's status.
Tells(d, c) == d.out = Msc!NoXfer /\ d.in = Msc!Armed("csw", 1) /\ d.csw.kind = "csw"
               /\ d.csw.tag = c.tag
Telling(d, c) == Tells(d, c) /\ d.events = <<>>

\* It is to give m packets of c's data, or to take them.
Supply(d, c, m) ==
  /\ d.out = Msc!NoXfer /\ d.cmd = c
  /\ \/ d.in.kind = "reply" /\ d.left = 0 /\ d.in.left <= 1 /\ m = d.in.left
     \/ d.in.kind = "data" /\ d.left >= 0 /\ m = d.in.left + d.left
     \/ d.in.kind = "fail" /\ m = d.in.left
Giving(d, c, m) == Supply(d, c, m) /\ d.in.at = "armed" /\ d.in.left > 0
Gives(d, c, m) ==
  \/ Giving(d, c, m) /\ d.events = <<>>
  \/ Supply(d, c, m) /\ d.in.at = "done" /\ d.in.left = 0 /\ d.events = <<"in">>

Demand(d, c, m) ==
  /\ d.in = Msc!NoXfer /\ d.cmd = c
  /\ \/ d.out.kind = "chunk" /\ d.chunk <= d.left /\ m = d.out.left + (d.left - d.chunk)
     \/ d.out.kind = "discard" /\ d.out.done + d.out.left <= d.discard /\ m = d.discard - d.out.done
Taking(d, c, m) == Demand(d, c, m) /\ d.out.at = "armed" /\ d.out.left > 0
Takes(d, c, m) ==
  \/ Taking(d, c, m) /\ d.events = <<>>
  \/ Demand(d, c, m) /\ d.out.at = "done" /\ d.out.left = 0 /\ d.events = <<"out">>

\* It has begun on c: no data, or the first of its data.
Begun(d, c) ==
  \/ c.n = 0 /\ Tells(d, c)
  \/ Msc!ToHost(c) /\ \E m \in 0..(c.n) : Giving(d, c, m)
  \/ Msc!ToDevice(c) /\ Taking(d, c, c.n)

\* The host's phases, each with those of the device that go with it.
AtIdle == send = <<>> /\ come = Msc!NoRead /\ AtRest(dev)
AtCbw ==
  /\ come = Msc!NoRead
  /\ \/ send = <<Msc!UsbPacket("cbw", cbw.tag, cbw)>> /\ AtRest(dev)
     \/ send = <<>> /\ (Taken(dev, cbw) \/ (Begun(dev, cbw) /\ dev.events = <<>>))
Fetches ==
  /\ Msc!ToHost(cbw) /\ send = <<>>
  /\ \/ come = Msc!Read(cbw.n) /\ Taken(dev, cbw)
     \/ \E m \in 0..(come.room) : Gives(dev, cbw, m)
     \/ Telling(dev, cbw)
     \/ come.room = 0 /\ AtRest(dev)
Delivers ==
  /\ Msc!ToDevice(cbw) /\ come = Msc!NoRead /\ \A i \in DOMAIN send : send[i].kind = "block"
  /\ \/ Taken(dev, cbw) /\ Len(send) = cbw.n
     \/ Takes(dev, cbw, Len(send))
     \/ send = <<>> /\ Telling(dev, cbw)
Awaits ==
  /\ come = Msc!Read(1)
  /\ \/ Taken(dev, cbw) /\ cbw.n = 0
     \/ Gives(dev, cbw, 0) \/ Takes(dev, cbw, 0)
     \/ Telling(dev, cbw) \/ AtRest(dev)
Heard == come.room = 0 /\ come.got # <<>> /\ Msc!IsOwn(come.got[1]) /\ AtRest(dev)
Together ==
  \/ host.at = "idle" /\ AtIdle
  \/ host.at = "cbw" /\ AtCbw
  \/ host.at = "data" /\ (Fetches \/ Delivers)
  \/ host.at = "csw" /\ send = <<>> /\ (Awaits \/ Heard)

\* A quick device whose callback raised is quiet for good, and a call waits for it.
Stuck == Quiet(dev) /\ host.at # "reset" /\ (host.at = "csw" => come.room > 0)
Alone == prompt => IF escaped THEN Stuck ELSE Together

-----------------------------------------------------------------------------
(* The handlers of a device whose transfers go one at a time.              *)

\* A handler begins with no transfer pending.
Free(V, d, c) == d \in Drivers(V) /\ d.out = Msc!NoXfer /\ d.in = Msc!NoXfer /\ d.cmd = c /\ ~d.raised

\* What a submission does to the rest of the driver.
LEMMA SubmitsFree ==
  ASSUME NEW V, NEW d \in Drivers(V), NEW n \in Int
  PROVE  /\ \A kind \in InKinds : d.in = Msc!NoXfer =>
              LET e == Msc!SubmitIn(d, kind, n) IN
              e.in = Msc!Armed(kind, n) /\ e.out = d.out /\ e.cmd = d.cmd /\ e.csw = d.csw
              /\ e.left = d.left /\ e.raised = d.raised
         /\ \A kind \in OutKinds : d.out = Msc!NoXfer =>
              LET e == Msc!SubmitOut(d, kind, n) IN
              e.out = Msc!Armed(kind, n) /\ e.in = d.in /\ e.cmd = d.cmd /\ e.left = d.left
              /\ e.chunk = d.chunk /\ e.discard = d.discard /\ e.raised = d.raised
<1>1. ASSUME NEW kind \in InKinds, d.in = Msc!NoXfer
      PROVE  LET e == Msc!SubmitIn(d, kind, n) IN
             e.in = Msc!Armed(kind, n) /\ e.out = d.out /\ e.cmd = d.cmd /\ e.csw = d.csw
             /\ e.left = d.left /\ e.raised = d.raised
  <2> DEFINE t == Msc!Armed(kind, n)  e == [d EXCEPT !.in = t]
  <2>1. Msc!SubmitIn(d, kind, n) = e
    BY <1>1 DEF Msc!SubmitIn, Msc!NoXfer
  <2> HIDE DEF t
  <2>2. e.in = t /\ e.out = d.out /\ e.cmd = d.cmd /\ e.csw = d.csw /\ e.left = d.left
        /\ e.raised = d.raised
    BY DEF Drivers
  <2> QED BY <2>1, <2>2 DEF t
<1>2. ASSUME NEW kind \in OutKinds, d.out = Msc!NoXfer
      PROVE  LET e == Msc!SubmitOut(d, kind, n) IN
             e.out = Msc!Armed(kind, n) /\ e.in = d.in /\ e.cmd = d.cmd /\ e.left = d.left
             /\ e.chunk = d.chunk /\ e.discard = d.discard /\ e.raised = d.raised
  <2> DEFINE t == Msc!Armed(kind, n)  e == [d EXCEPT !.out = t]
  <2>1. Msc!SubmitOut(d, kind, n) = e
    BY <1>2 DEF Msc!SubmitOut, Msc!NoXfer
  <2> HIDE DEF t
  <2>2. /\ e.out = t /\ e.in = d.in /\ e.cmd = d.cmd /\ e.left = d.left /\ e.chunk = d.chunk
        /\ e.discard = d.discard /\ e.raised = d.raised
    BY DEF Drivers
  <2> QED BY <2>1, <2>2 DEF t
<1> QED BY <1>1, <1>2

\* A status is offered.
LEMMA StatusTells ==
  ASSUME NEW V, NEW c, NEW d, Free(V, d, c), NEW status \in {0, 1}
  PROVE  Tells(Msc!Status(d, status), c) /\ ~Msc!Status(d, status).raised
<1> DEFINE p == Msc!UsbPacket("csw", d.cmd.tag, status)  f == [d EXCEPT !.csw = p]
<1>1. p \in ShortPackets /\ p.kind = "csw" /\ p.tag = c.tag
  <2>1. d.cmd.tag \in Nat /\ d.cmd = c
    BY DEF Free, Drivers, BotCommands
  <2> QED BY <2>1 DEF Msc!UsbPacket, ShortPackets
<1>2. Msc!Status(d, status) = Msc!SubmitIn(f, "csw", 1)
  BY DEF Msc!Status
<1> HIDE DEF p
<1>3. f \in Drivers(V) /\ f.out = Msc!NoXfer /\ f.in = Msc!NoXfer /\ f.csw = p /\ f.raised = d.raised
  BY <1>1 DEF Free, Drivers
<1> HIDE DEF f
<1>4. LET e == Msc!SubmitIn(f, "csw", 1) IN
      e.in = Msc!Armed("csw", 1) /\ e.out = f.out /\ e.csw = f.csw /\ e.raised = f.raised
  BY <1>3, SubmitsFree DEF InKinds
<1> QED BY <1>1, <1>2, <1>3, <1>4 DEF Tells, Free

\* The fields of a transfer just begun.
LEMMA ArmedOf ==
  ASSUME NEW kind, NEW n
  PROVE  /\ Msc!Armed(kind, n).at = "armed" /\ Msc!Armed(kind, n).kind = kind
         /\ Msc!Armed(kind, n).left = n
         /\ Msc!Armed(kind, n).done = 0
BY DEF Msc!Armed

\* A chunk is not empty.
LEMMA LesserPositive ==
  ASSUME NEW a \in Int, a > 0
  PROVE  Msc!Lesser(a, Chunk) \in Int /\ Msc!Lesser(a, Chunk) > 0 /\ Msc!Lesser(a, Chunk) <= a
BY ConstantsAssumption DEF Msc!Lesser, Msc!SizesAssumption

\* _discard demands what is left to discard.
LEMMA DiscardTakes ==
  ASSUME NEW V, NEW c, NEW d, Free(V, d, c), d.discard > 0
  PROVE  Taking(Msc!Discard(d), c, d.discard) /\ ~Msc!Discard(d).raised
<1> DEFINE n == Msc!Lesser(d.discard, Chunk)  e == Msc!SubmitOut(d, "discard", n)
<1>1. n \in Int /\ n > 0 /\ n <= d.discard /\ d.discard \in Int
  BY LesserPositive DEF Free, Drivers
<1> HIDE DEF n
<1>2. e.out = Msc!Armed("discard", n) /\ e.in = d.in /\ e.cmd = d.cmd /\ e.discard = d.discard
      /\ e.raised = d.raised
  BY <1>1, SubmitsFree DEF OutKinds, Free
<1>3. Msc!Discard(d) = e
  BY DEF Msc!Discard, n
<1> HIDE DEF e
<1> QED BY <1>1, <1>2, <1>3, ArmedOf DEF Taking, Demand, Free

\* _write_chunk_arm demands what is left of the write.
LEMMA WriteChunkArmTakes ==
  ASSUME NEW V, NEW c, NEW d, Free(V, d, c), d.left > 0
  PROVE  Taking(Msc!WriteChunkArm(d), c, d.left) /\ ~Msc!WriteChunkArm(d).raised
<1> DEFINE k == Msc!Lesser(d.left, Chunk)  f == [d EXCEPT !.chunk = k]
           e == Msc!SubmitOut(f, "chunk", k)
<1>1. k \in Int /\ k > 0 /\ k <= d.left /\ d.left \in Int
  BY LesserPositive DEF Free, Drivers
<1>2. Msc!WriteChunkArm(d) = e
  BY DEF Msc!WriteChunkArm
<1> HIDE DEF k
<1>3. /\ f \in Drivers(V) /\ f.out = Msc!NoXfer /\ f.in = Msc!NoXfer /\ f.cmd = c
      /\ f.raised = d.raised
      /\ f.chunk = k /\ f.left = d.left
  BY <1>1 DEF Free, Drivers
<1> HIDE DEF f
<1>4. /\ e.out = Msc!Armed("chunk", k) /\ e.in = f.in /\ e.cmd = f.cmd /\ e.left = f.left
      /\ e.chunk = f.chunk /\ e.raised = f.raised
  BY <1>1, <1>3, SubmitsFree DEF OutKinds
<1> HIDE DEF e
<1> QED BY <1>1, <1>2, <1>3, <1>4, ArmedOf DEF Taking, Demand, Free

\* A reply of one packet.
LEMMA SendGives ==
  ASSUME NEW V, NEW c, NEW d, Free(V, d, c), NEW kind \in {"reply", "capacity"}, NEW val \in Int
  PROVE  Giving(Msc!Send(d, kind, val), c, 1) /\ ~Msc!Send(d, kind, val).raised
<1> DEFINE p == Msc!UsbPacket(kind, 0, val)  f == [d EXCEPT !.reply = p]  g == [f EXCEPT !.left = 0]
           e == Msc!SubmitIn(g, "reply", 1)
<1>1. p \in ShortPackets
  BY DEF Msc!UsbPacket, ShortPackets
<1>2. Msc!Send(d, kind, val) = e
  BY DEF Msc!Send
<1> HIDE DEF p
<1>3. f \in Drivers(V) /\ f.out = Msc!NoXfer /\ f.in = Msc!NoXfer /\ f.cmd = c /\ f.raised = d.raised
  BY <1>1 DEF Free, Drivers
<1> HIDE DEF f
<1>4. g \in Drivers(V) /\ g.out = Msc!NoXfer /\ g.in = Msc!NoXfer /\ g.cmd = c
      /\ g.raised = d.raised /\ g.left = 0
  BY <1>3 DEF Drivers
<1> HIDE DEF g
<1>5. e.in = Msc!Armed("reply", 1) /\ e.out = g.out /\ e.cmd = g.cmd /\ e.left = g.left
      /\ e.raised = g.raised
  BY <1>4, SubmitsFree DEF InKinds
<1> HIDE DEF e
<1> QED BY <1>2, <1>4, <1>5, ArmedOf DEF Giving, Supply, Free

\* The next chunk of a read, or an exception.
LEMMA ReadChunkGives ==
  ASSUME NEW V, NEW c, NEW d, Free(V, d, c), d.left > 0, d.lba + d.left <= Blocks,
         medium \in [Msc!LBAs -> V]
  PROVE  LET e == Msc!ReadChunk(d) IN
         \/ e.raised /\ e.out = Msc!NoXfer /\ e.in = Msc!NoXfer /\ e.cmd = c
         \/ Giving(e, c, d.left) /\ ~e.raised
<1> DEFINE k == Msc!Lesser(d.left, Chunk)  r == Msc!readblocks(d.lba, k, d.buf)
           f == [d EXCEPT !.buf = r]  g == PutPlace(f, d.lba + k, d.left - k)
           e == Msc!SubmitIn(g, "data", k)
<1>1. k \in Int /\ k > 0 /\ k <= d.left /\ d.left \in Int /\ d.lba \in Nat /\ k <= Chunk
      /\ d.buf \in [1 .. Chunk -> V]
  <2>1. d.left \in Int /\ d.lba \in Nat /\ d.buf \in [1 .. Chunk -> V]
    BY DEF Free, Drivers
  <2> QED BY <2>1, LesserPositive, ConstantsAssumption DEF Msc!Lesser, Msc!SizesAssumption
<1>2. Msc!ReadChunk(d) = IF (d.lba..(d.lba + k - 1)) \cap bad # {} THEN Msc!Raise(d) ELSE e
  <2>1. [d EXCEPT !.buf = Msc!readblocks(d.lba, k, @), !.lba = @ + k, !.left = @ - k] = g
    BY DEF Free, Drivers, PutPlace
  <2> QED BY <2>1 DEF Msc!ReadChunk
<1>3. /\ Msc!Raise(d).raised /\ Msc!Raise(d).out = Msc!NoXfer /\ Msc!Raise(d).in = Msc!NoXfer
      /\ Msc!Raise(d).cmd = c
  BY DEF Msc!Raise, Free, Drivers
<1>4. r \in [1 .. Chunk -> V]
  <2>1. \A i \in 1 .. Chunk : i <= k => d.lba + i - 1 \in Msc!LBAs
    BY <1>1, ConstantsAssumption DEF Msc!LBAs, Msc!SizesAssumption
  <2> QED BY <1>1, <2>1 DEF Msc!readblocks
<1> HIDE DEF k, r
<1>5. f \in Drivers(V) /\ f.out = Msc!NoXfer /\ f.in = Msc!NoXfer /\ f.cmd = c /\ f.raised = d.raised
  BY <1>4 DEF Free, Drivers
<1> HIDE DEF f
<1>6. /\ g \in Drivers(V) /\ g.out = Msc!NoXfer /\ g.in = Msc!NoXfer /\ g.cmd = c
      /\ g.raised = d.raised
      /\ g.left = d.left - k
  <2>1. d.lba + k \in Nat /\ d.left - k \in Int
    BY <1>1
  <2>2. g \in Drivers(V) /\ g.left = d.left - k
    BY <1>5, <2>1, Places
  <2>3. g.out = f.out /\ g.in = f.in /\ g.cmd = f.cmd /\ g.raised = f.raised
    BY <1>5 DEF PutPlace, Drivers
  <2> QED BY <1>5, <2>2, <2>3
<1> HIDE DEF g
<1>7. e.in = Msc!Armed("data", k) /\ e.out = g.out /\ e.cmd = g.cmd /\ e.left = g.left
      /\ e.raised = g.raised
  BY <1>1, <1>6, SubmitsFree DEF InKinds
<1> HIDE DEF e
<1>8. Giving(e, c, d.left) /\ ~e.raised
  BY <1>1, <1>6, <1>7, ArmedOf DEF Giving, Supply, Free
<1> QED BY <1>2, <1>3, <1>8

\* A failed command that has been received is begun all the same.
LEMMA FailBegins ==
  ASSUME NEW V, Msc!Zero \in V, NEW c, Sized(c), NEW d, Free(V, d, c), NEW sense \in Int
  PROVE  Begun(Msc!Fail(d, sense), c) /\ ~Msc!Fail(d, sense).raised
<1> DEFINE k == Msc!Lesser(c.n, Chunk)  e == [d EXCEPT !.sense = sense]
           f == [e EXCEPT !.discard = c.n]
           z == [i \in 1..Chunk |-> IF i <= k THEN Msc!Zero ELSE e.buf[i]]
           g == [e EXCEPT !.buf = z]  h == [g EXCEPT !.left = 0]  s == Msc!SubmitIn(h, "fail", k)
<1>1. c \in BotCommands /\ c.n \in Nat /\ c = d.cmd
  BY DEF Free, Drivers, BotCommands
<1>2. k \in Int
  BY <1>1, ConstantsAssumption DEF Msc!SizesAssumption, Msc!Lesser
<1>3. c.n > 0 => k > 0 /\ k <= c.n
  BY <1>1, LesserPositive
<1>4. /\ e \in Drivers(V) /\ e.out = Msc!NoXfer /\ e.in = Msc!NoXfer /\ e.cmd = c /\ ~e.raised
  BY DEF Free, Drivers
<1>5. Msc!Fail(d, sense) = CASE Msc!ToDevice(c) -> Msc!Discard(f)
                             [] Msc!ToHost(c) -> s
                             [] OTHER -> Msc!Status(e, 1)
  <2>1. [e EXCEPT !.buf = [i \in 1..Chunk |-> IF i <= k THEN Msc!Zero ELSE @[i]], !.left = 0] = h
    <3> HIDE DEF e, k
    <3> QED BY <1>4 DEF Drivers
  <2>2. d.cmd = c
    BY <1>1
  <2> HIDE DEF h, s, f
  <2> QED BY <2>1, <2>2 DEF Msc!Fail, s, f
<1> HIDE DEF e, k
<1>6. CASE Msc!ToDevice(c)
  <2>1. c.n > 0 /\ c.n \in Int
    BY <1>1, <1>6 DEF Msc!ToDevice, Sized
  <2>2. Free(V, f, c) /\ f.discard = c.n
    BY <1>4, <2>1 DEF Free, Drivers
  <2> HIDE DEF f
  <2>3. Taking(Msc!Discard(f), c, c.n) /\ ~Msc!Discard(f).raised
    BY <2>1, <2>2, DiscardTakes
  <2>4. Msc!Fail(d, sense) = Msc!Discard(f)
    BY <1>5, <1>6 DEF Msc!ToHost, Msc!ToDevice
  <2> QED BY <1>6, <2>3, <2>4 DEF Begun
<1>7. CASE Msc!ToHost(c)
  <2>1. c.n > 0
    BY <1>1, <1>7 DEF Msc!ToHost, Sized
  <2>2. z \in [1 .. Chunk -> V]
    <3>1. e.buf \in [1 .. Chunk -> V]
      BY <1>4 DEF Drivers
    <3> QED BY <3>1
  <2> HIDE DEF z
  <2>3. g \in Drivers(V) /\ g.out = Msc!NoXfer /\ g.in = Msc!NoXfer /\ g.cmd = c /\ ~g.raised
    BY <1>4, <2>2 DEF Drivers
  <2> HIDE DEF g
  <2>4. h \in Drivers(V) /\ h.out = Msc!NoXfer /\ h.in = Msc!NoXfer /\ h.cmd = c /\ ~h.raised
    BY <2>3 DEF Drivers
  <2> HIDE DEF h
  <2>5. s.in = Msc!Armed("fail", k) /\ s.out = h.out /\ s.cmd = h.cmd /\ s.raised = h.raised
    BY <1>2, <2>4, SubmitsFree DEF InKinds
  <2> HIDE DEF s
  <2>6. Giving(s, c, k) /\ ~s.raised
    BY <1>3, <2>1, <2>4, <2>5, ArmedOf DEF Giving, Supply
  <2>7. k \in 0..(c.n)
    BY <1>1, <1>2, <1>3, <2>1
  <2>8. ~Msc!ToDevice(c) /\ Msc!Fail(d, sense) = s
    BY <1>5, <1>7 DEF Msc!ToHost, Msc!ToDevice
  <2> QED BY <1>7, <2>6, <2>7, <2>8 DEF Begun
<1>8. CASE ~Msc!ToDevice(c) /\ ~Msc!ToHost(c)
  <2>1. c.n = 0
    BY <1>1, <1>8 DEF Msc!ToHost, Msc!ToDevice, Sized, BotCommands, BotOps
  <2>2. Free(V, e, c)
    BY <1>4 DEF Free
  <2>3. Tells(Msc!Status(e, 1), c) /\ ~Msc!Status(e, 1).raised
    BY <2>2, StatusTells
  <2>4. Msc!Fail(d, sense) = Msc!Status(e, 1)
    BY <1>5, <1>8
  <2> QED BY <2>1, <2>3, <2>4 DEF Begun
<1> QED BY <1>6, <1>7, <1>8

\* Any command is begun, or the medium has raised.
LEMMA DispatchBegins ==
  ASSUME NEW V, Msc!Zero \in V, NEW c, Sized(c), NEW d, Free(V, d, c), medium \in [Msc!LBAs -> V]
  PROVE  LET e == Msc!Dispatch(d) IN
         \/ e.raised /\ e.out = Msc!NoXfer /\ e.in = Msc!NoXfer /\ e.cmd = c
         \/ Begun(e, c) /\ ~e.raised
<1>1. c \in BotCommands /\ c.n \in Nat /\ c.lba \in Nat /\ c = d.cmd /\ d.sense \in Int
  BY DEF Free, Drivers, BotCommands
<1>2. c.op \in BotOps
  BY <1>1 DEF BotCommands
<1>3. Msc!NotReady \in Int /\ Msc!Illegal \in Int /\ Msc!Protected \in Int /\ Msc!NoSense \in Int
      /\ Blocks \in Int
  BY ConstantsAssumption DEF Msc!NotReady, Msc!Illegal, Msc!Protected, Msc!NoSense,
     Msc!SizesAssumption
<1>4. \A sense \in Int : Begun(Msc!Fail(d, sense), c) /\ ~Msc!Fail(d, sense).raised
  BY FailBegins
<1>5. CASE c.op = "eject"
  <2> DEFINE f == [d EXCEPT !.ejected = TRUE]
  <2>1. Free(V, f, c)
    BY DEF Free, Drivers
  <2>2. Msc!Dispatch(d) = Msc!Status(f, 0)
    BY <1>1, <1>5 DEF Msc!Dispatch
  <2>3. Tells(Msc!Status(f, 0), c) /\ ~Msc!Status(f, 0).raised
    BY <2>1, StatusTells
  <2> QED BY <1>5, <2>2, <2>3 DEF Begun, Sized
<1>6. CASE c.op = "sense"
  <2> DEFINE f == [d EXCEPT !.sense = Msc!NoSense]
  <2>1. Free(V, f, c)
    BY <1>3 DEF Free, Drivers
  <2>2. Msc!Dispatch(d) = Msc!Send(f, "reply", d.sense)
    BY <1>1, <1>6 DEF Msc!Dispatch
  <2> HIDE DEF f
  <2>3. Giving(Msc!Send(f, "reply", d.sense), c, 1) /\ ~Msc!Send(f, "reply", d.sense).raised
    BY <1>1, <2>1, SendGives
  <2> QED BY <1>6, <2>2, <2>3 DEF Begun, Sized, Msc!ToHost
<1>7. CASE d.ejected /\ c.op \notin {"eject", "sense"}
  <2>1. Msc!Dispatch(d) = Msc!Fail(d, Msc!NotReady)
    BY <1>1, <1>7 DEF Msc!Dispatch
  <2> QED BY <1>3, <1>4, <2>1
<1>8. CASE ~d.ejected /\ c.op = "ready"
  <2>1. Msc!Dispatch(d) = Msc!Status(d, 0)
    BY <1>1, <1>8 DEF Msc!Dispatch
  <2>2. Tells(Msc!Status(d, 0), c) /\ ~Msc!Status(d, 0).raised
    BY StatusTells
  <2> QED BY <1>8, <2>1, <2>2 DEF Begun, Sized
<1>9. CASE ~d.ejected /\ c.op = "capacity"
  <2>1. Msc!Dispatch(d) = Msc!Send(d, "capacity", Blocks)
    BY <1>1, <1>9 DEF Msc!Dispatch
  <2>2. Giving(Msc!Send(d, "capacity", Blocks), c, 1) /\ ~Msc!Send(d, "capacity", Blocks).raised
    <3>1. \A val \in Int : /\ Giving(Msc!Send(d, "capacity", val), c, 1)
                           /\ ~Msc!Send(d, "capacity", val).raised
      BY SendGives
    <3> QED BY <1>3, <3>1
  <2> QED BY <1>9, <2>1, <2>2 DEF Begun, Sized, Msc!ToHost
<1> DEFINE p == PutPlace(d, c.lba, c.n)
<1>10. Free(V, p, c) /\ p.lba = c.lba /\ p.left = c.n
  <2>1. p \in Drivers(V) /\ Same(d, p) /\ p.lba = c.lba /\ p.left = c.n
    <3>1. d \in Drivers(V)
      BY DEF Free
    <3>2. \A l \in Nat, n \in Int :
             /\ PutPlace(d, l, n) \in Drivers(V) /\ Same(d, PutPlace(d, l, n))
             /\ PutPlace(d, l, n).lba = l /\ PutPlace(d, l, n).left = n
      BY <3>1, Places
    <3>3. c.lba \in Nat /\ c.n \in Int
      BY <1>1
    <3> QED BY <3>2, <3>3
  <2> QED BY <2>1 DEF Free, Same
<1>11. CASE ~d.ejected /\ c.op = "read"
  <2>1. Msc!Dispatch(d) = IF Msc!OutOfRange(c) THEN Msc!Fail(d, Msc!Illegal) ELSE Msc!ReadChunk(p)
    BY <1>1, <1>11 DEF Msc!Dispatch, PutPlace
  <2> HIDE DEF p
  <2>2. CASE Msc!OutOfRange(c)
    BY <1>3, <1>4, <2>1, <2>2
  <2>3. CASE ~Msc!OutOfRange(c)
    <3>1. p.left > 0 /\ p.lba + p.left <= Blocks
      BY <1>1, <1>3, <1>10, <1>11, <2>3 DEF Msc!OutOfRange, Sized
    <3> DEFINE e == Msc!ReadChunk(p)
    <3>2. \/ e.raised /\ e.out = Msc!NoXfer /\ e.in = Msc!NoXfer /\ e.cmd = c
          \/ Giving(e, c, p.left) /\ ~e.raised
      BY <1>10, <3>1, ReadChunkGives
    <3> HIDE DEF e
    <3>3. c.n \in 0..(c.n) /\ Msc!ToHost(c)
      BY <1>1, <1>11 DEF Msc!ToHost
    <3> QED BY <1>10, <2>1, <2>3, <3>2, <3>3 DEF Begun, e
  <2> QED BY <2>2, <2>3
<1>12. CASE ~d.ejected /\ c.op = "write"
  <2>1. Msc!Dispatch(d) = IF readonly THEN Msc!Fail(d, Msc!Protected)
                      ELSE IF Msc!OutOfRange(c) THEN Msc!Fail(d, Msc!Illegal)
                      ELSE Msc!WriteChunkArm(p)
    BY <1>1, <1>12 DEF Msc!Dispatch, PutPlace
  <2> HIDE DEF p
  <2>2. CASE readonly \/ Msc!OutOfRange(c)
    BY <1>3, <1>4, <2>1, <2>2
  <2>3. CASE ~readonly /\ ~Msc!OutOfRange(c)
    <3>1. p.left > 0
      BY <1>1, <1>10, <1>12 DEF Sized
    <3>2. Taking(Msc!WriteChunkArm(p), c, p.left) /\ ~Msc!WriteChunkArm(p).raised
      BY <1>10, <3>1, WriteChunkArmTakes
    <3> QED BY <1>10, <1>12, <2>1, <2>3, <3>2 DEF Begun, Msc!ToDevice
  <2> QED BY <2>2, <2>3
<1> QED BY <1>2, <1>5, <1>6, <1>7, <1>8, <1>9, <1>11, <1>12 DEF BotOps

\* A command block received: its command is begun.
LEMMA CbwDoneBegins ==
  ASSUME NEW V, Msc!Zero \in V, NEW c, Sized(c), c \in BotCommands, NEW d \in Drivers(V), Bounded(d),
         d.out = Msc!NoXfer, d.in = Msc!NoXfer, ~d.raised, d.cbw = Msc!UsbPacket("cbw", c.tag, c),
         medium \in [Msc!LBAs -> V]
  PROVE  Begun(Msc!CbwDone(d), c) /\ ~Msc!CbwDone(d).raised
<1> DEFINE f == [d EXCEPT !.cmd = c]  e == Msc!Dispatch(f)  g == [e EXCEPT !.raised = FALSE]
<1>1. Free(V, f, c) /\ Bounded(f)
  BY DEF Free, Drivers, Bounded
<1>2. d.cbw.kind = "cbw" /\ d.cbw.val = c
  BY DEF Msc!UsbPacket
<1>3. Msc!CbwDone(d) = IF e.raised THEN Msc!Fail(g, Msc!Illegal) ELSE e
  BY <1>2 DEF Msc!CbwDone
<1> HIDE DEF f
<1>4. \/ e.raised /\ e.out = Msc!NoXfer /\ e.in = Msc!NoXfer /\ e.cmd = c
      \/ Begun(e, c) /\ ~e.raised
  BY <1>1, DispatchBegins
<1>5. e \in Drivers(V)
  BY <1>1, DispatchHandles DEF Free, Handles
<1> HIDE DEF e
<1>6. CASE e.raised
  <2>1. Free(V, g, c)
    BY <1>4, <1>5, <1>6 DEF Free, Drivers
  <2> HIDE DEF g
  <2>2. Begun(Msc!Fail(g, Msc!Illegal), c) /\ ~Msc!Fail(g, Msc!Illegal).raised
    BY <2>1, FailBegins DEF Msc!Illegal
  <2> QED BY <1>3, <1>6, <2>2
<1>7. CASE ~e.raised
  BY <1>3, <1>4, <1>7
<1> QED BY <1>6, <1>7

\* What a callback's end leaves alone.
LEMMA RanKeeps ==
  ASSUME NEW V, NEW e \in Drivers(V), NEW c, NEW x, e.events = <<x>>
  PROVE  /\ RanTo(e).out = e.out /\ RanTo(e).in = e.in /\ RanTo(e).events = <<>>
         /\ Tells(e, c) => Telling(RanTo(e), c)
         /\ \A m : Giving(e, c, m) => Giving(RanTo(e), c, m)
         /\ \A m : Taking(e, c, m) => Taking(RanTo(e), c, m)
         /\ Begun(e, c) => Begun(RanTo(e), c)
<1> DEFINE f == [e EXCEPT !.raised = FALSE]  q == Tail(e.events)  g == [f EXCEPT !.events = q]
<1>1. f \in Drivers(V) /\ f.out = e.out /\ f.in = e.in /\ f.csw = e.csw /\ f.cmd = e.cmd
      /\ f.left = e.left /\ f.chunk = e.chunk /\ f.discard = e.discard /\ f.events = e.events
  BY DEF Drivers
<1>2. RanTo(e) = g
  BY <1>1 DEF RanTo
<1>3. q = <<>>
  OBVIOUS
<1> HIDE DEF f, q
<1>4. g.out = f.out /\ g.in = f.in /\ g.csw = f.csw /\ g.cmd = f.cmd /\ g.events = q
      /\ g.left = f.left /\ g.chunk = f.chunk /\ g.discard = f.discard
  BY <1>1 DEF Drivers
<1> HIDE DEF g
<1>5. /\ g.out = e.out /\ g.in = e.in /\ g.csw = e.csw /\ g.cmd = e.cmd /\ g.events = <<>>
      /\ g.left = e.left /\ g.chunk = e.chunk /\ g.discard = e.discard
  BY <1>1, <1>3, <1>4
<1>6. Tells(e, c) => Telling(g, c)
  BY <1>5 DEF Tells, Telling
<1>7. \A m : Supply(e, c, m) => Supply(g, c, m)
  BY <1>5 DEF Supply
<1>8. \A m : Demand(e, c, m) => Demand(g, c, m)
  BY <1>5 DEF Demand
<1>9. /\ \A m : Giving(e, c, m) => Giving(g, c, m)
      /\ \A m : Taking(e, c, m) => Taking(g, c, m)
  BY <1>5, <1>7, <1>8 DEF Giving, Taking
<1>10. Begun(e, c) => Begun(g, c)
  BY <1>6, <1>9 DEF Begun, Telling
<1> QED BY <1>2, <1>5, <1>6, <1>9, <1>10

\* The endpoint of a callback is free again.
LEMMA FreedOf ==
  ASSUME NEW V, NEW d \in Drivers(V)
  PROVE  /\ LET e == [d EXCEPT !.out = Msc!NoXfer] IN
            /\ e \in Drivers(V) /\ e.out = Msc!NoXfer /\ e.in = d.in /\ e.events = d.events
            /\ e.cmd = d.cmd /\ e.cbw = d.cbw /\ e.raised = d.raised /\ e.lba = d.lba
            /\ e.left = d.left /\ e.chunk = d.chunk /\ e.discard = d.discard
         /\ LET e == [d EXCEPT !.in = Msc!NoXfer] IN
            /\ e \in Drivers(V) /\ e.in = Msc!NoXfer /\ e.out = d.out /\ e.events = d.events
            /\ e.cmd = d.cmd /\ e.raised = d.raised /\ e.lba = d.lba /\ e.left = d.left
<1>1. Msc!NoXfer \in Xfers(OutKinds) /\ Msc!NoXfer \in Xfers(InKinds)
  BY DEF Xfers
<1> HIDE DEF Msc!NoXfer
<1> DEFINE e == [d EXCEPT !.out = Msc!NoXfer]  f == [d EXCEPT !.in = Msc!NoXfer]
<1>2. /\ e \in Drivers(V) /\ e.out = Msc!NoXfer /\ e.in = d.in /\ e.events = d.events
      /\ e.cmd = d.cmd /\ e.cbw = d.cbw /\ e.raised = d.raised /\ e.lba = d.lba
      /\ e.left = d.left /\ e.chunk = d.chunk /\ e.discard = d.discard
  BY <1>1 DEF Drivers
<1>3. /\ f \in Drivers(V) /\ f.in = Msc!NoXfer /\ f.out = d.out /\ f.events = d.events
      /\ f.cmd = d.cmd /\ f.raised = d.raised /\ f.lba = d.lba /\ f.left = d.left
  BY <1>1 DEF Drivers
<1> QED BY <1>2, <1>3

\* The callback of a command block begins the command.
LEMMA BlockBegins ==
  ASSUME NEW V, Msc!Zero \in V, DevSound(V, dev), medium \in [Msc!LBAs -> V], cbw \in BotCommands,
         Sized(cbw),
         Taken(dev, cbw), Msc!OutCallback, ~escaped
  PROVE  Begun(dev', cbw) /\ dev'.events = <<>> /\ ~escaped'
<1> DEFINE d == [dev EXCEPT !.out = Msc!NoXfer]  e == Msc!CbwDone(d)
<1>1. /\ d \in Drivers(V) /\ Bounded(d) /\ d.out = Msc!NoXfer /\ d.in = Msc!NoXfer /\ ~d.raised
      /\ d.cbw = Msc!UsbPacket("cbw", cbw.tag, cbw) /\ d.events = <<"out">>
  <2>1. Bounded(d)
    BY FreeOf DEF DevSound
  <2>2. dev \in Drivers(V) /\ ~dev.raised
    BY DEF DevSound
  <2>3. /\ d \in Drivers(V) /\ d.out = Msc!NoXfer /\ d.in = dev.in /\ d.raised = dev.raised
        /\ d.cbw = dev.cbw /\ d.events = dev.events
    BY <2>2, FreedOf
  <2> HIDE DEF d
  <2> QED BY <2>1, <2>2, <2>3 DEF Taken
<1>2. dev' = RanTo(e) /\ escaped' = (escaped \/ e.raised)
  BY DEF Taken, Msc!OutCallback, Msc!Ran, RanTo
<1> HIDE DEF d
<1>3. Begun(e, cbw) /\ ~e.raised
  BY <1>1, CbwDoneBegins
<1>4. e \in Drivers(V) /\ e.events = <<"out">>
  BY <1>1, CbwDoneHandles DEF Handles
<1> HIDE DEF e
<1> QED BY <1>2, <1>3, <1>4, RanKeeps

\* The callback of the last packets taken.
LEMMA TakesOn ==
  ASSUME NEW V, DevSound(V, dev), NEW m, Takes(dev, cbw, m), Msc!OutCallback, ~escaped
  PROVE  \/ ~escaped' /\ Takes(dev', cbw, m)
         \/ ~escaped' /\ m = 0 /\ Telling(dev', cbw)
         \/ escaped' /\ Quiet(dev')
<1> DEFINE d == [dev EXCEPT !.out = Msc!NoXfer]
<1>1. dev.events = <<"out">> /\ Demand(dev, cbw, m) /\ dev.out.left = 0
  BY DEF Msc!OutCallback, Takes
<1>2. /\ d \in Drivers(V) /\ d.out = Msc!NoXfer /\ d.in = Msc!NoXfer /\ ~d.raised /\ d.cmd = cbw
      /\ d.events = <<"out">> /\ d.lba = dev.lba /\ d.left = dev.left /\ d.chunk = dev.chunk
      /\ d.discard = dev.discard
  <2>1. dev \in Drivers(V) /\ ~dev.raised
    BY DEF DevSound
  <2>2. /\ d \in Drivers(V) /\ d.out = Msc!NoXfer /\ d.in = dev.in /\ d.events = dev.events
        /\ d.cmd = dev.cmd /\ d.raised = dev.raised /\ d.lba = dev.lba /\ d.left = dev.left
        /\ d.chunk = dev.chunk /\ d.discard = dev.discard
    BY <2>1, FreedOf
  <2> HIDE DEF d
  <2> QED BY <1>1, <2>1, <2>2 DEF Demand
<1>3. /\ d.lba \in Nat /\ d.left \in Int /\ d.chunk \in Nat /\ d.discard \in Int
  <2> HIDE DEF d
  <2> QED BY <1>2 DEF Drivers
<1>4. dev.out.done \in Int
  <2>1. dev.out \in Xfers(OutKinds)
    BY DEF DevSound, Drivers
  <2> QED BY <2>1 DEF Xfers, Msc!NoXfer
<1>5. ASSUME NEW e \in Drivers(V), e.events = <<"out">>, dev' = RanTo(e),
             escaped' = (escaped \/ e.raised),
             \/ ~e.raised /\ Taking(e, cbw, m)
             \/ ~e.raised /\ m = 0 /\ Tells(e, cbw)
             \/ e.raised /\ e.out = Msc!NoXfer /\ e.in = Msc!NoXfer
      PROVE  \/ ~escaped' /\ Takes(dev', cbw, m)
             \/ ~escaped' /\ m = 0 /\ Telling(dev', cbw)
             \/ escaped' /\ Quiet(dev')
  <2>1. /\ dev'.out = e.out /\ dev'.in = e.in /\ dev'.events = <<>>
        /\ Tells(e, cbw) => Telling(dev', cbw)
        /\ Taking(e, cbw, m) => Taking(dev', cbw, m)
    BY <1>5, RanKeeps
  <2> QED BY <1>5, <2>1 DEF Takes, Quiet
<1> DEFINE at == d.lba..(d.lba + d.chunk - 1)
<1>6. CASE dev.out.kind = "chunk" /\ at \cap bad # {}
  <2>1. dev' = RanTo(Msc!Raise(d)) /\ escaped' = (escaped \/ Msc!Raise(d).raised)
    BY <1>1, <1>6 DEF Msc!OutCallback, Msc!Ran, RanTo
  <2> HIDE DEF d
  <2>2. Msc!Raise(d) \in Drivers(V) /\ Msc!Raise(d).events = <<"out">> /\ Msc!Raise(d).raised
        /\ Msc!Raise(d).out = Msc!NoXfer /\ Msc!Raise(d).in = Msc!NoXfer
    BY <1>2 DEF Msc!Raise, Drivers
  <2> QED BY <1>5, <2>1, <2>2
<1>7. CASE dev.out.kind = "chunk" /\ at \cap bad = {}
  <2> DEFINE p == PutPlace(d, d.lba + d.chunk, d.left - d.chunk)
             e == IF p.left > 0 THEN Msc!WriteChunkArm(p) ELSE Msc!Status(p, 0)
  <2>1. Msc!OutDone(d) = e
    <3> HIDE DEF d
    <3>1. [d EXCEPT !.lba = @ + d.chunk, !.left = @ - d.chunk] = p
      BY <1>2 DEF Drivers, PutPlace
    <3> QED BY <3>1 DEF Msc!OutDone
  <2>2. dev' = RanTo(Msc!OutDone(d)) /\ escaped' = (escaped \/ Msc!OutDone(d).raised)
    BY <1>1, <1>7 DEF Msc!OutCallback, Msc!Ran, RanTo
  <2>3. d.chunk <= d.left /\ m = d.left - d.chunk
    BY <1>1, <1>2, <1>3, <1>7 DEF Demand
  <2>4. Bounded(dev) /\ dev.lba + dev.left <= Blocks /\ ~dev.ejected
    BY <1>7 DEF DevSound, Bounded
  <2>5. ~d.ejected
    BY <2>4, FreeOf DEF DevSound
  <2>6. Handles(V, d, Msc!OutDone(d))
    <3> HIDE DEF d
    <3> QED BY <1>2, <2>4, <2>5, OutDoneHandles
  <2> HIDE DEF d
  <2>7. Free(V, p, cbw) /\ p.left = m
    <3>1. d.lba + d.chunk \in Nat /\ d.left - d.chunk \in Int
      BY <1>3
    <3>2. d \in Drivers(V)
      BY <1>2
    <3>3. \A l \in Nat, n \in Int :
             PutPlace(d, l, n) \in Drivers(V) /\ Same(d, PutPlace(d, l, n))
             /\ PutPlace(d, l, n).left = n
      BY <3>2, Places
    <3>4. p \in Drivers(V) /\ Same(d, p) /\ p.left = d.left - d.chunk
      BY <3>1, <3>3
    <3> QED BY <1>2, <2>3, <3>4 DEF Free, Same
  <2> HIDE DEF p
  <2>8. CASE m > 0
    <3>1. Taking(e, cbw, m) /\ ~e.raised
      BY <2>7, <2>8, WriteChunkArmTakes
    <3> HIDE DEF e
    <3> QED BY <1>2, <1>5, <2>1, <2>2, <2>6, <3>1 DEF Handles
  <2>9. CASE ~(m > 0)
    <3>1. Tells(e, cbw) /\ ~e.raised
      BY <2>7, <2>9, StatusTells
    <3>2. m = 0
      BY <1>3, <2>3, <2>9
    <3> HIDE DEF e
    <3> QED BY <1>2, <1>5, <2>1, <2>2, <2>6, <3>1, <3>2 DEF Handles
  <2> QED BY <2>8, <2>9
<1>8. CASE dev.out.kind = "discard"
  <2> DEFINE p == [d EXCEPT !.discard = @ - dev.out.done]
             e == IF p.discard > 0 THEN Msc!Discard(p) ELSE Msc!Status(p, 1)
  <2>1. dev' = RanTo(e) /\ escaped' = (escaped \/ e.raised)
    BY <1>1, <1>8 DEF Msc!OutCallback, Msc!Ran, RanTo, Msc!DiscardDone
  <2>2. dev.out.done <= d.discard /\ m = d.discard - dev.out.done
    BY <1>1, <1>2, <1>3, <1>4, <1>8 DEF Demand
  <2>3. Bounded(d)
    BY FreeOf DEF DevSound
  <2>4. Handles(V, d, e)
    <3> HIDE DEF d
    <3>1. Msc!DiscardDone(d, dev.out.done) = e
      BY DEF Msc!DiscardDone
    <3> QED BY <1>2, <1>4, <2>3, <3>1, DiscardDoneHandles
  <2>5. Free(V, p, cbw) /\ p.discard = m
    <3> HIDE DEF d
    <3> DEFINE x == d.discard - dev.out.done
    <3>1. x \in Int
      BY <1>3, <1>4
    <3>2. p = [d EXCEPT !.discard = x]
      BY <1>2
    <3> HIDE DEF x, p
    <3>3. p \in Drivers(V) /\ p.out = Msc!NoXfer /\ p.in = Msc!NoXfer /\ p.cmd = cbw /\ ~p.raised
          /\ p.discard = x
      BY <1>2, <3>1, <3>2 DEF Drivers
    <3> QED BY <2>2, <3>3 DEF Free, x
  <2> HIDE DEF d, p
  <2>6. CASE m > 0
    <3>1. Taking(e, cbw, m) /\ ~e.raised
      BY <2>5, <2>6, DiscardTakes
    <3> HIDE DEF e
    <3> QED BY <1>2, <1>5, <2>1, <2>4, <3>1 DEF Handles
  <2>7. CASE ~(m > 0)
    <3>1. Tells(e, cbw) /\ ~e.raised
      BY <2>5, <2>7, StatusTells
    <3>2. m = 0
      BY <1>3, <1>4, <2>2, <2>7
    <3> HIDE DEF e
    <3> QED BY <1>2, <1>5, <2>1, <2>4, <3>1, <3>2 DEF Handles
  <2> QED BY <2>6, <2>7
<1> QED BY <1>1, <1>6, <1>7, <1>8 DEF Demand

\* The callback of the last packets given.
LEMMA GivesOn ==
  ASSUME NEW V, DevSound(V, dev), medium \in [Msc!LBAs -> V], NEW m, Gives(dev, cbw, m),
         Msc!InCallback, ~escaped
  PROVE  \/ ~escaped' /\ Gives(dev', cbw, m)
         \/ ~escaped' /\ m = 0 /\ Telling(dev', cbw)
         \/ escaped' /\ Quiet(dev')
<1> DEFINE d == [dev EXCEPT !.in = Msc!NoXfer]
<1>1. dev.events = <<"in">> /\ Supply(dev, cbw, m) /\ dev.in.left = 0
  BY DEF Msc!InCallback, Gives
<1>2. /\ d \in Drivers(V) /\ d.out = Msc!NoXfer /\ d.in = Msc!NoXfer /\ ~d.raised /\ d.cmd = cbw
      /\ d.events = <<"in">> /\ d.lba = dev.lba /\ d.left = dev.left
  <2>1. dev \in Drivers(V) /\ ~dev.raised
    BY DEF DevSound
  <2>2. /\ d \in Drivers(V) /\ d.in = Msc!NoXfer /\ d.out = dev.out /\ d.events = dev.events
        /\ d.cmd = dev.cmd /\ d.raised = dev.raised /\ d.lba = dev.lba /\ d.left = dev.left
    BY <2>1, FreedOf
  <2> HIDE DEF d
  <2> QED BY <1>1, <2>1, <2>2 DEF Supply
<1>3. Bounded(d) /\ Free(V, d, cbw)
  <2>1. Bounded(d)
    BY FreeOf DEF DevSound
  <2> QED BY <1>2, <2>1 DEF Free
<1>4. ASSUME NEW e, Handles(V, d, e), dev' = RanTo(e), escaped' = (escaped \/ e.raised),
             \/ ~e.raised /\ Giving(e, cbw, m)
             \/ ~e.raised /\ m = 0 /\ Tells(e, cbw)
             \/ e.raised /\ e.out = Msc!NoXfer /\ e.in = Msc!NoXfer
      PROVE  \/ ~escaped' /\ Gives(dev', cbw, m)
             \/ ~escaped' /\ m = 0 /\ Telling(dev', cbw)
             \/ escaped' /\ Quiet(dev')
  <2>1. e \in Drivers(V) /\ e.events = <<"in">>
    BY <1>2, <1>4 DEF Handles
  <2>2. /\ dev'.out = e.out /\ dev'.in = e.in /\ dev'.events = <<>>
        /\ Tells(e, cbw) => Telling(dev', cbw)
        /\ Giving(e, cbw, m) => Giving(dev', cbw, m)
    BY <1>4, <2>1, RanKeeps
  <2> QED BY <1>4, <2>2 DEF Gives, Quiet
<1>5. Handles(V, d, Msc!InDone(d)) /\ Handles(V, d, Msc!Status(d, 1))
  <2> HIDE DEF d
  <2> QED BY <1>2, <1>3, InDoneHandles, StatusHandles
<1>6. \A status \in {0, 1} : Tells(Msc!Status(d, status), cbw) /\ ~Msc!Status(d, status).raised
  <2> HIDE DEF d
  <2> QED BY <1>3, StatusTells
<1>7. CASE dev.in.kind = "reply"
  <2>1. d.left = 0 /\ m = 0
    BY <1>1, <1>2, <1>7 DEF Supply
  <2>2. Msc!InDone(d) = Msc!Status(d, 0)
    BY <2>1 DEF Msc!InDone
  <2>3. dev' = RanTo(Msc!InDone(d)) /\ escaped' = (escaped \/ Msc!InDone(d).raised)
    BY <1>1, <1>7 DEF Msc!InCallback, Msc!Ran, RanTo
  <2> HIDE DEF d
  <2> QED BY <1>4, <1>5, <1>6, <2>1, <2>2, <2>3
<1>8. CASE dev.in.kind = "data"
  <2>1. dev' = RanTo(Msc!InDone(d)) /\ escaped' = (escaped \/ Msc!InDone(d).raised)
    BY <1>1, <1>8 DEF Msc!InCallback, Msc!Ran, RanTo
  <2>2. d.left >= 0 /\ m = d.left /\ d.left \in Int
    <3>1. d.left \in Int
      <4> HIDE DEF d
      <4> QED BY <1>2 DEF Drivers
    <3> QED BY <1>1, <1>2, <1>8, <3>1 DEF Supply
  <2> HIDE DEF d
  <2>3. CASE d.left > 0
    <3> DEFINE e == Msc!ReadChunk(d)
    <3>1. Msc!InDone(d) = e
      BY <2>3 DEF Msc!InDone
    <3>2. d.lba + d.left <= Blocks
      BY <1>3, <2>3 DEF Bounded
    <3>3. \/ e.raised /\ e.out = Msc!NoXfer /\ e.in = Msc!NoXfer /\ e.cmd = cbw
          \/ Giving(e, cbw, d.left) /\ ~e.raised
      BY <1>3, <2>3, <3>2, ReadChunkGives
    <3> HIDE DEF e
    <3> QED BY <1>4, <1>5, <2>1, <2>2, <3>1, <3>3
  <2>4. CASE ~(d.left > 0)
    <3>1. Msc!InDone(d) = Msc!Status(d, 0)
      BY <2>4 DEF Msc!InDone
    <3>2. m = 0
      BY <2>2, <2>4
    <3> QED BY <1>4, <1>5, <1>6, <2>1, <3>1, <3>2
  <2> QED BY <2>3, <2>4
<1>9. CASE dev.in.kind = "fail"
  <2>1. m = 0
    BY <1>1, <1>9 DEF Supply
  <2>2. dev' = RanTo(Msc!Status(d, 1)) /\ escaped' = (escaped \/ Msc!Status(d, 1).raised)
    BY <1>1, <1>9 DEF Msc!InCallback, Msc!Ran, RanTo
  <2> HIDE DEF d
  <2> QED BY <1>4, <1>5, <1>6, <2>1, <2>2
<1> QED BY <1>1, <1>7, <1>8, <1>9 DEF Supply

\* The driver is ready again for a command block.
LEMMA ArmCbwReady ==
  ASSUME NEW V, NEW d \in Drivers(V), d.out = Msc!NoXfer, d.in = Msc!NoXfer
  PROVE  /\ Msc!ArmCbw(d).out = Msc!Armed("cbw", 1) /\ Msc!ArmCbw(d).in = Msc!NoXfer
         /\ Msc!ArmCbw(d).raised = d.raised
<1> DEFINE e == Msc!SubmitOut(d, "cbw", 1)
<1>1. e.out = Msc!Armed("cbw", 1) /\ e.in = d.in /\ e.raised = d.raised
  BY SubmitsFree DEF OutKinds
<1>2. Msc!ArmCbw(d) = e
  BY DEF Msc!ArmCbw, Msc!NoXfer
<1> QED BY <1>1, <1>2

\* The callback of a status.
LEMMA AnswerEnds ==
  ASSUME NEW V, DevSound(V, dev), Answered(dev), Msc!InCallback, ~escaped
  PROVE  Ready(dev') /\ ~escaped'
<1> DEFINE d == [dev EXCEPT !.in = Msc!NoXfer]  e == Msc!ArmCbw(d)
<1>1. d \in Drivers(V) /\ d.out = Msc!NoXfer /\ d.in = Msc!NoXfer /\ ~d.raised /\ d.events = <<"in">>
  BY FreedOf DEF DevSound, Answered
<1>2. Bounded(d)
  BY FreeOf DEF DevSound
<1>3. dev' = RanTo(e) /\ escaped' = (escaped \/ e.raised)
  BY DEF Answered, Msc!InCallback, Msc!Ran, RanTo
<1> HIDE DEF d
<1>4. e \in Drivers(V) /\ e.events = <<"in">>
  BY <1>1, <1>2, ArmCbwHandles DEF Handles
<1>5. e.out = Msc!Armed("cbw", 1) /\ e.in = Msc!NoXfer /\ e.raised = d.raised
  BY <1>1, ArmCbwReady
<1> HIDE DEF e
<1>6. dev'.out = e.out /\ dev'.in = e.in /\ dev'.events = <<>>
  BY <1>3, <1>4, RanKeeps
<1> QED BY <1>1, <1>3, <1>5, <1>6 DEF Ready

-----------------------------------------------------------------------------
(* The packets, between the two.                                           *)

\* The fields of a device one of whose transfers has moved.
LEMMA MovesOf ==
  ASSUME NEW V, DevSound(V, dev), NEW p
  PROVE  /\ dev.out.at = "armed" =>
              LET d == MovedTo("out", p) IN
              /\ d \in Drivers(V) /\ d.out = Msc!Moved(dev.out, p)
              /\ d.events = Msc!Event(dev.out, p, "out")
              /\ d.in = dev.in /\ d.cmd = dev.cmd /\ d.left = dev.left /\ d.chunk = dev.chunk
              /\ d.discard = dev.discard
         /\ dev.in.at = "armed" =>
              LET d == MovedTo("in", p) IN
              /\ d.in = Msc!Moved(dev.in, p) /\ d.events = Msc!Event(dev.in, p, "in")
              /\ d.out = dev.out /\ d.cmd = dev.cmd /\ d.left = dev.left
<1>1. dev \in Drivers(V) /\ dev.out \in Xfers(OutKinds) /\ dev.in \in Xfers(InKinds)
  BY DEF DevSound, Drivers
<1>2. ASSUME dev.out.at = "armed"
      PROVE  LET d == MovedTo("out", p) IN
             /\ d \in Drivers(V) /\ d.out = Msc!Moved(dev.out, p)
             /\ d.events = Msc!Event(dev.out, p, "out")
             /\ d.in = dev.in /\ d.cmd = dev.cmd /\ d.left = dev.left /\ d.chunk = dev.chunk
             /\ d.discard = dev.discard
  <2> DEFINE t == Msc!Moved(dev.out, p)  q == Msc!Event(dev.out, p, "out")
             f == [dev EXCEPT !.out = t]  g == [f EXCEPT !.events = q]
  <2>1. MovedTo("out", p) = g
    BY <1>1 DEF MovedTo
  <2>2. MovedTo("out", p) \in Drivers(V)
    BY <1>2, MovedSound DEF DevSound
  <2>3. t \in Xfers(OutKinds)
    BY <1>1, <1>2, MovedOf
  <2> HIDE DEF t, q
  <2>4. /\ f \in Drivers(V) /\ f.out = t /\ f.in = dev.in /\ f.cmd = dev.cmd /\ f.left = dev.left
        /\ f.chunk = dev.chunk /\ f.discard = dev.discard
    BY <1>1, <2>3 DEF Drivers
  <2> HIDE DEF f
  <2>5. /\ g.out = f.out /\ g.events = q /\ g.in = f.in /\ g.cmd = f.cmd /\ g.left = f.left
        /\ g.chunk = f.chunk /\ g.discard = f.discard
    BY <2>4 DEF Drivers
  <2> HIDE DEF g
  <2> QED BY <2>1, <2>2, <2>4, <2>5 DEF t, q
<1>3. ASSUME dev.in.at = "armed"
      PROVE  LET d == MovedTo("in", p) IN
             /\ d.in = Msc!Moved(dev.in, p) /\ d.events = Msc!Event(dev.in, p, "in")
             /\ d.out = dev.out /\ d.cmd = dev.cmd /\ d.left = dev.left
  <2> DEFINE t == Msc!Moved(dev.in, p)  q == Msc!Event(dev.in, p, "in")
             f == [dev EXCEPT !.in = t]  g == [f EXCEPT !.events = q]
  <2>1. MovedTo("in", p) = g
    BY <1>1 DEF MovedTo
  <2>3. t \in Xfers(InKinds)
    BY <1>1, <1>3, MovedOf
  <2> HIDE DEF t, q
  <2>4. f \in Drivers(V) /\ f.in = t /\ f.out = dev.out /\ f.cmd = dev.cmd /\ f.left = dev.left
    BY <1>1, <2>3 DEF Drivers
  <2> HIDE DEF f
  <2>5. g.in = f.in /\ g.events = q /\ g.out = f.out /\ g.cmd = f.cmd /\ g.left = f.left
    BY <2>4 DEF Drivers
  <2> HIDE DEF g
  <2> QED BY <2>1, <2>4, <2>5 DEF t, q
<1> QED BY <1>2, <1>3

\* The command block comes.
LEMMA BlockComes ==
  ASSUME NEW V, DevSound(V, dev), Ready(dev), cbw \in BotCommands,
         send = <<Msc!UsbPacket("cbw", cbw.tag, cbw)>>, Msc!PacketOut
  PROVE  Taken(dev', cbw) /\ send' = <<>>
<1> DEFINE p == Msc!UsbPacket("cbw", cbw.tag, cbw)  d == MovedTo("out", p)  e == [d EXCEPT !.cbw = p]
<1>1. Head(send) = p /\ Tail(send) = <<>>
  OBVIOUS
<1>2. dev.out = Msc!Armed("cbw", 1) /\ dev.out.kind = "cbw" /\ dev.out.at = "armed"
      /\ dev.out.left = 1
  BY ArmedOf DEF Ready
<1>3. dev' = e /\ send' = Tail(send)
  BY <1>1, <1>2 DEF Msc!PacketOut, MovedTo
<1>4. Msc!Short(p) /\ Msc!Full(dev.out, p) /\ p \in CbwPackets
  BY <1>2 DEF Msc!UsbPacket, Msc!Short, Msc!Full, CbwPackets, BotCommands
<1> HIDE DEF p
<1>5. /\ d \in Drivers(V) /\ d.out = Msc!Moved(dev.out, p) /\ d.events = Msc!Event(dev.out, p, "out")
      /\ d.in = dev.in
  BY <1>2, MovesOf
<1>6. Msc!Moved(dev.out, p).at = "done" /\ Msc!Moved(dev.out, p).kind = "cbw"
  <2>1. dev.out \in Xfers(OutKinds)
    BY DEF DevSound, Drivers
  <2> QED BY <1>2, <1>4, <2>1, MovedOf
<1>7. d.events = <<"out">> /\ d.in = Msc!NoXfer
  <2>1. Msc!Event(dev.out, p, "out") = Append(<<>>, "out")
    BY <1>4 DEF Msc!Event, Ready
  <2> QED BY <1>5, <2>1 DEF Ready
<1> HIDE DEF d
<1>8. e.cbw = p /\ e.out = d.out /\ e.in = d.in /\ e.events = d.events
  BY <1>4, <1>5 DEF Drivers
<1> HIDE DEF e
<1> QED BY <1>1, <1>3, <1>5, <1>6, <1>7, <1>8 DEF Taken, p

\* A packet of data comes.
LEMMA DataComes ==
  ASSUME NEW V, V \subseteq Int, Msc!Junk \in V, DevSound(V, dev), send \in Seq(Packets(V)), NEW m,
         Takes(dev, cbw, m), Head(send).kind = "block", Msc!PacketOut
  PROVE  Takes(dev', cbw, m - 1)
<1> DEFINE p == Head(send)  d == MovedTo("out", p)  v == IF Msc!Short(p) THEN Msc!Junk ELSE p.val
           i == dev.out.done + 1  b == [d.buf EXCEPT ![i] = v]  f == [d EXCEPT !.buf = b]
           t == Msc!Moved(dev.out, p)
<1>1. /\ dev.out.at = "armed" /\ dev.out.kind \in {"chunk", "discard"} /\ dev.events = <<>>
      /\ Demand(dev, cbw, m) /\ dev.out.left > 0
  BY DEF Msc!PacketOut, Msc!CanSend, Takes, Taking, Demand
<1>2. dev' = f
  BY <1>1 DEF Msc!PacketOut, MovedTo
<1>3. ~Msc!Short(p) /\ (Msc!Full(dev.out, p) <=> dev.out.left = 1)
  BY DEF Msc!Short, Msc!Full
<1>4. /\ d \in Drivers(V) /\ d.out = t /\ d.events = Msc!Event(dev.out, p, "out") /\ d.in = dev.in
      /\ d.cmd = dev.cmd /\ d.left = dev.left /\ d.chunk = dev.chunk /\ d.discard = dev.discard
  BY <1>1, MovesOf
<1>5. /\ t.at = IF dev.out.left = 1 THEN "done" ELSE "armed"
      /\ t.kind = dev.out.kind /\ t.left = dev.out.left - 1 /\ t.done = dev.out.done + 1
      /\ dev.out.left \in Int /\ dev.out.done \in Int
  <2>1. dev.out \in Xfers(OutKinds)
    BY DEF DevSound, Drivers
  <2>2. dev.out.left \in Int /\ dev.out.done \in Int
    BY <2>1 DEF Xfers, Msc!NoXfer
  <2> QED BY <1>1, <1>3, <2>1, <2>2, MovedOf
<1>6. d.events = IF dev.out.left = 1 THEN <<"out">> ELSE <<>>
  <2>1. Append(<<>>, "out") = <<"out">>
    OBVIOUS
  <2> QED BY <1>1, <1>3, <1>4, <2>1 DEF Msc!Event
<1> HIDE DEF p, d, t, b
<1>7. /\ f.out = d.out /\ f.in = d.in /\ f.events = d.events /\ f.cmd = d.cmd /\ f.left = d.left
      /\ f.chunk = d.chunk /\ f.discard = d.discard
  BY <1>4 DEF Drivers
<1>8. dev.left \in Int /\ dev.chunk \in Int /\ dev.discard \in Int
  BY DEF DevSound, Drivers
<1> HIDE DEF f
<1>9. Demand(f, cbw, m - 1)
  <2>1. /\ f.in = Msc!NoXfer /\ f.cmd = cbw /\ f.left = dev.left /\ f.chunk = dev.chunk
        /\ f.discard = dev.discard /\ f.out.kind = dev.out.kind
        /\ f.out.left = dev.out.left - 1 /\ f.out.done = dev.out.done + 1
    BY <1>1, <1>4, <1>5, <1>7 DEF Demand
  <2>2. CASE dev.out.kind = "chunk"
    <3>1. dev.chunk <= dev.left /\ m = dev.out.left + (dev.left - dev.chunk)
      BY <1>1, <2>2 DEF Demand
    <3>2. m - 1 = (dev.out.left - 1) + (dev.left - dev.chunk)
      <4>1. \A x, y, z \in Int : (x + (y - z)) - 1 = (x - 1) + (y - z)
        OBVIOUS
      <4> QED BY <1>5, <1>8, <3>1, <4>1
    <3> QED BY <2>1, <2>2, <3>1, <3>2 DEF Demand
  <2>3. CASE dev.out.kind = "discard"
    <3>1. dev.out.done + dev.out.left <= dev.discard /\ m = dev.discard - dev.out.done
      BY <1>1, <2>3 DEF Demand
    <3>2. /\ m - 1 = dev.discard - (dev.out.done + 1)
          /\ (dev.out.done + 1) + (dev.out.left - 1) <= dev.discard
      <4>1. \A x, y, z \in Int : /\ (x - y) - 1 = x - (y + 1)
                                 /\ y + z <= x => (y + 1) + (z - 1) <= x
        OBVIOUS
      <4> QED BY <1>5, <1>8, <3>1, <4>1
    <3> QED BY <2>1, <2>3, <3>1, <3>2 DEF Demand
  <2> QED BY <1>1, <2>2, <2>3
<1> QED BY <1>1, <1>2, <1>4, <1>5, <1>6, <1>7, <1>9 DEF Takes, Taking

\* A packet of data goes: one of many, or the only one of a reply.
LEMMA DataGoes ==
  ASSUME NEW V, DevSound(V, dev), come.room \in Int, NEW m, Gives(dev, cbw, m), Msc!PacketIn
  PROVE  /\ Gives(dev', cbw, m - 1) /\ m \in Int /\ m > 0
         /\ come'.room = come.room - 1 \/ (come'.room = 0 /\ m = 1)
<1>1. /\ dev.in.at = "armed" /\ dev.events = <<>> /\ Supply(dev, cbw, m) /\ dev.in.left > 0
  BY DEF Msc!PacketIn, Msc!CanFetch, Gives, Giving
<1>2. PICK p : /\ dev' = MovedTo("in", p) /\ come'.room = IF Msc!Short(p) THEN 0 ELSE come.room - 1
               /\ dev.in.kind # "reply" => ~Msc!Short(p)
  <2> DEFINE q == CASE dev.in.kind = "csw" -> dev.csw
                    [] dev.in.kind = "reply" -> dev.reply
                    [] OTHER -> Msc!UsbPacket("block", 0, dev.buf[dev.in.done + 1])
  <2>1. dev' = MovedTo("in", q) /\ come'.room = IF Msc!Short(q) THEN 0 ELSE come.room - 1
    BY DEF Msc!PacketIn, MovedTo
  <2>2. dev.in.kind \in {"reply", "data", "fail"}
    BY <1>1 DEF Supply
  <2>3. dev.in.kind # "reply" => ~Msc!Short(q)
    BY <2>2 DEF Msc!Short, Msc!UsbPacket
  <2> HIDE DEF q
  <2> QED BY <2>1, <2>3
<1> DEFINE t == Msc!Moved(dev.in, p)  d == MovedTo("in", p)
<1>3. d.in = t /\ d.events = Msc!Event(dev.in, p, "in") /\ d.out = dev.out /\ d.cmd = dev.cmd
      /\ d.left = dev.left
  BY <1>1, MovesOf
<1>4. dev.in.left \in Int /\ dev.left \in Int /\ t.kind = dev.in.kind /\ t.left = dev.in.left - 1
      /\ t.at = IF Msc!Full(dev.in, p) THEN "done" ELSE "armed"
  <2>1. dev.in \in Xfers(InKinds) /\ dev.left \in Int
    BY DEF DevSound, Drivers
  <2>2. dev.in.left \in Int
    BY <2>1 DEF Xfers, Msc!NoXfer
  <2> QED BY <1>1, <2>1, <2>2, MovedOf
<1>5. Msc!Full(dev.in, p) <=> dev.in.left = 1
  <2>1. dev.in.kind = "reply" => dev.in.left = 1
    BY <1>1, <1>4 DEF Supply
  <2> QED BY <1>2, <2>1 DEF Msc!Full
<1>6. d.events = IF dev.in.left = 1 THEN <<"in">> ELSE <<>>
  <2>1. Append(<<>>, "in") = <<"in">>
    OBVIOUS
  <2> QED BY <1>1, <1>3, <1>5, <2>1 DEF Msc!Event
<1> HIDE DEF d, t
<1>7. Supply(d, cbw, m - 1)
  BY <1>1, <1>3, <1>4 DEF Supply
<1>8. Gives(d, cbw, m - 1)
  BY <1>3, <1>4, <1>5, <1>6, <1>7, <1>1 DEF Gives, Giving
<1>9. m \in Int /\ m > 0 /\ (dev.in.kind = "reply" => m = 1)
  BY <1>1, <1>4 DEF Supply
<1> QED BY <1>2, <1>8, <1>9 DEF d

\* The status goes.
LEMMA StatusGoes ==
  ASSUME NEW V, DevSound(V, dev), Telling(dev, cbw), Msc!PacketIn
  PROVE  Answered(dev') /\ come'.room = 0 /\ come'.got = Append(come.got, dev.csw)
<1> DEFINE p == dev.csw  t == Msc!Moved(dev.in, p)  d == MovedTo("in", p)
<1>1. dev.in = Msc!Armed("csw", 1) /\ dev.in.at = "armed" /\ dev.in.kind = "csw" /\ dev.in.left = 1
      /\ dev.events = <<>> /\ dev.out = Msc!NoXfer /\ Msc!Short(p)
  BY ArmedOf DEF Telling, Tells, Msc!Short
<1>2. dev' = d
      /\ come' = [room |-> IF Msc!Short(p) THEN 0 ELSE come.room - 1, got |-> Append(come.got, p)]
  BY <1>1 DEF Msc!PacketIn, MovedTo
<1>3. d.in = t /\ d.events = Msc!Event(dev.in, p, "in") /\ d.out = dev.out
  BY <1>1, MovesOf
<1>4. t.kind = "csw" /\ t.at = "done"
  <2>1. dev.in \in Xfers(InKinds)
    BY DEF DevSound, Drivers
  <2>2. Msc!Full(dev.in, p)
    BY <1>1 DEF Msc!Full
  <2> QED BY <1>1, <2>1, <2>2, MovedOf
<1>5. d.events = <<"in">>
  <2>1. Append(<<>>, "in") = <<"in">>
    OBVIOUS
  <2> QED BY <1>1, <1>3, <2>1 DEF Msc!Event, Msc!Full
<1> HIDE DEF d, t
<1> QED BY <1>1, <1>2, <1>3, <1>4, <1>5 DEF Answered

-----------------------------------------------------------------------------
(* The two together.                                                       *)

\* The phases look at some fields only.
LEMMA PhasesOf ==
  ASSUME NEW d, NEW e, e.out = d.out, e.in = d.in, e.events = d.events, e.cbw = d.cbw, e.csw = d.csw,
         e.cmd = d.cmd, e.left = d.left, e.chunk = d.chunk, e.discard = d.discard
  PROVE  /\ Quiet(d) => Quiet(e)
         /\ AtRest(d) => AtRest(e)
         /\ \A c : /\ Taken(d, c) => Taken(e, c)
                   /\ Telling(d, c) => Telling(e, c)
                   /\ Begun(d, c) => Begun(e, c)
                   /\ \A m : (Gives(d, c, m) => Gives(e, c, m)) /\ (Takes(d, c, m) => Takes(e, c, m))
<1>1. \A c, m : (Supply(d, c, m) => Supply(e, c, m)) /\ (Demand(d, c, m) => Demand(e, c, m))
  BY DEF Supply, Demand
<1>2. \A c, m : (Giving(d, c, m) => Giving(e, c, m)) /\ (Taking(d, c, m) => Taking(e, c, m))
  BY <1>1 DEF Giving, Taking
<1>3. \A c : Tells(d, c) => Tells(e, c)
  BY DEF Tells
<1>4. (Quiet(d) => Quiet(e)) /\ (AtRest(d) => AtRest(e)) /\ \A c : Taken(d, c) => Taken(e, c)
  BY DEF Quiet, AtRest, Ready, Answered, Taken
<1>5. \A c : /\ Telling(d, c) => Telling(e, c)
             /\ Begun(d, c) => Begun(e, c)
             /\ \A m : (Gives(d, c, m) => Gives(e, c, m)) /\ (Takes(d, c, m) => Takes(e, c, m))
  BY <1>1, <1>2, <1>3 DEF Telling, Begun, Gives, Takes
<1> QED BY <1>4, <1>5

\* The board's program does not touch the phases.
LEMMA BoardApart ==
  ASSUME BotSound, Alone, Msc!Leave \/ Msc!BoardWrites \/ Msc!Insert
  PROVE  Alone'
<1>1. UNCHANGED <<host, cbw, send, come, escaped, prompt>>
  BY DEF Msc!Leave, Msc!BoardWrites, Msc!Insert, Msc!settings
<1>2. /\ dev'.out = dev.out /\ dev'.in = dev.in /\ dev'.events = dev.events /\ dev'.cbw = dev.cbw
      /\ dev'.csw = dev.csw /\ dev'.cmd = dev.cmd /\ dev'.left = dev.left
      /\ dev'.chunk = dev.chunk /\ dev'.discard = dev.discard
  <2>1. PICK V : dev \in Drivers(V)
    BY DEF BotSound, DevSound
  <2> QED BY <2>1 DEF Drivers, Msc!Leave, Msc!BoardWrites, Msc!Insert
<1>3. /\ Quiet(dev) => Quiet(dev')
      /\ AtRest(dev) => AtRest(dev')
      /\ \A c : /\ Taken(dev, c) => Taken(dev', c)
                /\ Telling(dev, c) => Telling(dev', c)
                /\ Begun(dev, c) => Begun(dev', c)
                /\ \A m : (Gives(dev, c, m) => Gives(dev', c, m))
                   /\ (Takes(dev, c, m) => Takes(dev', c, m))
  BY <1>2, PhasesOf
<1>4. Stuck => Stuck'
  BY <1>1, <1>3 DEF Stuck
<1>5. AtIdle => AtIdle'
  BY <1>1, <1>3 DEF AtIdle
<1>6. AtCbw => AtCbw'
  BY <1>1, <1>2, <1>3 DEF AtCbw
<1>7. (Fetches => Fetches') /\ (Delivers => Delivers')
  BY <1>1, <1>3 DEF Fetches, Delivers
<1>8. (Awaits => Awaits') /\ (Heard => Heard')
  BY <1>1, <1>3 DEF Awaits, Heard, Msc!IsOwn
<1>9. Together => Together'
  BY <1>1, <1>5, <1>6, <1>7, <1>8 DEF Together
<1> QED BY <1>1, <1>4, <1>9 DEF Alone

\* A packet to the device.
LEMMA PacketOutTogether ==
  ASSUME BotSound, Alone, Msc!PacketOut
  PROVE  Alone'
<1> DEFINE V == BotValues(cbw.tag)
<1>1. /\ DevSound(V, dev) /\ cbw \in BotCommands /\ send \in Seq(Packets(V))
      /\ V \subseteq Int /\ Msc!Junk \in V
  BY BotValuesOf DEF BotSound, CallSound, BotCommands
<1>2. UNCHANGED <<host, cbw, come, escaped, prompt>> /\ send # <<>> /\ dev.out.at = "armed"
      /\ send' = Tail(send)
  BY DEF Msc!PacketOut, Msc!CanSend, Msc!settings
<1> HIDE DEF V
<1>3. CASE ~prompt
  BY <1>2, <1>3 DEF Alone
<1>4. CASE prompt /\ escaped
  BY <1>2, <1>4 DEF Alone, Stuck, Quiet, Msc!NoXfer
<1>5. CASE prompt /\ ~escaped
  <2>1. Together
    BY <1>5 DEF Alone
  <2>2. CASE host.at = "cbw"
    <3>1. AtCbw
      BY <2>1, <2>2 DEF Together
    <3>2. come = Msc!NoRead /\ send = <<Msc!UsbPacket("cbw", cbw.tag, cbw)>> /\ Ready(dev)
      BY <1>2, <3>1 DEF AtCbw, AtRest, Answered, Msc!NoXfer
    <3>3. Taken(dev', cbw) /\ send' = <<>>
      BY <1>1, <3>2, BlockComes
    <3>4. AtCbw'
      BY <1>2, <3>2, <3>3 DEF AtCbw
    <3> QED BY <1>2, <1>5, <2>2, <3>4 DEF Alone, Together
  <2>3. CASE host.at = "data"
    <3>1. Delivers
      BY <1>2, <2>1, <2>3 DEF Together, Fetches
    <3>2. Takes(dev, cbw, Len(send)) /\ Msc!ToDevice(cbw) /\ come = Msc!NoRead
          /\ \A i \in DOMAIN send : send[i].kind = "block"
      BY <1>2, <3>1 DEF Delivers, Taken
    <3>3. /\ Head(send).kind = "block" /\ Len(Tail(send)) = Len(send) - 1
          /\ \A i \in DOMAIN Tail(send) : Tail(send)[i].kind = "block"
      <4>1. /\ Head(send) = send[1] /\ 1 \in DOMAIN send /\ Len(Tail(send)) = Len(send) - 1
            /\ \A i \in DOMAIN Tail(send) : i + 1 \in DOMAIN send /\ Tail(send)[i] = send[i + 1]
        BY <1>1, <1>2
      <4> QED BY <3>2, <4>1
    <3>4. Takes(dev', cbw, Len(send) - 1)
      BY <1>1, <3>2, <3>3, DataComes
    <3>5. Delivers'
      BY <1>2, <3>2, <3>3, <3>4 DEF Delivers
    <3> QED BY <1>2, <1>5, <2>3, <3>5 DEF Alone, Together
  <2>4. host.at \in {"cbw", "data"}
    BY <1>2, <2>1 DEF Together, AtIdle
  <2> QED BY <2>2, <2>3, <2>4
<1> QED BY <1>3, <1>4, <1>5

\* A packet to the host.
LEMMA PacketInTogether ==
  ASSUME BotSound, Alone, Msc!PacketIn
  PROVE  Alone'
<1> DEFINE V == BotValues(cbw.tag)
<1>1. DevSound(V, dev) /\ come.room \in Int
  BY DEF BotSound
<1>2. UNCHANGED <<host, cbw, send, escaped, prompt>> /\ come.room > 0 /\ dev.in.at = "armed"
  BY DEF Msc!PacketIn, Msc!CanFetch, Msc!settings
<1> HIDE DEF V
<1>3. CASE ~prompt
  BY <1>2, <1>3 DEF Alone
<1>4. CASE prompt /\ escaped
  BY <1>2, <1>4 DEF Alone, Stuck, Quiet, Msc!NoXfer
<1>5. CASE prompt /\ ~escaped
  <2>1. Together
    BY <1>5 DEF Alone
  <2>2. ~Taken(dev, cbw) /\ ~AtRest(dev) /\ \A m : ~Takes(dev, cbw, m)
    BY <1>2 DEF Taken, AtRest, Ready, Answered, Takes, Taking, Demand, Msc!NoXfer
  <2>3. come # Msc!NoRead
    BY <1>2 DEF Msc!NoRead
  <2>4. CASE host.at = "data"
    <3>1. Fetches
      BY <2>1, <2>3, <2>4 DEF Together, Delivers
    <3>2. Msc!ToHost(cbw) /\ send = <<>>
      BY <3>1 DEF Fetches
    <3>3. ASSUME NEW m \in 0..(come.room), Gives(dev, cbw, m) PROVE Fetches'
      <4>1. /\ Gives(dev', cbw, m - 1) /\ m \in Int /\ m > 0
            /\ come'.room = come.room - 1 \/ (come'.room = 0 /\ m = 1)
        BY <1>1, <3>3, DataGoes
      <4>2. m - 1 \in 0..(come'.room)
        BY <1>1, <3>3, <4>1
      <4> QED BY <1>2, <3>2, <4>1, <4>2 DEF Fetches
    <3>4. ASSUME Telling(dev, cbw) PROVE Fetches'
      <4>1. Answered(dev') /\ come'.room = 0
        BY <1>1, <3>4, StatusGoes
      <4> QED BY <1>2, <3>2, <4>1 DEF Fetches, AtRest
    <3>5. Fetches'
      BY <2>2, <3>1, <3>3, <3>4 DEF Fetches
    <3> QED BY <1>2, <1>5, <2>4, <3>5 DEF Alone, Together
  <2>5. CASE host.at = "csw"
    <3>1. Awaits /\ send = <<>>
      BY <2>1, <2>2, <2>5 DEF Together, Heard
    <3>2. ~Gives(dev, cbw, 0)
      BY <1>1, DataGoes
    <3>3. Telling(dev, cbw) /\ come = Msc!Read(1)
      BY <2>2, <3>1, <3>2 DEF Awaits
    <3>4. Answered(dev') /\ come'.room = 0 /\ come'.got = Append(<<>>, dev.csw)
      BY <1>1, <3>3, StatusGoes DEF Msc!Read
    <3>5. Append(<<>>, dev.csw) = <<dev.csw>>
      OBVIOUS
    <3>6. Heard'
      BY <1>2, <3>3, <3>4, <3>5 DEF Heard, Msc!IsOwn, AtRest, Telling, Tells
    <3> QED BY <1>2, <1>5, <2>5, <3>1, <3>6 DEF Alone, Together
  <2>6. host.at \in {"data", "csw"}
    BY <2>1, <2>2, <2>3 DEF Together, AtIdle, AtCbw
  <2> QED BY <2>4, <2>5, <2>6
<1> QED BY <1>3, <1>4, <1>5

\* The callbacks.
LEMMA CallbacksTogether ==
  ASSUME BotSound, Alone, Msc!OutCallback \/ Msc!InCallback
  PROVE  Alone'
<1> DEFINE V == BotValues(cbw.tag)
<1>1. /\ DevSound(V, dev) /\ come.room \in Int /\ Msc!Zero \in V /\ medium \in [Msc!LBAs -> V]
      /\ cbw \in BotCommands /\ Sized(cbw) /\ cbw.n \in Nat
  BY BotValuesOf DEF BotSound, CallSound, BotCommands
<1>2. UNCHANGED <<host, cbw, send, come, prompt>> /\ dev.events # <<>>
  BY DEF Msc!OutCallback, Msc!InCallback, Msc!settings
<1>3. (Msc!OutCallback => Head(dev.events) = "out") /\ (Msc!InCallback => Head(dev.events) = "in")
  BY DEF Msc!OutCallback, Msc!InCallback
<1> HIDE DEF V
<1>4. CASE ~prompt
  BY <1>2, <1>4 DEF Alone
<1>5. CASE prompt /\ escaped
  BY <1>2, <1>5 DEF Alone, Stuck, Quiet
<1>6. CASE prompt /\ ~escaped
  <2>1. Together
    BY <1>6 DEF Alone
  <2>2. ~(Begun(dev, cbw) /\ dev.events = <<>>) /\ ~Telling(dev, cbw)
    BY <1>2 DEF Telling
  <2>3. ASSUME Taken(dev, cbw) PROVE Begun(dev', cbw) /\ dev'.events = <<>> /\ ~escaped'
    <3>1. Msc!OutCallback
      BY <1>3, <2>3 DEF Taken
    <3> QED BY <1>1, <1>6, <2>3, <3>1, BlockBegins
  <2>4. ASSUME AtRest(dev) PROVE AtRest(dev') /\ ~escaped'
    <3>1. Answered(dev) /\ Msc!InCallback
      BY <1>2, <1>3, <2>4 DEF AtRest, Ready, Answered
    <3> QED BY <1>1, <1>6, <3>1, AnswerEnds DEF AtRest
  <2>5. ASSUME NEW m, Takes(dev, cbw, m)
        PROVE  \/ ~escaped' /\ Takes(dev', cbw, m)
               \/ ~escaped' /\ m = 0 /\ Telling(dev', cbw)
               \/ escaped' /\ Quiet(dev')
    <3>1. Msc!OutCallback
      BY <1>2, <1>3, <2>5 DEF Takes
    <3> QED BY <1>1, <1>6, <2>5, <3>1, TakesOn
  <2>6. ASSUME NEW m, Gives(dev, cbw, m)
        PROVE  \/ ~escaped' /\ Gives(dev', cbw, m)
               \/ ~escaped' /\ m = 0 /\ Telling(dev', cbw)
               \/ escaped' /\ Quiet(dev')
    <3>1. Msc!InCallback
      BY <1>2, <1>3, <2>6 DEF Gives
    <3> QED BY <1>1, <1>6, <2>6, <3>1, GivesOn
  <2>7. ASSUME ~escaped', Together' PROVE Alone'
    BY <2>7 DEF Alone
  <2>8. ASSUME escaped', Quiet(dev'), host.at # "csw" \/ Awaits PROVE Alone'
    <3>1. host.at # "reset" /\ (host.at = "csw" => come.room > 0)
      BY <2>1, <2>8 DEF Together, Awaits, Msc!Read
    <3> QED BY <1>2, <2>8, <3>1 DEF Alone, Stuck
  <2>9. CASE host.at = "idle"
    <3>1. AtIdle' /\ ~escaped'
      BY <1>2, <2>1, <2>4, <2>9 DEF Together, AtIdle
    <3> QED BY <1>2, <2>7, <2>9, <3>1 DEF Together
  <2>10. CASE host.at = "cbw"
    <3>1. AtCbw' /\ ~escaped'
      BY <1>2, <2>1, <2>2, <2>3, <2>4, <2>10 DEF Together, AtCbw
    <3> QED BY <1>2, <2>7, <2>10, <3>1 DEF Together
  <2>11. CASE host.at = "data" /\ Fetches
    <3>1. Msc!ToHost(cbw) /\ send = <<>> /\ cbw.n > 0
      BY <1>1, <2>11 DEF Fetches, Msc!ToHost, Sized
    <3>2. ASSUME come = Msc!Read(cbw.n), Taken(dev, cbw) PROVE Fetches' /\ ~escaped'
      <4>1. PICK m \in 0..(cbw.n) : Giving(dev', cbw, m)
        BY <2>3, <3>1, <3>2 DEF Begun, Msc!ToHost, Msc!ToDevice
      <4>2. Gives(dev', cbw, m) /\ m \in 0..(come'.room)
        BY <1>2, <2>3, <3>2, <4>1 DEF Gives, Msc!Read
      <4> QED BY <1>2, <2>3, <3>1, <3>2, <4>2 DEF Fetches
    <3>3. ASSUME NEW m \in 0..(come.room), Gives(dev, cbw, m)
          PROVE  (Fetches' /\ ~escaped') \/ (escaped' /\ Quiet(dev'))
      BY <1>2, <2>6, <3>1, <3>3 DEF Fetches
    <3>4. ASSUME come.room = 0, AtRest(dev) PROVE Fetches' /\ ~escaped'
      BY <1>2, <2>4, <3>1, <3>4 DEF Fetches
    <3>5. (Fetches' /\ ~escaped') \/ (escaped' /\ Quiet(dev'))
      BY <2>2, <2>11, <3>2, <3>3, <3>4 DEF Fetches
    <3> QED BY <1>2, <2>7, <2>8, <2>11, <3>5 DEF Together
  <2>12. CASE host.at = "data" /\ Delivers
    <3>1. Msc!ToDevice(cbw) /\ come = Msc!NoRead /\ cbw.n > 0
          /\ \A i \in DOMAIN send : send[i].kind = "block"
      BY <1>1, <2>12 DEF Delivers, Msc!ToDevice, Sized
    <3>2. ASSUME Taken(dev, cbw), Len(send) = cbw.n PROVE Delivers' /\ ~escaped'
      <4>1. Taking(dev', cbw, cbw.n)
        BY <2>3, <3>1, <3>2 DEF Begun, Msc!ToHost, Msc!ToDevice
      <4> QED BY <1>2, <2>3, <3>1, <3>2, <4>1 DEF Delivers, Takes
    <3>3. ASSUME Takes(dev, cbw, Len(send))
          PROVE  (Delivers' /\ ~escaped') \/ (escaped' /\ Quiet(dev'))
      <4>1. Len(send) = 0 => send = <<>>
        BY DEF BotSound
      <4> QED BY <1>2, <2>5, <3>1, <3>3, <4>1 DEF Delivers
    <3>4. (Delivers' /\ ~escaped') \/ (escaped' /\ Quiet(dev'))
      BY <2>2, <2>12, <3>2, <3>3 DEF Delivers
    <3> QED BY <1>2, <2>7, <2>8, <2>12, <3>4 DEF Together
  <2>13. CASE host.at = "csw" /\ send = <<>> /\ Awaits
    <3>1. come = Msc!Read(1)
      BY <2>13 DEF Awaits
    <3>2. ASSUME Taken(dev, cbw), cbw.n = 0 PROVE Awaits' /\ ~escaped'
      <4>1. Telling(dev', cbw)
        <5>1. ~Msc!ToHost(cbw) /\ ~Msc!ToDevice(cbw)
          BY <1>1, <3>2 DEF Msc!ToHost, Msc!ToDevice, Sized
        <5> QED BY <2>3, <3>2, <5>1 DEF Begun, Telling
      <4> QED BY <1>2, <2>3, <3>1, <3>2, <4>1 DEF Awaits
    <3>3. ASSUME Gives(dev, cbw, 0) \/ Takes(dev, cbw, 0)
          PROVE  (Awaits' /\ ~escaped') \/ (escaped' /\ Quiet(dev'))
      BY <1>2, <2>5, <2>6, <3>1, <3>3 DEF Awaits
    <3>4. ASSUME AtRest(dev) PROVE Awaits' /\ ~escaped'
      BY <1>2, <2>4, <3>1, <3>4 DEF Awaits
    <3>5. (Awaits' /\ ~escaped') \/ (escaped' /\ Quiet(dev'))
      BY <2>2, <2>13, <3>2, <3>3, <3>4 DEF Awaits
    <3> QED BY <1>2, <2>7, <2>8, <2>13, <3>5 DEF Together
  <2>14. CASE host.at = "csw" /\ send = <<>> /\ Heard
    <3>1. Heard' /\ ~escaped'
      BY <1>2, <2>4, <2>14 DEF Heard, Msc!IsOwn
    <3> QED BY <1>2, <2>7, <2>14, <3>1 DEF Together
  <2> QED BY <2>1, <2>9, <2>10, <2>11, <2>12, <2>13, <2>14 DEF Together
<1> QED BY <1>4, <1>5, <1>6

\* A command begins, or the call ends, with the device at rest or stuck.
LEMMA TurnsTogether ==
  ASSUME Begins \/ Over, UNCHANGED <<escaped, prompt>>,
         prompt => IF escaped THEN Quiet(dev') ELSE AtRest(dev')
  PROVE  Alone'
<1>1. CASE Begins
  <2>1. host'.at = "cbw" /\ come' = Msc!NoRead /\ send' = <<Msc!UsbPacket("cbw", cbw'.tag, cbw')>>
    BY <1>1 DEF Begins
  <2> QED BY <2>1 DEF Alone, Stuck, Together, AtCbw
<1>2. CASE Over
  <2>1. host'.at = "idle" /\ come' = Msc!NoRead /\ send' = <<>>
    BY <1>2 DEF Over
  <2> QED BY <2>1 DEF Alone, Stuck, Together, AtIdle
<1> QED BY <1>1, <1>2

\* The host's steps.
LEMMA HostTogether ==
  ASSUME BotSound, Alone,
         \/ \E op \in {"read", "write", "open", "eject"}, b \in Msc!LBAs,
               n \in 1..MaxCount : Msc!Call(op, b, n)
         \/ Msc!CbwSent \/ Msc!DataEnds \/ Msc!CswEnds \/ Msc!Reset \/ Msc!TimeOut
  PROVE  Alone'
<1>1. /\ CallSound(host, cbw) /\ cbw \in BotCommands /\ Sized(cbw) /\ cbw.n \in Nat
      /\ dev.events \in Queues /\ come.room \in Int
  BY DEF BotSound, CallSound, BotCommands, DevSound, Drivers
<1>2. ASSUME NEW op \in {"read", "write", "open", "eject"}, NEW b \in Msc!LBAs, NEW n \in 1..MaxCount,
             Msc!Call(op, b, n)
      PROVE  Alone'
  <2>1. host.at = "idle" /\ UNCHANGED <<dev, escaped, prompt>>
    BY <1>2 DEF Msc!Call, Msc!settings
  <2>2. Begins
    BY <1>1, <1>2, CallsSound
  <2>3. prompt => IF escaped THEN Quiet(dev') ELSE AtRest(dev')
    BY <2>1 DEF Alone, Stuck, Together, AtIdle
  <2> QED BY <2>1, <2>2, <2>3, TurnsTogether
<1>3. CASE Msc!CbwSent
  <2>1. /\ host.at = "cbw" /\ send = <<>> /\ UNCHANGED <<cbw, dev, escaped, prompt>>
        /\ host' = [host EXCEPT !.at = IF cbw.n = 0 THEN "csw" ELSE "data"]
        /\ come' = IF cbw.n = 0 THEN Msc!Read(1) ELSE IF Msc!ToHost(cbw) THEN Msc!Read(cbw.n)
                   ELSE Msc!NoRead
        /\ send' = IF Msc!ToDevice(cbw)
                   THEN [i \in 1..cbw.n |-> Msc!UsbPacket("block", 0, cbw.tag)] ELSE <<>>
    BY <1>3 DEF Msc!CbwSent, Msc!settings
  <2>2. host'.at = IF cbw.n = 0 THEN "csw" ELSE "data"
    <3>1. PICK at \in {"csw", "data"} : GoesTo(at) /\ at = IF cbw.n = 0 THEN "csw" ELSE "data"
      BY <2>1 DEF GoesTo
    <3> QED BY <1>1, <2>1, <3>1, CallGoesOn
  <2>3. CASE prompt /\ escaped
    <3>1. Quiet(dev)
      BY <2>3 DEF Alone, Stuck
    <3>2. cbw.n = 0 => come'.room = 1
      BY <2>1 DEF Msc!Read
    <3> QED BY <2>1, <2>2, <2>3, <3>1, <3>2 DEF Alone, Stuck
  <2>4. CASE prompt /\ ~escaped
    <3>1. Taken(dev, cbw) \/ (Begun(dev, cbw) /\ dev.events = <<>>)
      BY <2>1, <2>4 DEF Alone, Together, AtCbw
    <3>2. CASE cbw.n = 0
      <4>1. ~Msc!ToHost(cbw) /\ ~Msc!ToDevice(cbw)
        BY <1>1, <3>2 DEF Msc!ToHost, Msc!ToDevice, Sized
      <4>2. Awaits' /\ send' = <<>>
        BY <2>1, <3>1, <3>2, <4>1 DEF Awaits, Begun, Telling
      <4> QED BY <2>1, <2>2, <2>4, <3>2, <4>2 DEF Alone, Together
    <3>3. CASE cbw.n # 0 /\ Msc!ToHost(cbw)
      <4>1. ~Msc!ToDevice(cbw) /\ send' = <<>> /\ come' = Msc!Read(cbw.n) /\ come'.room = cbw.n
        BY <2>1, <3>3 DEF Msc!ToHost, Msc!ToDevice, Msc!Read
      <4>2. Taken(dev, cbw) \/ \E m \in 0..(cbw.n) : Gives(dev, cbw, m)
        BY <3>1, <3>3, <4>1 DEF Begun, Gives
      <4>3. Fetches'
        BY <2>1, <3>3, <4>1, <4>2 DEF Fetches
      <4> QED BY <2>1, <2>2, <2>4, <3>3, <4>3 DEF Alone, Together
    <3>4. CASE cbw.n # 0 /\ ~Msc!ToHost(cbw)
      <4>1. Msc!ToDevice(cbw)
        BY <1>1, <3>4 DEF BotCommands, BotOps, Msc!ToHost, Msc!ToDevice, Sized
      <4>2. come' = Msc!NoRead /\ send' = [i \in 1..cbw.n |-> Msc!UsbPacket("block", 0, cbw.tag)]
        BY <2>1, <3>4, <4>1
      <4>3. Len(send') = cbw.n /\ \A i \in DOMAIN send' : send'[i].kind = "block"
        <5> DEFINE x == Msc!UsbPacket("block", 0, cbw.tag)
        <5>1. x.kind = "block"
          BY DEF Msc!UsbPacket
        <5> HIDE DEF x
        <5>2. send' = [i \in 1..cbw.n |-> x]
          BY <4>2 DEF x
        <5> QED BY <1>1, <5>1, <5>2
      <4>4. Taken(dev, cbw) \/ Takes(dev, cbw, cbw.n)
        BY <3>1, <3>4, <4>1 DEF Begun, Takes
      <4>5. Delivers'
        BY <2>1, <4>1, <4>2, <4>3, <4>4 DEF Delivers
      <4> QED BY <2>1, <2>2, <2>4, <3>4, <4>5 DEF Alone, Together
    <3> QED BY <3>2, <3>3, <3>4
  <2> QED BY <2>1, <2>3, <2>4 DEF Alone
<1>4. CASE Msc!DataEnds
  <2>1. /\ host.at = "data" /\ send = <<>> /\ come.room = 0 /\ UNCHANGED <<cbw, dev, escaped, prompt>>
        /\ come' = Msc!Read(1) /\ send' = <<>>
    BY <1>4 DEF Msc!DataEnds, Msc!DataOver, Msc!settings
  <2>2. host'.at = "csw"
    <3>1. GoesWith("csw", come.got)
      BY <1>4 DEF Msc!DataEnds, Msc!DataOver, GoesWith
    <3> QED BY <1>1, <2>1, <3>1, CallGoesOn
  <2>3. CASE prompt /\ escaped
    <3>1. Quiet(dev)
      BY <2>3 DEF Alone, Stuck
    <3> QED BY <2>1, <2>2, <2>3, <3>1 DEF Alone, Stuck, Msc!Read
  <2>4. CASE prompt /\ ~escaped
    <3>1. Fetches \/ Delivers
      BY <2>1, <2>4 DEF Alone, Together
    <3>2. CASE Fetches
      <4>1. Taken(dev, cbw) => cbw.n = 0 \/ Gives(dev, cbw, 0)
        <5>1. ASSUME come = Msc!Read(cbw.n) PROVE cbw.n = 0
          BY <2>1, <5>1 DEF Msc!Read
        <5>2. ~(Taken(dev, cbw) /\ Telling(dev, cbw)) /\ ~(Taken(dev, cbw) /\ AtRest(dev))
              /\ \A m : ~(Taken(dev, cbw) /\ Gives(dev, cbw, m))
          BY DEF Taken, Telling, Tells, AtRest, Ready, Answered, Gives, Giving, Supply, Msc!NoXfer,
                 Msc!Armed
        <5> QED BY <3>2, <5>1, <5>2 DEF Fetches
      <4>2. ASSUME NEW m \in 0..(come.room), Gives(dev, cbw, m) PROVE Gives(dev, cbw, 0)
        BY <2>1, <4>2
      <4> QED BY <2>1, <2>2, <2>4, <3>2, <4>1, <4>2 DEF Fetches, Awaits, Alone, Together
    <3>3. CASE Delivers
      <4>1. Len(send) = 0
        BY <2>1
      <4> QED BY <2>1, <2>2, <2>4, <3>3, <4>1 DEF Delivers, Awaits, Alone, Together
    <3> QED BY <3>1, <3>2, <3>3
  <2> QED BY <2>1, <2>3, <2>4 DEF Alone
<1>5. CASE Msc!CswEnds
  <2>1. host.at = "csw" /\ come.room = 0 /\ UNCHANGED <<dev, escaped, prompt>>
    BY <1>5 DEF Msc!CswEnds, Msc!settings
  <2>2. CASE ~prompt
    BY <2>1, <2>2 DEF Alone
  <2>3. CASE prompt
    <3>1. ~escaped /\ Msc!IsOwn(come.got[1]) /\ AtRest(dev)
      BY <2>1, <2>3 DEF Alone, Stuck, Together, Awaits, Heard, Msc!Read
    <3>2. Msc!Settle(come.got[1].val)
      BY <1>5, <3>1 DEF Msc!CswEnds
    <3>3. Begins \/ Over
      BY <1>1, <2>1, <3>2, SettleSound
    <3> QED BY <2>1, <3>1, <3>3, TurnsTogether
  <2> QED BY <2>2, <2>3
<1>6. CASE Msc!Reset
  <2>1. host.at = "reset" /\ UNCHANGED <<prompt>>
    BY <1>6 DEF Msc!Reset, Msc!settings
  <2> QED BY <2>1 DEF Alone, Stuck, Together
<1>7. CASE Msc!TimeOut
  <2>1. /\ host.at \in {"cbw", "data", "csw"} /\ (send # <<>> \/ come.room > 0)
        /\ UNCHANGED <<dev, escaped, prompt>>
    BY <1>7 DEF Msc!TimeOut, Msc!settings
  <2>2. CASE ~prompt
    BY <2>1, <2>2 DEF Alone
  <2>3. CASE prompt /\ escaped
    <3>1. Quiet(dev)
      BY <2>3 DEF Alone, Stuck
    <3>2. CASE Msc!Returns
      <4>1. Over
        BY <1>1, <3>2, ReturnsSound
      <4> QED BY <2>1, <2>3, <3>1, <4>1, TurnsTogether
    <3>3. CASE ~Msc!Returns
      <4>1. Msc!DataOver /\ UNCHANGED cbw
        BY <1>7, <3>3 DEF Msc!TimeOut
      <4>2. GoesWith("csw", come.got) /\ come' = Msc!Read(1)
        BY <4>1 DEF Msc!DataOver, GoesWith
      <4>3. host.at # "idle"
        BY <2>1
      <4>4. host'.at = "csw"
        BY <1>1, <4>1, <4>2, <4>3, CallGoesOn
      <4> QED BY <2>1, <2>3, <3>1, <4>2, <4>4 DEF Alone, Stuck, Msc!Read
    <3> QED BY <3>2, <3>3
  <2>4. CASE prompt /\ ~escaped
    <3>1. Together /\ ~Msc!CanSend /\ ~Msc!CanFetch /\ dev.events = <<>>
      BY <1>7, <2>4 DEF Alone, Msc!TimeOut
    <3>2. /\ ~Taken(dev, cbw) /\ (come.room > 0 => ~Telling(dev, cbw))
          /\ AtRest(dev) => Ready(dev) /\ send = <<>>
          /\ \A m : Gives(dev, cbw, m) => ~(come.room > 0)
          /\ \A m : Takes(dev, cbw, m) => send = <<>> /\ Taking(dev, cbw, m)
      BY <3>1, ArmedOf DEF Taken, Telling, Tells, AtRest, Ready, Answered, Gives, Giving, Takes,
         Taking,
         Msc!CanSend, Msc!CanFetch
    <3>3. ~Takes(dev, cbw, 0)
      <4>1. ASSUME Taking(dev, cbw, 0) PROVE FALSE
        <5>1. dev.out.left \in Int /\ dev.out.done \in Int /\ dev.left \in Int /\ dev.chunk \in Int
              /\ dev.discard \in Int
          <6>1. dev.out \in Xfers(OutKinds) /\ dev.left \in Int /\ dev.chunk \in Int
                /\ dev.discard \in Int
            BY DEF BotSound, DevSound, Drivers
          <6> QED BY <6>1 DEF Xfers, Msc!NoXfer
        <5> QED BY <4>1, <5>1 DEF Taking, Demand
      <4> QED BY <3>2, <4>1
    <3>4. host.at # "cbw"
      <4>1. ASSUME host.at = "cbw" PROVE FALSE
        <5>1. come = Msc!NoRead /\ send = <<Msc!UsbPacket("cbw", cbw.tag, cbw)>> /\ AtRest(dev)
          BY <2>1, <3>1, <4>1 DEF Together, AtCbw, Msc!NoRead
        <5> QED BY <3>2, <5>1
      <4> QED BY <4>1
    <3>5. host.at # "data"
      <4>1. ASSUME Fetches PROVE FALSE
        <5>1. send = <<>> /\ come.room > 0
          BY <2>1, <4>1 DEF Fetches
        <5> QED BY <3>2, <4>1, <5>1 DEF Fetches
      <4>2. ASSUME Delivers PROVE FALSE
        <5>1. send # <<>>
          BY <2>1, <4>2 DEF Delivers, Msc!NoRead
        <5> QED BY <3>2, <4>2, <5>1 DEF Delivers
      <4> QED BY <3>1, <4>1, <4>2 DEF Together
    <3>6. host.at = "csw" /\ send = <<>>
      BY <2>1, <3>1, <3>4, <3>5 DEF Together
    <3>7. Awaits /\ come = Msc!Read(1) /\ come.room > 0 /\ come.got = <<>>
      BY <2>1, <3>1, <3>6 DEF Together, Heard, Awaits, Msc!Read
    <3>8. AtRest(dev)
      BY <3>2, <3>3, <3>7 DEF Awaits
    <3>9. Over
      BY <1>1, <1>7, <3>7, ReturnsSound DEF Msc!TimeOut
    <3> QED BY <2>1, <2>4, <3>8, <3>9, TurnsTogether
  <2> QED BY <2>2, <2>3, <2>4
<1> QED BY <1>2, <1>3, <1>4, <1>5, <1>6, <1>7

\* A device that starts over.
LEMMA OpensReady ==
  ASSUME NEW V, NEW d \in Drivers(V), Bounded(d), d.out = Msc!NoXfer, d.in = Msc!NoXfer,
         d.events = <<>>
  PROVE  Ready(Msc!ArmCbw(d))
BY ArmCbwReady, ArmCbwHandles DEF Ready, Handles

\* A replug begins both ends anew.
LEMMA ReplugTogether ==
  ASSUME BotSound, Msc!Replug
  PROVE  Alone'
<1> DEFINE q == <<>>
           f == [dev EXCEPT !.out = Msc!NoXfer]  g == [f EXCEPT !.in = Msc!NoXfer]
                h == [g EXCEPT !.events = q]
<1>1. host' = Msc!NoDrive /\ send' = <<>> /\ come' = Msc!NoRead /\ dev' = Msc!ArmCbw(h) /\ ~escaped'
  BY DEF Msc!Replug, Msc!OnOpen
<1>2. PICK V : dev \in Drivers(V) /\ Bounded(dev) /\ ~dev.raised
  BY DEF BotSound, DevSound
<1>3. f \in Drivers(V) /\ Bounded(f) /\ f.out = Msc!NoXfer /\ ~f.raised
  BY <1>2, FreeOf
<1> HIDE DEF f
<1>4. g \in Drivers(V) /\ Bounded(g) /\ g.out = Msc!NoXfer /\ g.in = Msc!NoXfer
  BY <1>3, FreeOf
<1>5. q \in Queues
  BY DEF Queues
<1> HIDE DEF g, q
<1>6. h \in Drivers(V) /\ Bounded(h) /\ h.out = Msc!NoXfer /\ h.in = Msc!NoXfer /\ h.events = q
  BY <1>4, <1>5 DEF Drivers, Bounded
<1> HIDE DEF h
<1>7. Ready(dev')
  BY <1>1, <1>6, OpensReady DEF q
<1>8. host'.at = "idle"
  BY <1>1 DEF Msc!NoDrive
<1> QED BY <1>1, <1>7, <1>8 DEF Alone, Together, AtIdle, AtRest

\* Both ends begin in step.
LEMMA InitTogether == ASSUME Msc!Init PROVE Alone
<1> DEFINE d == [cmd |-> Msc!Command("ready", 0, 0, 0), cbw |-> Msc!UsbPacket("none", 0, 0),
            csw |-> Msc!UsbPacket("none", 0, 0), reply |-> Msc!UsbPacket("none", 0, 0),
            buf |-> [i \in 1..Chunk |-> Msc!Unused], lba |-> 0, left |-> 0, chunk |-> 0,
            discard |-> 0,
            sense |-> Msc!NoSense, out |-> Msc!NoXfer, in |-> Msc!NoXfer, events |-> <<>>,
            raised |-> FALSE, ejected |-> FALSE, card |-> "computer"]
           t == Msc!Armed("cbw", 1)
<1>1. host.at = "idle" /\ send = <<>> /\ come = Msc!NoRead /\ dev = Msc!ArmCbw(d) /\ ~escaped
  BY DEF Msc!Init, Msc!OnOpen, Msc!NoDrive
<1>2. Msc!ArmCbw(d) = [d EXCEPT !.out = t]
  <2>1. d.out = Msc!NoXfer
    OBVIOUS
  <2> HIDE DEF d
  <2> QED BY <2>1 DEF Msc!ArmCbw, Msc!SubmitOut, Msc!NoXfer
<1> HIDE DEF t
<1>3. [d EXCEPT !.out = t].out = t /\ [d EXCEPT !.out = t].in = Msc!NoXfer
      /\ [d EXCEPT !.out = t].events = <<>>
  OBVIOUS
<1> HIDE DEF d
<1>4. Ready(dev)
  BY <1>1, <1>2, <1>3 DEF Ready, t
<1> QED BY <1>1, <1>4 DEF Alone, Together, AtIdle, AtRest

\* Every step keeps the two ends in step, or an exception has left a callback.
LEMMA NextTogether == ASSUME BotSound, Alone, Msc!Next PROVE Alone'
<1>1. CASE \/ \E op \in {"read", "write", "open", "eject"}, b \in Msc!LBAs,
                 n \in 1..MaxCount : Msc!Call(op, b, n)
           \/ Msc!CbwSent \/ Msc!DataEnds \/ Msc!CswEnds \/ Msc!Reset \/ Msc!TimeOut
  BY <1>1, HostTogether
<1>2. CASE Msc!Replug
  BY <1>2, ReplugTogether
<1>3. CASE Msc!Leave \/ Msc!BoardWrites \/ Msc!Insert
  BY <1>3, BoardApart
<1>4. CASE Msc!PacketOut
  BY <1>4, PacketOutTogether
<1>5. CASE Msc!PacketIn
  BY <1>5, PacketInTogether
<1>6. CASE Msc!OutCallback \/ Msc!InCallback
  BY <1>6, CallbacksTogether
<1> QED BY <1>1, <1>2, <1>3, <1>4, <1>5, <1>6 DEF Msc!Next

\* No step: nothing changes.
LEMMA BotStays == ASSUME BotSound, Alone, UNCHANGED Msc!vars PROVE BotSound' /\ Alone'
<1>1. UNCHANGED <<host, cbw, send, come, dev, medium, escaped, readonly, bad, prompt>>
  BY DEF Msc!vars, Msc!settings
<1>2. BotSound'
  BY <1>1 DEF BotSound
<1>3. Alone'
  BY <1>1 DEF Alone, Stuck, Together, AtIdle, AtCbw, Fetches, Delivers, Awaits, Heard, Msc!IsOwn
<1> QED BY <1>2, <1>3

\* Ends that are together are in step between calls.
LEMMA BotInStep == ASSUME BotSound, Alone PROVE Msc!Consistent
<1>1. Msc!InStep
  BY ArmedOf DEF Msc!InStep, Alone, Together, AtIdle, AtRest, Ready, Answered, Msc!NoXfer
<1> QED BY <1>1, BotTypes DEF Msc!Consistent

\* One writer.
LEMMA BotWriter ==
  ASSUME BotSound, Msc!Next, dev.ejected, medium' # medium
  PROVE  dev.card = "board" /\ medium'[0] = Msc!Boards
<1>1. Msc!BoardWrites
  <2>1. ASSUME Msc!OutCallback PROVE medium' = medium
    <3>1. dev.events \in Queues /\ dev.out \in Xfers(OutKinds) /\ Head(dev.events) = "out"
          /\ dev.events # <<>>
      BY <2>1 DEF BotSound, DevSound, Drivers, Msc!OutCallback
    <3>2. Has(dev.events, "out")
      BY <3>1, QueueOf
    <3>3. dev.out.kind \in OutKinds /\ dev.out.kind # "chunk"
      BY <3>1, <3>2 DEF BotSound, DevSound, Bounded, Told, Xfers, Msc!NoXfer
    <3> QED BY <2>1, <3>3 DEF Msc!OutCallback, OutKinds
  <2>2. ~Msc!OutCallback
    BY <2>1
  <2> QED BY <2>2 DEF Msc!Next, Msc!Call, Msc!Replug, Msc!CbwSent, Msc!DataEnds, Msc!CswEnds,
             Msc!Reset, Msc!TimeOut, Msc!Leave, Msc!Insert,
          Msc!PacketOut, Msc!PacketIn, Msc!InCallback
<1>2. 0 \in Msc!LBAs
  BY ConstantsAssumption DEF Msc!SizesAssumption, Msc!LBAs
<1> QED BY <1>1, <1>2 DEF Msc!BoardWrites, BotSound

\* MscBot: whatever the two ends do, and whatever the medium refuses, the driver's
\* fields and its transfers stay well formed; and with a device that is quick the two are
\* in step between calls, unless an exception left one of its callbacks.
THEOREM MscConsistent == ClassesSpec => []Consistent
<1>1. ClassesInit => BotSound /\ Alone
  BY BotInit, InitTogether DEF ClassesInit
<1>2. BotSound /\ Alone /\ [ClassesNext]_allVars => (BotSound /\ Alone)'
  <2>1. BotSound /\ Alone /\ UNCHANGED mscVars => (BotSound /\ Alone)'
    BY BotStays DEF mscVars, Msc!vars, Msc!settings
  <2> QED BY <2>1, OneComponent, BotNext, NextTogether
<1>3. BotSound /\ Alone => Consistent
  BY BotInStep DEF Consistent
<1> QED BY <1>1, <1>2, <1>3, PTL DEF ClassesSpec

\* MscBot: from the eject until insert(), only the board writes the card, however late a
\* transfer of the computer's ends.
THEOREM OneWriterOnly == ClassesSpec => Msc!OneWriter
<1>1. ClassesInit => BotSound
  BY BotInit DEF ClassesInit
<1>2. BotSound /\ [ClassesNext]_allVars => BotSound'
  <2>1. BotSound /\ UNCHANGED mscVars => BotSound'
    BY DEF mscVars, BotSound
  <2> QED BY <2>1, OneComponent, BotNext
<1>3. BotSound /\ [ClassesNext]_allVars =>
        [dev.ejected /\ medium' # medium => dev.card = "board" /\ medium'[0] = Msc!Boards]_(Msc!vars)
  <2>1. UNCHANGED mscVars => UNCHANGED Msc!vars
    BY DEF mscVars, Msc!vars, Msc!settings
  <2> QED BY <2>1, OneComponent, BotWriter
<1> QED BY <1>1, <1>2, <1>3, PTL DEF ClassesSpec, Msc!OneWriter

=============================================================================
