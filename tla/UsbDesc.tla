------------------------------ MODULE UsbDesc ------------------------------
(***************************************************************************)
(* What the host's Python makes of a configuration descriptor: the walks   *)
(* of core.py and of the packet drivers, each as the set or the element it *)
(* ends with.  A configuration is the sequence of its interface and        *)
(* endpoint descriptors; the other descriptors are stepped over.           *)
(***************************************************************************)
EXTENDS Integers, Sequences, FiniteSetsExt

None == [is |-> "none"]
Itf(n, alt, class) == [is |-> "itf", num |-> n, alt |-> alt, class |-> class]
Ep(n, in, kind) == [is |-> "ep", addr |-> [n |-> n, in |-> in], kind |-> kind]

----------------------------------------------------------------------------
(* The walks.                                                              *)

Eps(cfg) == {i \in DOMAIN cfg : cfg[i].is = "ep"}
Itfs(cfg) == {i \in DOMAIN cfg : cfg[i].is = "itf"}
\* The first descriptor of a set, and the interface the one at i is under.
First(cfg, is) == IF is = {} THEN None ELSE cfg[Min(is)]
Under(cfg, i) == cfg[Max({j \in Itfs(cfg) : j <= i})]

InOf(cfg, is) == {i \in is : cfg[i].addr.in}
OutOf(cfg, is) == is \ InOf(cfg, is)
Final(cfg, is) == IF is = {} THEN None ELSE cfg[Max(is)].addr
Initial(cfg, is) == IF is = {} THEN None ELSE cfg[Min(is)].addr

\* core._endpoints, core._find_interface.
Endpoints(cfg, itf, alt) ==
  {cfg[i].addr : i \in {j \in Eps(cfg) : Under(cfg, j).num = itf /\ Under(cfg, j).alt = alt}}
FindInterface(cfg, ep) ==
  LET is == {i \in Eps(cfg) : cfg[i].addr = ep}
  IN IF is = {} THEN None ELSE [is |-> "num", num |-> Under(cfg, Min(is)).num]

Bulk(cfg, num) == {i \in Eps(cfg) : cfg[i].kind = "bulk" /\ Under(cfg, i).num = num}

\* What a driver picks: the interface it sends its requests to, the one its
\* endpoints are in, and the endpoints (out may be None for HID).
Pick(ctrl, data, in, out) == [is |-> "pick", ctrl |-> ctrl, data |-> data, in |-> in, out |-> out]

\* cdc._find: the first communications interface and the first data interface,
\* whichever function each is of; the last bulk endpoint each way.
CdcFind(cfg) ==
  LET data == First(cfg, {i \in Itfs(cfg) : cfg[i].class = "data"})
      comm == First(cfg, {i \in Itfs(cfg) : cfg[i].class = "comm"})
      eps == IF data = None THEN {} ELSE Bulk(cfg, data.num)
  IN IF InOf(cfg, eps) = {} \/ OutOf(cfg, eps) = {} THEN None
     ELSE Pick(IF comm = None THEN data.num ELSE comm.num, data.num,
               Final(cfg, InOf(cfg, eps)), Final(cfg, OutOf(cfg, eps)))

\* net._rndis: the first control interface of RNDIS, then the first data interface
\* after it.  Mutant: a data interface before it will do.
RndisFindFrom(cfg, anywhere) ==
  LET c == {i \in Itfs(cfg) : cfg[i].class = "rndis"}
      data == IF c = {} THEN None
              ELSE First(cfg, {i \in Itfs(cfg) : (anywhere \/ i > Min(c)) /\ cfg[i].class = "data"})
      eps == IF data = None THEN {} ELSE Bulk(cfg, data.num)
  IN IF InOf(cfg, eps) = {} \/ OutOf(cfg, eps) = {} THEN None
     ELSE Pick(cfg[Min(c)].num, data.num,
               Final(cfg, InOf(cfg, eps)), Final(cfg, OutOf(cfg, eps)))
MutRndisFind(cfg) == RndisFindFrom(cfg, TRUE)
RndisFind(cfg) == RndisFindFrom(cfg, FALSE)

\* hid._interfaces, and the one Device takes: of the protocol asked for, or the
\* first there is.  Alternate settings other than 0 are no interface to it.
HidInterfaces(cfg) ==
  {i \in Itfs(cfg) : /\ cfg[i].class \in {"keyboard", "hid"} /\ cfg[i].alt = 0
                     /\ \E j \in Eps(cfg) : Under(cfg, j) = cfg[i] /\ cfg[j].kind = "int"
                                            /\ cfg[j].addr.in}
HidMatch(cfg) == \E i \in HidInterfaces(cfg) : cfg[i].class = "keyboard"
HidFind(cfg) ==
  LET boot == {i \in HidInterfaces(cfg) : cfg[i].class = "keyboard"}
      itf == First(cfg, IF boot # {} THEN boot ELSE HidInterfaces(cfg))
      eps == {i \in Eps(cfg) : cfg[i].kind = "int" /\ Under(cfg, i) = itf}
  IN IF itf = None THEN None
     ELSE Pick(itf.num, itf.num, Final(cfg, InOf(cfg, eps)), Final(cfg, OutOf(cfg, eps)))

\* Drive._interface: the first Bulk-Only interface, at alternate 0, with both
\* endpoints; the first of each.
MscFind(cfg) ==
  LET good == {i \in Itfs(cfg) : /\ cfg[i].class = "bot" /\ cfg[i].alt = 0
                 /\ \E j, k \in Eps(cfg) : /\ Under(cfg, j) = cfg[i] /\ cfg[j].addr.in
                                           /\ Under(cfg, k) = cfg[i] /\ ~cfg[k].addr.in}
      itf == First(cfg, good)
      eps == {i \in Eps(cfg) : cfg[i].kind = "bulk" /\ Under(cfg, i) = itf}
  IN IF itf = None THEN None
     ELSE Pick(itf.num, itf.num, Initial(cfg, InOf(cfg, eps)), Initial(cfg, OutOf(cfg, eps)))

FindOf(driver, cfg) ==
  CASE driver = "cdc" -> CdcFind(cfg) [] driver = "net" -> RndisFind(cfg)
    [] driver = "hid" -> HidFind(cfg) [] driver = "msc" -> MscFind(cfg)
=============================================================================
