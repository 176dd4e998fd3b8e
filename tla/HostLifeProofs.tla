---------------------------- MODULE HostLifeProofs ----------------------------
(***************************************************************************)
(* Proofs about HostLife, for any devices and slots: what the teardown     *)
(* goes by covers what the library holds, and what host_start() and        *)
(* host_stop() say of the host is so.                                      *)
(*                                                                         *)
(* Both are promises about an install that start's wait does not give up   *)
(* on (~SlowInstall): a task whose install is done after that tears down   *)
(* behind the interpreter's back.                                          *)
(***************************************************************************)
EXTENDS HostLife, FiniteSetTheorems, TLAPS

----------------------------------------------------------------------------
(* The inductive invariant.                                                *)

Closing == {"close", "release", "closeone"}
Freeing == {"freeall", "allfree", "portoff", "settle", "uninstall"}
Teardown == Closing \cup {"drain"} \cup Freeing

\* Where the task may be, by where the interpreter is: start waits for the
\* verdict, a call finds the host up or on its way out after an install that
\* failed, and the teardown goes on while stop waits for it.
TaskOK ==
  /\ handle <=> task # "none"
  /\ task \in {"install", "loop"} => ~tearing
  /\ task \in {"loop"} \cup Teardown => result = "ok"
  /\ task = "install" => vm = "starting" /\ result = "pending"
  /\ task \in Teardown => tearing /\ ~running
  /\ vm = "starting" => /\ running /\ ~wedged
                        /\ \/ task = "install" /\ result = "pending"
                           \/ task = "loop" /\ result = "ok"
                           \/ task \in {"exit", "none"} /\ result = "failed"
  /\ vm = "stopping" => ~running
  /\ vm \in {"closing", "stopping"} => said = "none"

\* A host that is not wedged is where its task handle, its flags and the last
\* verdict say; a wedged one stays so.
UpOK ==
  /\ ~wedged /\ vm \in {"idle", "cycling", "closing"} =>
       \/ task = "loop" /\ running /\ result = "ok"
       \/ task = "exit" /\ ~running /\ result = "failed"
       \/ task = "none" /\ ~running
  /\ ~wedged /\ task \in Teardown => vm = "stopping"
  /\ ~wedged /\ deviceStack => task \in {"none", "exit"}
  /\ wedged => ~running /\ (prompt => late) /\ said \in {"none", "wedged"}
  /\ said = "ok" /\ result = "ok" /\ vm \in {"idle", "cycling"} => handle

\* What the library holds by where the task is.
LibOK ==
  /\ \A d \in opened : lib[d] \in {"ready", "gone"}
  /\ \A d \in Devs : lib[d] = "gone" => d \in opened
  /\ ep0 \subseteq opened /\ used \subseteq opened
  /\ opened # {} => client
  /\ task \in {"loop", "drain"} \cup Closing => client
  /\ task \in Freeing => (client <=> opened # {})
  /\ task \in {"drain"} \cup Freeing => used = {}
  /\ task \in {"settle", "uninstall"} => Held = {}
  /\ task \in {"none", "install", "exit"} /\ ~wedged =>
       ~installed /\ ~client /\ Held = {} /\ ~leaked

\* Claims and abandoned transfers keep a device from being closed, and the
\* record of either is kept.
HeldOK ==
  /\ AbandonedCounted
  /\ opened # used => kept \/ (wedged /\ task # "loop")
  /\ vm = "stopping" /\ claimed # {} => kept
  /\ task = "uninstall" /\ ~wedged => abandoned = 0

\* With a library that keeps within the waits nothing is held back, the root port
\* stays off until what it is off for is over, and the count is exact unless a
\* transfer was abandoned after its callback.
PromptOK ==
  prompt => /\ ~leaked /\ ~kept /\ opened = used
            /\ ~late => ~wedged /\ abandoned = Cardinality(ep0)
            /\ wedged => task \in {"none", "exit"}
            /\ vm = "stopping" => claimed = {}
            /\ task \in {"release", "portoff"} => ~port
            /\ task = "closeone" => ep0 = {}

IInv == TypeOK /\ TaskOK /\ UpOK /\ LibOK /\ HeldOK /\ PromptOK

\* The type invariant, the flags apart.
FlagTypes ==
  /\ port \in BOOLEAN /\ prompt \in BOOLEAN /\ installed \in BOOLEAN /\ client \in BOOLEAN
  /\ leaked \in BOOLEAN /\ handle \in BOOLEAN /\ seen \in BOOLEAN /\ running \in BOOLEAN
  /\ tearing \in BOOLEAN /\ wedged \in BOOLEAN /\ deviceStack \in BOOLEAN /\ kept \in BOOLEAN
  /\ hung \in BOOLEAN /\ late \in BOOLEAN
OtherTypes ==
  /\ plugged \subseteq Devs
  /\ lib \in [Devs -> {"none", "enum", "stuck", "ready", "gone"}]
  /\ opened \subseteq Devs /\ news \subseteq Devs /\ ep0 \subseteq Devs /\ freeing \subseteq Devs
  /\ result \in {"pending", "ok", "failed"}
  /\ task \in {"none", "install", "loop", "close", "release", "closeone", "drain", "freeall",
               "allfree", "portoff", "settle", "uninstall", "exit"}
  /\ cur \in Devs \cup {NoDev}
  /\ used \subseteq Devs /\ abandoned \in Nat
  /\ vm \in {"idle", "starting", "closing", "stopping", "cycling"}
  /\ said \in {"none", "ok", "failed", "wedged"}
  /\ claimed \subseteq Devs
\* The type invariant is its two halves, which the provers take one by one.
LEMMA Types ==
  /\ TypeOK <=> FlagTypes /\ OtherTypes
  /\ TypeOK' <=> FlagTypes' /\ OtherTypes'
BY Zenon DEF TypeOK, FlagTypes, OtherTypes

\* A step that sets no flag but some of these three keeps the flags' types.
LEMMA FlagsStay ==
  ASSUME FlagTypes, leaked' \in BOOLEAN, wedged' \in BOOLEAN, kept' \in BOOLEAN,
         hung' = hung, late' = late,
         port' = port, prompt' = prompt, installed' = installed, client' = client,
         handle' = handle, seen' = seen, running' = running, tearing' = tearing,
         deviceStack' = deviceStack
  PROVE  FlagTypes'
BY Zenon DEF FlagTypes

\* Counting devices.
LEMMA CountType ==
  ASSUME NEW S \in SUBSET Devs
  PROVE  Cardinality(S) \in Nat /\ (Cardinality(S) = 0 <=> S = {})
BY DevsAssumption, FS_Subset, FS_EmptySet, FS_CardinalityType

\* One device fewer.
LEMMA CountLess ==
  ASSUME NEW S \in SUBSET Devs, NEW d \in S
  PROVE  Cardinality(S \ {d}) = Cardinality(S) - 1 /\ Cardinality(S \ {d}) \in Nat
BY DevsAssumption, FS_Subset, FS_RemoveElement, FS_CardinalityType

\* One device more.
LEMMA CountMore ==
  ASSUME NEW S \in SUBSET Devs, NEW d \in Devs, d \notin S
  PROVE  Cardinality(S \cup {d}) = Cardinality(S) + 1
BY DevsAssumption, FS_Subset, FS_AddElement

----------------------------------------------------------------------------
(* The steps.                                                              *)

\* A device comes or goes at the port; nothing has noticed it yet.
LEMMA ReplugKeeps == ASSUME IInv, NEW d \in Devs, Replug(d) PROVE IInv'
<1>1. TypeOK'
  BY DEF IInv, TypeOK, Replug, library, flags, slots, interp, claims
<1>2. TaskOK'
  BY DEF IInv, TaskOK, Replug, library, flags, interp
<1>3. UpOK'
  BY DEF IInv, UpOK, Replug, library, slots, flags, interp
<1>4. LibOK'
  BY DEF IInv, LibOK, Held, Replug, library, slots
<1>5. HeldOK'
  BY DEF IInv, HeldOK, AbandonedCounted, Replug, library, slots, interp, claims
<1>6. PromptOK'
  BY DEF IInv, PromptOK, Replug, library, slots, interp, claims
<1> QED BY <1>1, <1>2, <1>3, <1>4, <1>5, <1>6 DEF IInv

\* The library moves a device on; one our client has open it keeps, gone or not.
LEMMA PumpLibKeeps == ASSUME IInv, NEW d \in Devs, PumpLib(d) PROVE IInv'
<1>1. TypeOK'
  BY DEF IInv, TypeOK, PumpLib, LibSteps, library, bus, flags, slots, interp, claims
<1>2. TaskOK'
  BY DEF IInv, TaskOK, PumpLib, library, flags, interp
<1>3. UpOK'
  BY DEF IInv, UpOK, PumpLib, library, slots, bus, flags, interp
<1>4. LibOK'
  BY DEF IInv, LibOK, PumpLib, LibSteps, PumpsLib, library, slots
<1>5. HeldOK'
  BY DEF IInv, HeldOK, AbandonedCounted, PumpLib, library, slots, interp, claims
<1>6. PromptOK'
  BY DEF IInv, PromptOK, PumpLib, library, bus, slots, interp, claims
<1> QED BY <1>1, <1>2, <1>3, <1>4, <1>5, <1>6 DEF IInv

\* A device opened has its slot in the same callback.
LEMMA OnNewDevKeeps == ASSUME IInv, NEW d \in Devs, OnNewDev(d) PROVE IInv'
<1>1. TypeOK'
  BY DEF IInv, TypeOK, OnNewDev, library, bus, flags, interp, claims
<1>2. TaskOK'
  BY DEF IInv, TaskOK, OnNewDev, library, flags, interp
<1>3. UpOK'
  BY DEF IInv, UpOK, OnNewDev, library, slots, bus, flags, interp
<1>4. LibOK'
  BY DEF IInv, LibOK, TaskOK, Teardown, Closing, OnNewDev, PumpsClient, library
<1>5. HeldOK'
  BY DEF IInv, HeldOK, AbandonedCounted, OnNewDev, library, slots, interp, claims
<1>6. PromptOK'
  BY DEF IInv, PromptOK, OnNewDev, library, slots, bus, interp, claims
<1> QED BY <1>1, <1>2, <1>3, <1>4, <1>5, <1>6 DEF IInv

\* The abandoned transfer and its count go together.
LEMMA CtrlRetiresKeeps == ASSUME IInv, NEW d \in Devs, CtrlRetires(d) PROVE IInv'
<1>c. /\ d \in ep0 /\ ep0' = ep0 \ {d} /\ abandoned' = abandoned - 1 /\ abandoned \in Nat
      /\ UNCHANGED <<prompt, leaked, late>>
  BY DEF CtrlRetires, library, bus, IInv, TypeOK
<1>n. /\ Cardinality(ep0') = Cardinality(ep0) - 1 /\ Cardinality(ep0) \in Nat
      /\ Cardinality(ep0') \in Nat
  <2> PICK S \in SUBSET Devs : S = ep0
    BY DEF IInv, TypeOK
  <2>1. Cardinality(S \ {d}) = Cardinality(S) - 1 /\ Cardinality(S) \in Nat
    BY <1>c, CountLess, CountType, Zenon
  <2>2. Cardinality(S \ {d}) \in Nat
    BY <1>c, CountLess, Zenon
  <2> QED BY <1>c, <2>1, <2>2
<1>a. /\ abandoned' \in Nat /\ AbandonedCounted'
      /\ (prompt /\ ~late' => abandoned' = Cardinality(ep0'))
  <2>1. abandoned' \in Nat /\ AbandonedCounted'
    BY <1>c, <1>n DEF IInv, HeldOK, AbandonedCounted
  <2>2. prompt /\ ~late => abandoned = Cardinality(ep0)
    BY DEF IInv, PromptOK
  <2> QED BY <1>c, <1>n, <2>1, <2>2
<1>1. TypeOK'
  BY <1>a DEF IInv, TypeOK, CtrlRetires, library, bus, flags, interp, claims
<1>2. TaskOK'
  BY DEF IInv, TaskOK, CtrlRetires, library, flags, interp
<1>3. UpOK'
  BY DEF IInv, UpOK, CtrlRetires, library, slots, bus, flags, interp
<1>4. LibOK'
  BY DEF IInv, LibOK, CtrlRetires, PumpsClient, library
<1>5. HeldOK'
  BY <1>a DEF IInv, HeldOK, CtrlRetires, library, slots, interp, claims
<1>6. PromptOK'
  BY <1>a DEF IInv, PromptOK, CtrlRetires, library, slots, bus, interp, claims
<1> QED BY <1>1, <1>2, <1>3, <1>4, <1>5, <1>6 DEF IInv

\* The device is closed with its slot, unless the library keeps a claim of it.
LEMMA OnDevGoneKeeps == ASSUME IInv, NEW d \in Devs, OnDevGone(d) PROVE IInv'
<1>1. TypeOK'
  <2>1. FlagTypes'
    <3>1. /\ port' = port /\ prompt' = prompt /\ installed' = installed /\ client' = client
          /\ handle' = handle /\ seen' = seen /\ running' = running /\ tearing' = tearing
          /\ deviceStack' = deviceStack /\ leaked' = leaked /\ wedged' = wedged
          /\ hung' = hung /\ late' = late
      BY DEF OnDevGone, library, slots, bus, flags, interp
    <3>2. kept' = TRUE \/ kept' = kept
      BY DEF OnDevGone
    <3> QED BY <3>1, <3>2, FlagsStay, Types, Zenon DEF IInv, FlagTypes
  <2>2. OtherTypes'
    BY Types DEF IInv, OtherTypes, OnDevGone, library, bus, flags, interp
  <2> QED BY <2>1, <2>2, Types
<1>2. TaskOK'
  BY DEF IInv, TaskOK, OnDevGone, library, flags, interp
<1>3. UpOK'
  BY DEF IInv, UpOK, OnDevGone, library, slots, bus, flags, interp
<1>4. LibOK'
  BY DEF IInv, LibOK, TypeOK, OnDevGone, PumpsClient, library
<1>5. HeldOK'
  BY DEF IInv, HeldOK, AbandonedCounted, OnDevGone, library, slots, interp
<1>6. PromptOK'
  BY DEF IInv, PromptOK, OnDevGone, library, slots, bus, interp
<1> QED BY <1>1, <1>2, <1>3, <1>4, <1>5, <1>6 DEF IInv

\* The loop begins with a client, and with nothing held.
LEMMA InstallOkKeeps == ASSUME IInv, InstallOk PROVE IInv'
<1>1. TypeOK'
  BY DEF IInv, TypeOK, InstallOk, library, slots, interp, claims, Go
<1>2. TaskOK'
  BY DEF IInv, TaskOK, Teardown, Closing, Freeing, InstallOk, library, interp, At, Go
<1>3. UpOK'
  BY DEF IInv, UpOK, Teardown, Closing, Freeing, InstallOk, library, slots, interp, At, Go
<1>4. LibOK'
  BY DEF IInv, LibOK, Freeing, InstallOk, library, slots, Go
<1>5. HeldOK'
  BY DEF IInv, HeldOK, TaskOK, AbandonedCounted, InstallOk, library, slots, interp, claims,
     At, Go
<1>6. PromptOK'
  BY DEF UpOK, TaskOK, At, IInv, PromptOK, InstallOk, library, slots, interp, claims, Go
<1> QED BY <1>1, <1>2, <1>3, <1>4, <1>5, <1>6 DEF IInv

\* A failed install leaves nothing installed.
LEMMA InstallFailsKeeps == ASSUME IInv, InstallFails PROVE IInv'
<1>1. TypeOK'
  BY DEF IInv, TypeOK, InstallFails, library, bus, slots, interp, claims, Go
<1>2. TaskOK'
  BY DEF IInv, TaskOK, Teardown, Closing, Freeing, InstallFails, library, interp, At, Go
<1>3. UpOK'
  BY DEF IInv, UpOK, Teardown, Closing, Freeing, InstallFails, library, slots, bus, interp, At, Go
<1>4. LibOK'
  BY DEF IInv, LibOK, Held, Closing, Freeing, InstallFails, library, slots, At, Go
<1>5. HeldOK'
  BY DEF IInv, HeldOK, AbandonedCounted, InstallFails, library, slots, interp, claims, Go
<1>6. PromptOK'
  BY DEF IInv, PromptOK, InstallFails, library, bus, slots, interp, claims, Go
<1> QED BY <1>1, <1>2, <1>3, <1>4, <1>5, <1>6 DEF IInv

\* The handle goes when the task does.
LEMMA ExitKeeps == ASSUME IInv, Exit PROVE IInv'
<1>1. TypeOK'
  <2>1. FlagTypes'
    BY Types, Zenon DEF IInv, FlagTypes, Exit, library, slots, bus, flags, interp, claims
  <2>2. OtherTypes'
    BY Types DEF IInv, OtherTypes, Exit, library, bus, flags, slots, interp, claims, Go
  <2> QED BY <2>1, <2>2, Types
<1>2. TaskOK'
  BY DEF IInv, TaskOK, Teardown, Closing, Freeing, Exit, library, flags, interp, At, Go
<1>3. UpOK'
  BY DEF IInv, UpOK, Teardown, Closing, Freeing, Exit, library, slots, bus, flags, interp, At, Go
<1>4. LibOK'
  BY DEF IInv, LibOK, Held, Closing, Freeing, Exit, library, slots, At, Go
<1>5. HeldOK'
  BY DEF IInv, HeldOK, AbandonedCounted, Exit, library, slots, interp, claims, Go
<1>6. PromptOK'
  BY DEF IInv, PromptOK, Exit, library, bus, slots, interp, claims, Go
<1> QED BY <1>1, <1>2, <1>3, <1>4, <1>5, <1>6 DEF IInv

\* The loop ends for host_stop alone: a start that gave up had no loop to end.
LEMMA LoopEndsKeeps == ASSUME IInv, LoopEnds PROVE IInv'
<1>1. TypeOK'
  BY DEF IInv, TypeOK, LoopEnds, library, bus, slots, interp, claims, Go
<1>2. TaskOK'
  BY DEF IInv, TaskOK, LoopEnds, library, interp, At, Go
<1>3. UpOK'
  BY DEF IInv, UpOK, TypeOK, TaskOK, LoopEnds, library, slots, bus, interp, At
<1>4. LibOK'
  BY DEF IInv, LibOK, Freeing, LoopEnds, library, slots, At, Go
<1>5. HeldOK'
  BY DEF IInv, HeldOK, AbandonedCounted, LoopEnds, library, slots, interp, claims, Go
<1>6. PromptOK'
  BY DEF UpOK, TaskOK, At, IInv, PromptOK, LoopEnds, library, bus, slots, interp, claims, Go
<1> QED BY <1>1, <1>2, <1>3, <1>4, <1>5, <1>6 DEF IInv

\* With no transfer abandoned the device is closed as it is; with one, the port goes off.
LEMMA CloseNextKeeps == ASSUME IInv, NEW d \in Devs, CloseNext(d) PROVE IInv'
<1>a. abandoned = 0 => ep0 = {}
  BY CountType DEF IInv, HeldOK, AbandonedCounted, TypeOK
<1>1. TypeOK'
  <2>1. FlagTypes'
    BY Types, Zenon DEF IInv, FlagTypes, CloseNext, library, slots, flags, interp, claims
  <2>2. OtherTypes'
    BY Types DEF IInv, OtherTypes, CloseNext, library, flags, slots, interp, claims, Go
  <2> QED BY <2>1, <2>2, Types
<1>2. TaskOK'
  BY DEF IInv, TaskOK, Teardown, Closing, CloseNext, library, flags, interp, At, Go
<1>3. UpOK'
  BY DEF IInv, UpOK, Teardown, Closing, CloseNext, library, slots, flags, interp, At
<1>4. LibOK'
  BY DEF IInv, LibOK, Freeing, CloseNext, library, slots, Go
<1>5. HeldOK'
  BY DEF IInv, HeldOK, AbandonedCounted, CloseNext, library, slots, interp, claims, Go
<1>6. PromptOK'
  BY <1>a DEF At, IInv, PromptOK, TypeOK, CloseNext, library, slots, interp, claims, Go
<1> QED BY <1>1, <1>2, <1>3, <1>4, <1>5, <1>6 DEF IInv

\* The wait with the port off: every device is gone by then, and its transfers with it.
LEMMA ReleaseEndsKeeps == ASSUME IInv, ReleaseEnds PROVE IInv'
<1>1. TypeOK'
  BY DEF IInv, TypeOK, ReleaseEnds, library, bus, flags, slots, interp, claims, Go
<1>2. TaskOK'
  BY DEF IInv, TaskOK, Teardown, Closing, ReleaseEnds, library, flags, interp, At, Go
<1>3. UpOK'
  BY DEF IInv, UpOK, Teardown, Closing, ReleaseEnds, library, slots, bus, flags, interp, At
<1>4. LibOK'
  BY DEF IInv, LibOK, Closing, Freeing, ReleaseEnds, library, slots, At, Go
<1>5. HeldOK'
  BY DEF IInv, HeldOK, AbandonedCounted, ReleaseEnds, library, slots, interp, claims, Go
<1>6. PromptOK'
  BY DEF IInv, PromptOK, TypeOK, LibOK, HeldOK, ReleaseEnds, RunsOut, LibPending, LibSteps,
     ClientPending, PumpsClient, library, bus, slots, interp, claims, At
<1> QED BY <1>1, <1>2, <1>3, <1>4, <1>5, <1>6 DEF IInv

\* A device closed over its transfer leaks the pipe: the count says one more than ep0.
LEMMA CloseOneKeeps == ASSUME IInv, CloseOne PROVE IInv'
<1>1. TypeOK'
  <2>1. FlagTypes'
    <3>1. /\ port' = port /\ prompt' = prompt /\ installed' = installed /\ client' = client
          /\ handle' = handle /\ seen' = seen /\ running' = running /\ tearing' = tearing
          /\ deviceStack' = deviceStack /\ wedged' = wedged /\ kept' = kept
          /\ hung' = hung /\ late' = late
      BY DEF CloseOne, bus, flags, interp, claims
    <3>2. leaked' = leaked \/ leaked' = (leaked \/ cur \in ep0)
      BY DEF CloseOne, Closes
    <3> QED BY <3>1, <3>2, FlagsStay, Types, Zenon DEF IInv, FlagTypes
  <2>2. OtherTypes'
    BY Types DEF IInv, OtherTypes, CloseOne, Closes, library, bus, flags, interp, claims, Go
  <2> QED BY <2>1, <2>2, Types
<1>2. TaskOK'
  BY DEF IInv, TaskOK, Teardown, Closing, CloseOne, library, flags, interp, At, Go
<1>3. UpOK'
  BY DEF IInv, UpOK, Teardown, Closing, CloseOne, library, slots, bus, flags, interp, At
<1>4. LibOK'
  BY DEF IInv, LibOK, TypeOK, Closing, Freeing, CloseOne, Closes, library, At, Go
<1>a. AbandonedCounted'
  <2>1. CASE UNCHANGED <<ep0, leaked>>
    BY <2>1 DEF CloseOne, IInv, HeldOK, AbandonedCounted
  <2>2. CASE cur \notin ep0 /\ ep0' = ep0 \ {cur} /\ leaked' = (leaked \/ cur \in ep0)
    <3>1. ep0' = ep0
      BY <2>2
    <3>2. leaked' <=> leaked
      BY <2>2, Zenon
    <3> QED BY <3>1, <3>2 DEF CloseOne, IInv, HeldOK, AbandonedCounted
  <2>3. CASE cur \in ep0 /\ ep0' = ep0 \ {cur}
    <3>1. Cardinality(ep0') = Cardinality(ep0) - 1 /\ Cardinality(ep0) \in Nat
      <4> PICK S \in SUBSET Devs, c \in {cur} : S = ep0
        BY DEF IInv, TypeOK
      <4>1. Cardinality(S \ {c}) = Cardinality(S) - 1 /\ Cardinality(S) \in Nat
        BY <2>3, CountLess, CountType, Zenon
      <4> QED BY <2>3, <4>1
    <3>2. abandoned' = abandoned /\ abandoned \in Nat
      BY DEF CloseOne, IInv, TypeOK
    <3> QED BY <3>1, <3>2 DEF IInv, HeldOK, AbandonedCounted
  <2> QED BY <2>1, <2>2, <2>3, Zenon DEF CloseOne, Closes
<1>5. HeldOK'
  BY <1>a DEF IInv, HeldOK, UpOK, Teardown, Closing, CloseOne, Closes, library, slots, interp,
     claims, At, Go
<1>6. PromptOK'
  <2>1. prompt => ep0' = ep0 /\ (leaked' <=> leaked)
    <3>1. prompt => ep0 = {}
      BY DEF IInv, PromptOK, CloseOne, At
    <3>2. ep0 = {} => ep0' = {} /\ (leaked' <=> leaked)
      BY DEF CloseOne, Closes
    <3> QED BY <3>1, <3>2
  <2>2. prompt => opened' = used'
    BY DEF IInv, PromptOK, UpOK, Teardown, Closing, CloseOne, Closes, At
  <2> QED BY <2>1, <2>2 DEF IInv, PromptOK, CloseOne, library, slots, bus, interp, claims, At, Go
<1> QED BY <1>1, <1>2, <1>3, <1>4, <1>5, <1>6 DEF IInv

\* The close loop ends with no slot in use.
LEMMA CloseEndsKeeps == ASSUME IInv, CloseEnds PROVE IInv'
<1>1. TypeOK'
  BY DEF IInv, TypeOK, CloseEnds, library, bus, flags, slots, interp, claims, Go
<1>2. TaskOK'
  BY DEF IInv, TaskOK, Teardown, Closing, CloseEnds, library, flags, interp, At, Go
<1>3. UpOK'
  BY DEF IInv, UpOK, Teardown, Closing, CloseEnds, library, slots, bus, flags, interp, At
<1>4. LibOK'
  BY DEF IInv, LibOK, Closing, Freeing, CloseEnds, library, slots, At, Go
<1>5. HeldOK'
  BY DEF IInv, HeldOK, AbandonedCounted, CloseEnds, library, slots, interp, claims, Go
<1>6. PromptOK'
  BY DEF At, IInv, PromptOK, CloseEnds, library, bus, slots, interp, claims, Go
<1> QED BY <1>1, <1>2, <1>3, <1>4, <1>5, <1>6 DEF IInv

\* The client stays registered exactly while it has a device open.
LEMMA DrainEndsKeeps == ASSUME IInv, DrainEnds PROVE IInv'
<1>1. TypeOK'
  BY DEF IInv, TypeOK, DrainEnds, library, bus, flags, slots, interp, claims, Go
<1>2. TaskOK'
  BY DEF IInv, TaskOK, Teardown, DrainEnds, library, flags, interp, At, Go
<1>3. UpOK'
  BY DEF IInv, UpOK, Teardown, DrainEnds, library, slots, bus, flags, interp, At
<1>4. LibOK'
  BY DEF IInv, LibOK, TypeOK, HeldOK, PromptOK, Closing, DrainEnds, library, slots, At, Go
<1>5. HeldOK'
  BY DEF IInv, HeldOK, AbandonedCounted, DrainEnds, library, slots, interp, claims, Go
<1>6. PromptOK'
  BY DEF At, IInv, PromptOK, DrainEnds, library, bus, slots, interp, claims, Go
<1> QED BY <1>1, <1>2, <1>3, <1>4, <1>5, <1>6 DEF IInv

\* What the library holds is asked to be freed.
LEMMA FreeAllKeeps == ASSUME IInv, FreeAll PROVE IInv'
<1>1. TypeOK'
  <2>1. FlagTypes'
    BY Types, Zenon DEF IInv, FlagTypes, FreeAll, library, slots, bus, flags, interp, claims
  <2>2. OtherTypes'
    BY Types DEF IInv, OtherTypes, Held, FreeAll, library, bus, flags, slots, interp,
       claims, Go
  <2> QED BY <2>1, <2>2, Types
<1>2. TaskOK'
  BY DEF IInv, TaskOK, Teardown, Freeing, FreeAll, library, flags, interp, At, Go
<1>3. UpOK'
  BY DEF IInv, UpOK, Teardown, Freeing, FreeAll, library, slots, bus, flags, interp, At
<1>4. LibOK'
  BY DEF IInv, LibOK, Closing, Freeing, FreeAll, library, slots, At, Go
<1>5. HeldOK'
  BY DEF IInv, HeldOK, AbandonedCounted, FreeAll, library, slots, interp, claims, Go
<1>6. PromptOK'
  BY DEF At, IInv, PromptOK, FreeAll, library, bus, slots, interp, claims, Go
<1> QED BY <1>1, <1>2, <1>3, <1>4, <1>5, <1>6 DEF IInv

\* The wait is over early only with nothing held.
LEMMA AllFreeEndsKeeps == ASSUME IInv, AllFreeEnds PROVE IInv'
<1>1. TypeOK'
  <2>1. FlagTypes'
    BY Types, Zenon DEF IInv, FlagTypes, AllFreeEnds, library, slots, flags, interp, claims
  <2>2. OtherTypes'
    BY Types DEF IInv, OtherTypes, AllFreeEnds, library, bus, flags, slots, interp, claims,
       At, Go
  <2> QED BY <2>1, <2>2, Types
<1>2. TaskOK'
  BY DEF IInv, TaskOK, TypeOK, Teardown, Closing, Freeing, AllFreeEnds, library, bus, flags,
     slots, interp, claims, At, Go
<1>3. UpOK'
  BY DEF IInv, UpOK, Teardown, Freeing, AllFreeEnds, library, slots, flags, interp, At
<1>4. LibOK'
  BY DEF IInv, LibOK, TypeOK, TaskOK, UpOK, HeldOK, PromptOK, Held, AbandonedCounted,
     Teardown, Closing, Freeing, AllFreeEnds, library, bus, flags, slots, interp, claims,
     At, Go
<1>5. HeldOK'
  BY DEF IInv, HeldOK, TypeOK, TaskOK, UpOK, LibOK, AbandonedCounted, Teardown, Closing,
     Freeing, AllFreeEnds, library, bus, flags, slots, interp, claims, At, Go
<1>6. PromptOK'
  BY DEF IInv, PromptOK, TypeOK, TaskOK, UpOK, LibOK, HeldOK, Held, Teardown, Closing,
     Freeing, AllFreeEnds, library, bus, flags, slots, interp, claims, At, Go
<1> QED BY <1>1, <1>2, <1>3, <1>4, <1>5, <1>6 DEF IInv

\* With the port off a library that keeps its word lets every device go.
LEMMA PortOffEndsKeeps == ASSUME IInv, PortOffEnds PROVE IInv'
<1>1. TypeOK'
  <2>1. FlagTypes'
    <3>1. /\ port' = port /\ prompt' = prompt /\ installed' = installed /\ client' = client
          /\ handle' = handle /\ seen' = seen /\ running' = running /\ tearing' = tearing
          /\ deviceStack' = deviceStack /\ leaked' = leaked /\ kept' = kept
          /\ hung' = hung /\ late' = late
      BY DEF PortOffEnds, library, slots, bus, flags, interp, claims
    <3>2. wedged' = TRUE \/ wedged' = wedged
      BY DEF PortOffEnds, Wedge
    <3> QED BY <3>1, <3>2, FlagsStay, Types, Zenon DEF IInv, FlagTypes
  <2>2. OtherTypes'
    BY Types DEF IInv, OtherTypes, PortOffEnds, Wedge, library, bus, flags, slots, interp,
       claims, Go
  <2> QED BY <2>1, <2>2, Types
<1>2. TaskOK'
  BY DEF IInv, TaskOK, Teardown, Freeing, PortOffEnds, Wedge, library, flags, interp, At, Go
<1>a. prompt => ~port /\ Held = {}
  <2> SUFFICES ASSUME prompt PROVE ~port /\ Held = {}
    OBVIOUS
  <2>1. ~port /\ opened = {}
    BY DEF PortOffEnds, At, IInv, PromptOK, HeldOK, LibOK, Freeing
  <2>2. CASE ~LibPending
    <3>1. \A d \in Devs : LibSteps(d) = {}
      BY <2>2 DEF LibPending
    <3>2. \A d \in Devs : lib[d] \in {"enum", "stuck", "ready"} => "none" \in LibSteps(d)
      BY <2>1 DEF LibSteps
    <3> QED BY <2>1, <3>1, <3>2 DEF Held, IInv, TypeOK, LibOK
  <2> QED BY <2>1, <2>2 DEF PortOffEnds, RunsOut
<1>3. UpOK'
  BY <1>a DEF IInv, UpOK, TaskOK, Teardown, Freeing, PortOffEnds, Wedge, library, slots, bus,
     flags, interp, At
<1>4. LibOK'
  BY DEF IInv, LibOK, Held, Closing, Freeing, PortOffEnds, Wedge, library, slots, At, Go
<1>5. HeldOK'
  BY DEF IInv, HeldOK, AbandonedCounted, PortOffEnds, Wedge, library, slots, interp, claims,
     Go
<1>6. PromptOK'
  BY DEF IInv, PromptOK, TypeOK, LibOK, HeldOK, Held, Freeing, PortOffEnds, RunsOut,
     LibPending, LibSteps, library, bus, slots, interp, claims, At
<1> QED BY <1>1, <1>2, <1>3, <1>4, <1>5, <1>6 DEF IInv

\* The count of abandoned transfers is zero where the uninstall is tried.
LEMMA SettleKeeps == ASSUME IInv, Settle PROVE IInv'
<1>1. TypeOK'
  <2>1. FlagTypes'
    <3>1. /\ port' = port /\ prompt' = prompt /\ installed' = installed /\ client' = client
          /\ handle' = handle /\ seen' = seen /\ running' = running /\ tearing' = tearing
          /\ deviceStack' = deviceStack /\ leaked' = leaked /\ kept' = kept
          /\ hung' = hung /\ late' = late
      BY DEF Settle, library, slots, bus, flags, interp, claims
    <3>2. wedged' = TRUE \/ wedged' = wedged
      BY DEF Settle, Wedge
    <3> QED BY <3>1, <3>2, FlagsStay, Types, Zenon DEF IInv, FlagTypes
  <2>2. OtherTypes'
    BY Types DEF IInv, OtherTypes, Settle, Wedge, library, bus, flags, slots, interp,
       claims, Go
  <2> QED BY <2>1, <2>2, Types
<1>2. TaskOK'
  BY DEF IInv, TaskOK, Teardown, Freeing, Settle, Wedge, library, flags, interp, At, Go
<1>a. prompt /\ ~late => abandoned = 0
  BY CountType DEF Settle, At, IInv, PromptOK, LibOK, Held, TypeOK
<1>3. UpOK'
  BY <1>a DEF IInv, UpOK, TaskOK, Teardown, Freeing, Settle, Wedge, library, slots, bus, flags,
     interp, At
<1>4. LibOK'
  BY DEF IInv, LibOK, Held, Closing, Freeing, Settle, Wedge, library, slots, At, Go
<1>5. HeldOK'
  BY DEF IInv, HeldOK, TypeOK, AbandonedCounted, Settle, Wedge, library, slots, interp,
     claims, Go
<1>6. PromptOK'
  BY <1>a DEF Wedge, Go, At, UpOK, IInv, PromptOK, Settle, library, bus, slots, interp, claims, Go
<1> QED BY <1>1, <1>2, <1>3, <1>4, <1>5, <1>6 DEF IInv

\* A host uninstalled with something held is a host with a leak, and that is wedged.
LEMMA UninstallKeeps == ASSUME IInv, Uninstall PROVE IInv'
<1>1. TypeOK'
  <2>1. FlagTypes'
    BY Types, Zenon DEF IInv, FlagTypes, Uninstall, Wedge, library, slots, flags, interp, claims
  <2>2. OtherTypes'
    BY Types DEF IInv, OtherTypes, Uninstall, Wedge, library, flags, slots, interp, claims,
       Go
  <2> QED BY <2>1, <2>2, Types
<1>2. TaskOK'
  BY DEF IInv, TaskOK, Teardown, Freeing, Uninstall, Wedge, library, flags, interp, At, Go
<1>a. prompt => ~client
  <2>1. prompt => opened = {}
    BY DEF Uninstall, At, IInv, PromptOK, HeldOK, LibOK, Freeing
  <2> QED BY <2>1 DEF Uninstall, At, IInv, LibOK, Freeing
<1>b. ~wedged => ~leaked
  <2>1. Cardinality(ep0) \in Nat
    BY CountType, Zenon DEF IInv, TypeOK
  <2>2. ~wedged => abandoned = 0
    BY DEF Uninstall, At, IInv, HeldOK
  <2> QED BY <2>1, <2>2 DEF IInv, HeldOK, AbandonedCounted
<1>3. UpOK'
  BY <1>a DEF IInv, UpOK, TaskOK, Teardown, Freeing, Uninstall, Wedge, library, slots, flags,
     interp, At
<1>4. LibOK'
  BY <1>a, <1>b DEF IInv, LibOK, TypeOK, Held, Closing, Freeing, Uninstall, Wedge, library,
     slots, At, Go
<1>5. HeldOK'
  BY DEF IInv, HeldOK, AbandonedCounted, Uninstall, Wedge, library, slots, interp, claims,
     Go
<1>6. PromptOK'
  BY DEF IInv, PromptOK, LibOK, HeldOK, Freeing, Uninstall, library, slots, interp, claims,
     At
<1> QED BY <1>1, <1>2, <1>3, <1>4, <1>5, <1>6 DEF IInv

\* A call that never returns holds the task where it is.
LEMMA HangsKeeps == ASSUME IInv, Hangs PROVE IInv'
<1>1. TypeOK'
  <2>1. FlagTypes'
    BY Types, Zenon DEF IInv, FlagTypes, Hangs, library, bus, flags, slots, interp, claims
  <2>2. OtherTypes'
    BY Types DEF IInv, OtherTypes, Hangs, library, bus, flags, slots, interp, claims
  <2> QED BY <2>1, <2>2, Types
<1>2. TaskOK' /\ UpOK'
  BY DEF IInv, TaskOK, UpOK, Hangs, library, bus, flags, slots, interp
<1>3. LibOK' /\ HeldOK' /\ PromptOK'
  BY DEF IInv, LibOK, Held, HeldOK, AbandonedCounted, PromptOK, Hangs, library, bus, slots,
     interp, claims
<1> QED BY <1>1, <1>2, <1>3 DEF IInv

\* A start begins from a host that is neither wedged nor handled.
LEMMA HostStartKeeps == ASSUME IInv, HostStart PROVE IInv'
<1>1. TypeOK'
  <2>1. FlagTypes'
    BY Types, Zenon DEF IInv, FlagTypes, HostStart, library, slots, bus, claims
  <2>2. OtherTypes'
    BY Types DEF IInv, OtherTypes, HostStart, library, bus, slots, claims, Go
  <2> QED BY <2>1, <2>2, Types
<1>2. TaskOK'
  BY DEF IInv, TaskOK, Teardown, Closing, Freeing, HostStart, library, Go
<1>3. UpOK'
  BY DEF IInv, UpOK, TaskOK, Teardown, Closing, Freeing, HostStart, library, slots, Go
<1>4. LibOK'
  BY DEF IInv, LibOK, TaskOK, Held, Closing, HostStart, library, slots, Go
<1>5. HeldOK'
  BY DEF IInv, HeldOK, AbandonedCounted, HostStart, library, slots, claims, Go
<1>6. PromptOK'
  BY DEF IInv, PromptOK, HostStart, library, bus, slots, claims, Go
<1> QED BY <1>1, <1>2, <1>3, <1>4, <1>5, <1>6 DEF IInv

\* A start that returns at once says what the handle and the wedge say.
LEMMA HostStartAtOnceKeeps == ASSUME IInv, HostStartAtOnce PROVE IInv'
<1>1. TypeOK'
  BY DEF IInv, TypeOK, HostStartAtOnce, library, bus, flags, slots, claims
<1>2. TaskOK'
  BY DEF IInv, TaskOK, HostStartAtOnce, library, flags
<1>3. UpOK'
  BY DEF IInv, UpOK, HostStartAtOnce, library, slots, bus, flags
<1>4. LibOK'
  BY DEF IInv, LibOK, Held, HostStartAtOnce, library, slots
<1>5. HeldOK'
  BY DEF IInv, HeldOK, AbandonedCounted, HostStartAtOnce, library, slots, claims
<1>6. PromptOK'
  BY DEF IInv, PromptOK, HostStartAtOnce, library, bus, slots, claims
<1> QED BY <1>1, <1>2, <1>3, <1>4, <1>5, <1>6 DEF IInv

\* The verdict was good and the loop has begun.
LEMMA StartOkKeeps == ASSUME IInv, StartOk PROVE IInv'
<1>1. TypeOK'
  BY DEF IInv, TypeOK, StartOk, library, bus, flags, slots, claims
<1>2. TaskOK'
  BY DEF IInv, TaskOK, StartOk, library, flags
<1>3. UpOK'
  BY DEF IInv, UpOK, TaskOK, StartOk, library, slots, flags
<1>4. LibOK'
  BY DEF IInv, LibOK, Held, StartOk, library, slots
<1>5. HeldOK'
  BY DEF IInv, HeldOK, AbandonedCounted, StartOk, library, slots, claims
<1>6. PromptOK'
  BY DEF IInv, PromptOK, StartOk, library, bus, slots, claims
<1> QED BY <1>1, <1>2, <1>3, <1>4, <1>5, <1>6 DEF IInv

\* The verdict was bad, so the task is on its way out.
LEMMA StartGivesUpKeeps == ASSUME IInv, ~SlowInstall, StartGivesUp PROVE IInv'
<1>1. TypeOK'
  <2>1. FlagTypes'
    BY Types, Zenon DEF IInv, FlagTypes, StartGivesUp, library, slots, bus, claims
  <2>2. OtherTypes'
    BY Types DEF IInv, OtherTypes, StartGivesUp, library, bus, slots, claims
  <2> QED BY <2>1, <2>2, Types
<1>2. TaskOK'
  BY DEF IInv, TaskOK, StartGivesUp, library
<1>3. UpOK'
  BY DEF IInv, UpOK, TaskOK, StartGivesUp, library, slots
<1>4. LibOK'
  BY DEF IInv, LibOK, Held, StartGivesUp, library, slots
<1>5. HeldOK'
  BY DEF IInv, HeldOK, AbandonedCounted, StartGivesUp, library, slots, claims
<1>6. PromptOK'
  BY DEF IInv, PromptOK, StartGivesUp, library, bus, slots, claims
<1> QED BY <1>1, <1>2, <1>3, <1>4, <1>5, <1>6 DEF IInv

\* A stop of a host that is up begins; any other changes nothing.
LEMMA HostStopKeeps == ASSUME IInv, HostStop PROVE IInv'
<1>1. TypeOK'
  BY DEF IInv, TypeOK, HostStop, library, bus, flags, slots, claims
<1>2. TaskOK'
  BY DEF IInv, TaskOK, HostStop, library, flags
<1>3. UpOK'
  BY DEF IInv, UpOK, HostStop, library, slots, bus, flags
<1>4. LibOK'
  BY DEF IInv, LibOK, Held, HostStop, library, slots
<1>5. HeldOK'
  BY DEF IInv, HeldOK, AbandonedCounted, HostStop, library, slots, claims
<1>6. PromptOK'
  BY DEF IInv, PromptOK, HostStop, library, bus, slots, claims
<1> QED BY <1>1, <1>2, <1>3, <1>4, <1>5, <1>6 DEF IInv

\* A claim the library refuses to release is recorded as kept.
LEMMA StopClosesKeeps == ASSUME IInv, StopCloses PROVE IInv'
<1>1. TypeOK'
  <2>1. FlagTypes'
    BY Types, Zenon DEF IInv, FlagTypes, StopCloses, library, slots, bus
  <2>2. OtherTypes'
    BY Types DEF IInv, OtherTypes, StopCloses, library, bus, slots
  <2> QED BY <2>1, <2>2, Types
<1>2. TaskOK'
  BY DEF IInv, TaskOK, StopCloses, library
<1>3. UpOK'
  BY DEF IInv, UpOK, StopCloses, library, slots, bus
<1>4. LibOK'
  BY DEF IInv, LibOK, Held, StopCloses, library, slots
<1>5. HeldOK'
  BY DEF IInv, HeldOK, TypeOK, TaskOK, UpOK, LibOK, AbandonedCounted, Teardown, Closing,
     Freeing, StopCloses, library, bus, flags, slots, interp, claims, At, Go
<1>6. PromptOK'
  BY DEF IInv, PromptOK, TypeOK, StopCloses, library, bus, slots
<1> QED BY <1>1, <1>2, <1>3, <1>4, <1>5, <1>6 DEF IInv

\* A stop that gave up on the task leaves the host wedged.
LEMMA StopReturnsKeeps == ASSUME IInv, StopReturns PROVE IInv'
<1>1. TypeOK'
  BY DEF IInv, TypeOK, StopReturns, library, bus, flags, slots, claims
<1>2. TaskOK'
  BY DEF IInv, TaskOK, StopReturns, library, flags
<1>3. UpOK'
  BY DEF IInv, UpOK, TypeOK, TaskOK, Teardown, Closing, Freeing, StopReturns, library, slots, bus,
     flags
<1>4. LibOK'
  BY DEF IInv, LibOK, TypeOK, Held, StopReturns, library, slots
<1>5. HeldOK'
  BY DEF IInv, HeldOK, TypeOK, AbandonedCounted, StopReturns, library, slots, claims
<1>6. PromptOK'
  BY DEF IInv, PromptOK, TypeOK, StopReturns, library, bus, slots, claims
<1> QED BY <1>1, <1>2, <1>3, <1>4, <1>5, <1>6 DEF IInv

\* An interface is claimed or released on an open device.
LEMMA ClaimKeeps == ASSUME IInv, NEW d \in Devs, Claim(d) PROVE IInv'
<1>1. TypeOK'
  BY DEF IInv, TypeOK, Calls, Claim, library, bus, flags, slots, interp
<1>2. TaskOK'
  BY DEF IInv, TaskOK, Calls, Claim, library, flags, interp
<1>3. UpOK'
  BY DEF IInv, UpOK, Calls, Claim, library, slots, bus, flags, interp
<1>4. LibOK'
  BY DEF IInv, LibOK, Freeing, Calls, Claim, library, slots
<1>5. HeldOK'
  BY DEF IInv, HeldOK, AbandonedCounted, Calls, Claim, library, slots, interp
<1>6. PromptOK'
  BY DEF IInv, PromptOK, Calls, Claim, library, bus, slots, interp
<1> QED BY <1>1, <1>2, <1>3, <1>4, <1>5, <1>6 DEF IInv

\* A transfer given up on is counted.
LEMMA GiveUpKeeps == ASSUME IInv, NEW d \in Devs, GiveUp(d) PROVE IInv'
<1>c. /\ d \notin ep0 /\ abandoned' = abandoned + 1 /\ abandoned \in Nat
      /\ UNCHANGED <<prompt, leaked>>
      /\ (ep0' = ep0 \cup {d} /\ late' = late) \/ (ep0' = ep0 /\ late' = TRUE)
  BY DEF GiveUp, library, bus, IInv, TypeOK
<1>n. /\ Cardinality(ep0) \in Nat
      /\ ep0' = ep0 \cup {d} => Cardinality(ep0') = Cardinality(ep0) + 1
  <2> PICK S \in SUBSET Devs : S = ep0
    BY DEF IInv, TypeOK
  <2>1. Cardinality(S \cup {d}) = Cardinality(S) + 1 /\ Cardinality(S) \in Nat
    BY <1>c, CountMore, CountType, Zenon
  <2> QED BY <1>c, <2>1
<1>a. AbandonedCounted' /\ (prompt /\ ~late' => abandoned' = Cardinality(ep0'))
  BY <1>c, <1>n DEF IInv, HeldOK, PromptOK, AbandonedCounted
<1>1. TypeOK'
  <2>1. FlagTypes'
    <3>1. /\ UNCHANGED <<port, prompt, installed, client, leaked, handle, seen, running>>
          /\ UNCHANGED <<tearing, wedged, deviceStack, kept, hung>>
      BY DEF GiveUp, bus, flags, interp, claims
    <3>2. late' = late \/ late' = TRUE
      BY DEF GiveUp
    <3>3. FlagTypes
      BY Types DEF IInv
    <3>4. late' \in BOOLEAN
      BY <3>2, <3>3 DEF FlagTypes
    <3> QED BY <3>1, <3>3, <3>4, Zenon DEF FlagTypes
  <2>2. OtherTypes'
    BY <1>c, Types DEF IInv, OtherTypes, GiveUp, bus, flags, interp, claims
  <2> QED BY <2>1, <2>2, Types
<1>2. TaskOK'
  BY DEF IInv, TaskOK, Calls, GiveUp, library, flags, interp
<1>3. UpOK'
  BY DEF IInv, UpOK, Calls, GiveUp, library, slots, bus, flags, interp
<1>4. LibOK'
  BY DEF IInv, LibOK, Freeing, Calls, GiveUp, library
<1>5. HeldOK'
  BY <1>a DEF IInv, HeldOK, LibOK, Freeing, Calls, GiveUp, library, slots, interp, claims
<1>6. PromptOK'
  BY <1>a DEF IInv, PromptOK, UpOK, Calls, GiveUp, library, slots, bus, interp, claims
<1> QED BY <1>1, <1>2, <1>3, <1>4, <1>5, <1>6 DEF IInv

\* The port goes off and on; the library notices later.
LEMMA PortCycleKeeps == ASSUME IInv, PortCycle PROVE IInv'
<1>1. TypeOK'
  <2>1. FlagTypes'
    BY Types, Zenon DEF IInv, FlagTypes, Calls, PortCycle, library, slots, flags, claims
  <2>2. OtherTypes'
    BY Types DEF IInv, OtherTypes, Calls, PortCycle, library, flags, slots, claims
  <2> QED BY <2>1, <2>2, Types
<1>2. TaskOK'
  BY DEF IInv, TaskOK, Calls, PortCycle, library, flags
<1>3. UpOK'
  BY DEF IInv, UpOK, Calls, PortCycle, library, slots, flags
<1>4. LibOK'
  BY DEF IInv, LibOK, Held, Calls, PortCycle, library, slots
<1>5. HeldOK'
  BY DEF IInv, HeldOK, AbandonedCounted, Calls, PortCycle, library, slots, claims
<1>6. PromptOK'
  BY DEF IInv, PromptOK, Calls, PortCycle, library, slots, claims
<1> QED BY <1>1, <1>2, <1>3, <1>4, <1>5, <1>6 DEF IInv

\* host_port_cycle() returns.
LEMMA PortCycleEndsKeeps == ASSUME IInv, PortCycleEnds PROVE IInv'
<1>1. TypeOK'
  BY DEF IInv, TypeOK, PortCycleEnds, library, flags, slots, claims
<1>2. TaskOK'
  BY DEF IInv, TaskOK, PortCycleEnds, library, flags
<1>3. UpOK'
  BY DEF IInv, UpOK, PortCycleEnds, library, slots, flags
<1>4. LibOK'
  BY DEF IInv, LibOK, Held, PortCycleEnds, library, slots
<1>5. HeldOK'
  BY DEF IInv, HeldOK, AbandonedCounted, PortCycleEnds, library, slots, claims
<1>6. PromptOK'
  BY DEF IInv, PromptOK, UpOK, TaskOK, PortCycleEnds, library, slots, claims
<1> QED BY <1>1, <1>2, <1>3, <1>4, <1>5, <1>6 DEF IInv

----------------------------------------------------------------------------
(* The theorems.                                                           *)

\* Nothing is installed, open or said.
LEMMA InitIInv == Init => IInv
<1> SUFFICES ASSUME Init PROVE IInv
  OBVIOUS
<1>1. FlagTypes
  BY Zenon DEF Init, FlagTypes
<1>2. OtherTypes
  BY DEF Init, OtherTypes
<1>3. TaskOK /\ UpOK
  BY DEF Init, TaskOK, UpOK, Teardown, Closing, Freeing
<1>4. LibOK
  BY DEF Init, LibOK, Held, Closing
<1>5. HeldOK /\ PromptOK
  BY CountType DEF Init, HeldOK, PromptOK, AbandonedCounted
<1> QED BY <1>1, <1>2, <1>3, <1>4, <1>5, Types DEF IInv

\* Each step keeps the invariant.
LEMMA NextIInv == ASSUME ~SlowInstall PROVE IInv /\ [Next]_vars => IInv'
<1> SUFFICES ASSUME IInv, [Next]_vars PROVE IInv'
  OBVIOUS
<1>1. CASE TaskStep
  BY <1>1, InstallOkKeeps, InstallFailsKeeps, ExitKeeps, LoopEndsKeeps, CloseOneKeeps,
     CloseEndsKeeps, FreeAllKeeps, SettleKeeps, UninstallKeeps, CloseNextKeeps DEF TaskStep
<1>2. CASE WaitEnds
  BY <1>2, ReleaseEndsKeeps, DrainEndsKeeps, AllFreeEndsKeeps, PortOffEndsKeeps DEF WaitEnds
<1>3. CASE Callback
  BY <1>3, OnNewDevKeeps, OnDevGoneKeeps, CtrlRetiresKeeps DEF Callback
<1>4. CASE Interp
  BY <1>4, HostStartKeeps, HostStartAtOnceKeeps, StartOkKeeps, StartGivesUpKeeps,
     HostStopKeeps, StopClosesKeeps, StopReturnsKeeps, PortCycleKeeps, PortCycleEndsKeeps,
     ClaimKeeps, GiveUpKeeps DEF Interp
<1>5. ASSUME NEW d \in Devs, Replug(d) \/ PumpLib(d) \/ CtrlRetires(d) PROVE IInv'
  BY <1>5, ReplugKeeps, PumpLibKeeps, CtrlRetiresKeeps
<1>6. CASE Hangs
  BY <1>6, HangsKeeps
<1>7. CASE UNCHANGED vars
  <2>1. /\ UNCHANGED <<lib, installed, client, opened, news, ep0, leaked, freeing, plugged, port>>
        /\ UNCHANGED <<prompt, running, tearing, result, used, abandoned, vm, said, deviceStack>>
        /\ UNCHANGED <<claimed, kept, handle, task, cur, seen, hung, late, wedged>>
    BY <1>7 DEF vars, library, bus, flags, slots, interp, claims
  <2>2. TypeOK' /\ TaskOK' /\ UpOK'
    BY <2>1 DEF IInv, TypeOK, TaskOK, UpOK
  <2>3. LibOK' /\ HeldOK' /\ PromptOK'
    BY <2>1 DEF IInv, LibOK, HeldOK, PromptOK, Held, AbandonedCounted
  <2> QED BY <2>2, <2>3 DEF IInv
<1> QED BY <1>1, <1>2, <1>3, <1>4, <1>5, <1>6, <1>7 DEF Next

\* For any devices and slots, and an install start waits for: the two threads and
\* the library stay where the invariant says.
THEOREM Invariance == ASSUME ~SlowInstall PROVE Spec => []IInv
BY InitIInv, NextIInv, PTL DEF Spec

\* For any devices and slots: the slots and the count of abandoned transfers cover
\* what the library holds, and the client has closed every device by the time it
\* deregisters (usbif_host_teardown).
THEOREM LifeConsistent == ASSUME ~SlowInstall PROVE Spec => []Consistent
<1>1. IInv => Consistent
  <2> SUFFICES ASSUME IInv PROVE Consistent
    OBVIOUS
  <2>1. SlotsAreOpen
    BY DEF IInv, LibOK, HeldOK, SlotsAreOpen
  <2>2. ClosedBeforeDeregister
    BY DEF IInv, LibOK, HeldOK, ClosedBeforeDeregister, Freeing
  <2> QED BY <2>1, <2>2 DEF Consistent, IInv, HeldOK
<1> QED BY Invariance, <1>1, PTL

\* For any devices and slots: a library left installed is never passed over in
\* silence, a stop under a library that keeps within the waits leaves the controller
\* free unless a transfer was abandoned after its callback, and "running" is said of
\* a running host only.
THEOREM LifeSaysTrue == ASSUME ~SlowInstall PROVE Spec => []SaysTrue
<1>1. IInv => SaysTrue
  <2> SUFFICES ASSUME IInv PROVE SaysTrue
    OBVIOUS
  <2>1. NothingSilent
    BY DEF IInv, UpOK, LibOK, NothingSilent
  <2>2. StopFrees
    BY DEF IInv, PromptOK, StopFrees
  <2>3. StartTruth
    BY DEF IInv, TaskOK, UpOK, StartTruth
  <2> QED BY <2>1, <2>2, <2>3 DEF SaysTrue
<1> QED BY Invariance, <1>1, PTL
=============================================================================
