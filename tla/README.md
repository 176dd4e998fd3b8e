# usbif in TLA+

usbif (`src/`) gives MicroPython on an ESP32-P4 the USB host: a C module that
drives ESP-IDF's host library from a task of its own, and Python packages
(`usb.core`, class drivers for host and device) above it.  These modules model
the parts whose correctness depends on an order of events: two cores, a lock that
is given back in the middle of calls, a library that calls back, a device that may
be pulled out at any point, and drivers that have to agree with whatever is at the
other end of the cable.

| module | models | checked by | proofs |
|---|---|---|---|
| `HostXfer` | the transfer layer, `usbif_host_xfer.c`, with the lock and DEV_GONE of `usbif_host.c` | `MCHostXfer_*.cfg` | `HostXferProofs` |
| `TransferContract` | what the library asks of a transfer's owner; `HostXfer` implements it | `xfer_unplug` | `HostXferProofs` |
| `HostLife` | start, stop, teardown: `usbif_host.c` | `MCHostLife.cfg` | `HostLifeProofs` |
| `HostEvents` | slots, the event ring, drain, snapshot: `usbif_host.c`, `mod_usbif.c`, `shared/usbif_ringbuf.c` | `MCHostEvents.cfg` | `HostEventsProofs` |
| `EventContract` | the queue of events the ring implements | `events` | `HostEventsProofs` |
| `PcmSink` | the gate and the byte ring of a playback stream: `shared/usbif_pcm_sink.c`, `shared/usbif_byte_ring.c` | `MCPcmSink.cfg` | `PcmSinkProofs` |
| `SinkContract` | the queue of whole frames behind a gate that it implements | `sink` | `PcmSinkProofs` |
| `HostStream` | isochronous streams and their stops: `usbif_host_stream.c`, `usbif_host.c`, `mod_usbif.c` | `MCHostStream.cfg` | `HostStreamProofs` |
| `HostNet` | the network adapter: `usbif_host_net.c` | `MCHostNet.cfg` | `HostNetProofs` |
| `UsbDesc` | the descriptor walks of `usb/core.py` and of the packet drivers | `MCUsbCore.cfg` | - |
| `UsbCore` | Device objects, their claims and releases: `usb/core.py`, `usb/util.py` | `MCUsbCore.cfg` | `UsbCoreProofs` |
| `UsbPort` | the port as the Python module keeps it: `usb/core.py`, `usb_host.py` | `MCClasses.cfg` | `ClassesProofs` |
| `HostWatch` | a program that watches what is plugged in: `examples/host_enum.py`, strings | `MCClasses.cfg` | - |
| `HidLink` | a keyboard and its reader: `usb_hid.py`, host `hid.py`, `examples/hid_host.py` | `MCClasses*.cfg` | `ClassesProofs` |
| `SerialPort` | `Serial` of host `cdc.py` | `MCClasses.cfg` | `ClassesProofs` |
| `RndisTether` | `Tether` of host `net.py` | `MCClasses.cfg` | `ClassesProofs` |
| `MscBot` | mass storage at both ends: the two `msc.py`, `examples/sd_drive.py` | `MCClasses.cfg` | `ClassesProofs` |
| `UvcModes`, `UvcCamera` | a camera and its host: the two `video.py`, `_uvc.py`, `examples/usb_webcam.py`, `uvc_display.py` | `MCClasses.cfg` | `ClassesProofs` |
| `PictureDraw` | the pixels of `examples/uvc_display.py` | `MCClasses.cfg` | - |
| `UacStreams`, `UacAudio` | a sound card and its host: the two `audio.py`, `_uac.py` | `MCClasses.cfg` | `ClassesProofs` |
| `MidiEffect` | `examples/midi_harmonizer.py`, `midi_harmonizer_ui.py` | `MCClasses.cfg` | `ClassesProofs` |
| `MidiMonitor` | `examples/midi_host.py` | `MCClasses.cfg` | - |

Run `tlc -workers 2 -config X.cfg M` (for example `MCHostXfer_safe.cfg` and
`MCHostXfer`) and `tlapm HostXferProofs.tla` in this directory.  `PROJECT.json`
maps every definition to the lines it stands for and lists, for every property, a
mutant of the model that breaks it.

## 1. Inventory

Tasks: the **host task** (priority 7, pinned to core 0, runs from `host_start()`
to the end of the teardown), the **interpreter's thread** (the API; one call at a
time, as it never lets go of the GIL in one; the callbacks of the device drivers
run in it too, between two bytecodes), **lwIP's thread** (transmits on the network
adapter) and **native tasks** of other modules that hold a C sink.  The recursive
**host lock** is held around the pump of the client's events and by every API
call, which gives it back while it waits.

| component | state | operations | what is hard | correct when |
|---|---|---|---|---|
| Transfer layer, `usbif_host_xfer.c` | claims table, one cached transfer per endpoint (`busy`, semaphore, kept), the control semaphore and busy flag, the count of abandoned control transfers | claim, release, ctrl, ep, close; internally drop_pipes, retire, wait; callbacks; on DEV_GONE | the lock is given back in a wait, so a callback, DEV_GONE or another waiter runs in the middle of a call; callbacks may be late or never come; the wait pumps events itself | no transfer freed or reused under the library; a completion wakes the call it belongs to; tables agree with the library; every call returns |
| Host lifecycle, `usbif_host.c` | task handle, running, tearing, wedged, install result, abandoned count, slots, what the library holds | start, the loop, stop, teardown (close devices, drain, deregister, free all, port off, settle, uninstall), port cycle | bounded waits on two sides, devices that never answer or arrive during teardown, an uninstall that reports success and fails | nothing left behind in silence; one driver of the controller; a stop with a prompt library frees it; start tells the truth |
| Devices and events, `usbif_host.c`, `usbif_ringbuf.c`, `mod_usbif.c` | slots, ring (head, tail, dropped), running | NEW_DEV, DEV_GONE, push, drain, host_devices | two cores without a lock; a full ring; a counter with two writers; a restart | records come out whole, once, in order; what was told is what is attached; a loss is told |
| PCM sink, `usbif_pcm_sink.c`, `usbif_byte_ring.c` | gate (live, users, busy), generation, ring (head, tail) | open, write, space, fill, out, close, c_sink | lock-free against writers on other cores; generations outlive their streams | nobody inside freed memory; one producer; whole frames; close ends |
| Isochronous streams, `usbif_host_stream.c` | slots: transfers in flight, open flag, errors, leaked | open, callback (rearm), stop, close, on DEV_GONE | stop waits for callbacks with the lock held, pumps for itself and may be entered again from its own pump; transfers that do not come back | no free under the library, no slot left behind; the rings rooted; a stream that fails says so |
| Network adapter, `usbif_host_net.c` | receive and transmit transfers, netif, busy | start, transmit, callbacks, quiesce, stop, on DEV_GONE | a third thread; stop against a transmit in flight; gone without stop | no transfer freed in flight; no second netif |
| C module, `mod_usbif.c` | running flag, class filter, soft-reset guard, GC roots of stream owners | bindings, soft reset | soft reset in the middle of anything | one host over many interpreters |
| Pacing and queue, `usbif_iso_pace.h`, `usbif_iso_queue.h` | fractional accumulator; ring of transfers | next packet size; push, pop | rates that do not divide; full and empty | long-run rate exact; no packet over mps |
| UVC frames, `usbif_uvc_frame.h` | write position, frame id, error flag | payload in, frame out | lost packets, toggles, oversize | only whole frames are delivered |
| Downmix, pump block | none | sample arithmetic | saturation | in range |
| `usb.core`, `usb.util`, `usb_host` | started and its settings; per object: claims, alternates, descriptors and strings read | start, stop, find, running; claim, release, set alternate, read, write, ctrl | objects outlive their device and share it; a call that raises half-way; addresses that are given again | the module knows whether the port is on; claims and data toggles agree at both ends; a driver talks to its own function |
| Mass storage, both `msc.py`, `sd_drive.py` | host: call, command, tag; device: command, buffer, pending transfers, sense, ejected | open, commands, parts, reset, sense; callbacks, dispatch, fail, discard, eject, insert | timeouts in any phase, blocks that raise, late commands, a replug, the board's own use of the card | each command does what its status says and nothing else; one writer; no silence |
| Host class drivers, `hid.py`, `cdc.py`, `net.py`, `video.py`, `audio.py`, `_uvc.py`, `_uac.py` | pending bytes, request ids, packets of a report, the mode and alternate, the rate | find, read, handshakes, negotiate, start, stop | answers that come late; packets cut anywhere; a bus that cannot carry a mode; streams that share a clock | bytes once and in order; an answer belongs to its command; the largest mode that fits; the pitch asked for |
| Device class drivers, `video.py`, `audio.py` | alternate, format, pending control, ring, feedback, volume | SET_CUR, GET_CUR, SET_INTERFACE, write_frame, service | a callback between two bytecodes of the program; a control transfer cut short; a session in the middle of a frame; two clocks | whole frames of one size; what the computer set; a ring that runs neither dry nor over |
| HID reports, `usb_hid.py` | endpoint busy, protocol, LED report | send_report, set report | busy endpoint, boot protocol | what is held is what is told |
| Examples | their own loops | - | they compose drivers and are what users begin from | stated with the modules that model them |
| Tests, tools, docs | - | - | - | read as statements of what is promised |

How they interact.  `mod_usbif.c` calls lifecycle, transfer layer, streams and
adapter from the interpreter's thread.  The host task pumps the library, whose
client callbacks are NEW_DEV and DEV_GONE: these write the slots, push records
for `host_drain()`, and call the DEV_GONE handlers of transfer layer, streams and
adapter.  Transfer callbacks run in whichever task pumps.  `host_stop()` closes
adapter, streams and claims from the interpreter's thread while the loop still
runs, then tells the task to tear down.  The teardown reads the transfer layer's
abandoned count.  Streams hand C sinks to other modules.  In Python, `usb.core`
keeps tables of its own over the C module's; the host's class drivers are written
on `usb.core`, the device's on micropython-lib's `usb.device.core`, whose
callbacks they are.

The hazards that follow, each at its line, are in `PROJECT.json` with the
properties that would catch them.

## 2. Plan

Done: the C parts `HostXfer` (the part everything rests on), `PcmSink`,
`HostLife`, `HostEvents`, `HostStream`, `HostNet` with three abstract
specifications; the Python parts, first `UsbPort`, `UsbDesc`, `UsbCore` over the
promises of `HostXfer`, then each class driver composed with what is at its other
end, and the example programs whose own state matters.  `MCClasses` brings the
Python parts but `UsbCore` under one run; they share no state, so a behaviour
picks one of them.

Next, in this order:

1. `UvcFrame`, `IsoPace` and `IsoQueue`: the C headers' algorithms against a
   reference over bounded inputs; recursion as recursive functions, so that they
   can be proved about.
2. `MscBot` with a drive of the trade, which stalls endpoints and answers "phase
   error", for `Drive`'s clearing and resets.
3. What remains of the class drivers: `Serial`'s line settings and writes, the
   session of `usb_hid` (enable, disable).

Proofs to add: `CommandsTrue` of `MscBot`, on the invariant that gives `Consistent`
and `OneWriter` (what a call's data and the medium are at each stage has to be added
to it), and `PictureTrue` of `UvcCamera`.  Of the C parts, of `UsbCore`'s tables and of
most parts under `MCClasses` the safety properties are proved (section 17).

## 3. The transfer layer: `HostXfer`

**State.** `hub` and `idf` are the library's side: whether a device is open,
leaving (DEV_GONE queued) or absent, and which interfaces it holds claimed.
`claims`, `pipes` and `xfers` are `usbif_xfer_claims`, `usbif_xfer_pipes` and the
heap blocks of transfers; a transfer is free, the caller's, queued on the bus or
done (its callback due).  `ctrlBusy`, `ctrlSem`, `abandoned` are the control
path's.  `pc`, `call`, `cur`, `todo` are the API call in progress; `wait` and
`on` the wait of the call and of a DEV_GONE handler in either task.  `fault`
records what would be undefined behaviour (a freed transfer used, a null one, a
semaphore deleted under a waiter, a closed device handle passed on).

**Steps.** A step is what one task does between taking the lock and giving it
back, or one access to a semaphore.  Every API operation is there with its early
returns: `Ctrl*`, `Ep*` (with the allocation, retire and keep paths), `Claim*`,
`Release*`, `Close*`; `DropNext` is the loop of `usbif_xfer_drop_pipes`,
`Gone*` is DEV_GONE's.  `usbif_xfer_iso_ep` searches a descriptor and changes
nothing that another operation reads; it is left out.

**Outside the code**: `Complete` (the bus), `Callback` (the library, in any task
that pumps), `Unplug`, `NewDev`.

**Bounds.** One device with one interface at two alternates and one IN and one
OUT endpoint, three transfers, one claim and two pipes.  A replugged device gets
the same handle back, which is the worst case for stale claims.  Two pipes are
enough for a pipe of a call and one of a handler to differ; the transfer objects
are interchangeable, hence the symmetry.  The runs with `Unplugs` have one
endpoint; `xfer_unplug` two transfers and one alternate, `xfer_returns` one transfer
and both.  What these leave out (other alternates while a device goes, allocations
that fail during kept polls, several devices) is in the theorems of section 17.  A DEV_GONE handler does not run inside another's
wait of the same task (`GoneBegin`): with one device no second message can come.

**What the runs show**

- `xfer_safe` checks `Safe`, whose parts are: while no device is unplugged, nothing
  freed, deleted or closed is used (`MemorySafe`); a satisfied wait was satisfied by
  its own transfer (`CompletionIsOwn`), which is what draining the semaphore before a
  submit is for; and the books agree with the library's (`BooksAgree`): `busy` is
  exact, the claims table never claims what the library does not, the abandoned
  count is exact.  `MemorySafe` is checked without unplugging because with it the
  code does reach freed memory (`xfer_gone`).
- `xfer_unplug`: with unplugging at any point, kept polls and callbacks arbitrarily late (`Prompt = FALSE`), every transfer has one owner
  (`Ownership`), DEV_GONE leaves no claim, and the whole implements
  `TransferContract`, which no step that frees a transfer under the library does.
- `xfer_returns`: under fairness every call returns, those without a timeout too,
  with devices that come and go for ever and allocations that fail; and without `keep`
  no report that the bus delivered is lost (`NoReportLost`).  One block of memory for
  the transfers and one IN endpoint, as the product with liveness is large: a call
  whose block is still out is refused as if memory had run out.  Waits and handlers
  are all there.
- `xfer_gone` is a finding (section 16), and so is what `keep` loses.

One direction of the claims table is no property: `release` gives up after 250 ms
and forgets a claim that the library may keep.  The code documents that.

**Fairness.** The host task outranks the interpreter's and its loop runs every
tick, so it gets a lock that is free again and again (strong fairness of
`LoopDelivers`, `LoopSeesGone`), while the interpreter's task gets it when the
host task sleeps (strong fairness of the steps after a wait).  Time that is up is
noticed.  The bus owes an answer only to a call that waits for good; no fairness
is assumed of it otherwise, nor of the program making calls.

## 4. Start, stop, teardown: `HostLife`

**State.** The library's (`lib`, `installed`, `client`, `opened`, `news`, `ep0`,
`leaked`, `freeing`), the bus, the flags of `usbif_host.c` by their names, where
the task (`task`) and the interpreter (`vm`) are, `said` for what the last
`host_start()` answered, and `deviceStack` for TinyUSB, which drives the same
controller while the host does not.

**Steps.** `HostStart`, `StartOk`, `StartGivesUp`, `HostStop`, `StopCloses`,
`StopReturns`, `PortCycle`; the task's `Install*`, `LoopEnds`, `CloseOne`,
`CloseNext`, `ReleaseEnds`, `DrainEnds`, `FreeAll`, `AllFreeEnds`, `PortOffEnds`,
`Settle`, `Uninstall`, `Exit`; the client's callbacks `OnNewDev`, `OnDevGone`,
`CtrlRetires`; a program's claims and abandoned transfers (`Claim`, `GiveUp`).
`Hangs` is a call of the library that never returns: one did, in the wait for
ALL_FREE (usbif_host.c:206-210).  It may be any of those the teardown makes without
the lock; a call made under the lock is assumed to return, or nothing would run
again.  `GiveUp` has two outcomes: the transfer is still on EP0, or its callback ran
between the end of the wait and the abandonment (usbif_host_xfer.c:556-557), found
no mark, and the count will not come down again; `late` is the history of the
second.  The library's part, `PumpLib`, is a choice among what the code and its
comments say the library may do with a device: enumerate it, get stuck, report it
gone, free it.  The stop that a soft reset makes is `HostStop`.

**Time.** Every wait of this file counts polls; in the model it may end at any of
them.  `prompt` is chosen once, at the start: if it is TRUE, waits with the root
port off end early only when the library has nothing left to do and no library
call fails or hangs.  `StopFrees` is stated for those behaviours; everything else holds
for all.  The port-off step abstracts the error of the power-off call.

**Bounds.** Two devices and two slots: one can be stuck, gone, or held by a claim
or an abandoned transfer while its neighbour is closed.  `SlowInstall = FALSE`:
an install answers within the two seconds `host_start()` waits.  With TRUE,
`NothingSilent` and `StartTruth` do not hold; the comment in the code
expects the install to be quick.  `MaxAbandoned = 2`: one transfer late and one still
on a pipe; the proofs have no such bound.  `WedgedCalls = FALSE`: a program makes no
further claim beside a host that is already wedged, which can only be reset; the
proofs allow it.  `StartTruth` also excepts the two stores
between which a failed install has told its verdict and not yet cleared the
handle.

**What the run shows** (`life`).  `SaysTrue`: a library left installed, behind the
task or beside TinyUSB, is never passed over in silence (`NothingSilent`), a prompt
stop frees everything unless a transfer was abandoned late (`StopFrees`; section 16
has what happens then), and what `host_start()` answers is so
(`StartTruth`).  `Consistent`: the abandoned count covers every transfer a pipe
holds, also when the device was freed under it, the slots are the open devices, and
the client has closed every device before it deregisters unless the library kept a
claim (`ClosedBeforeDeregister`; a NEW_DEV queued behind the close loop is the
hazard; it exempts a host that is already wedged, for with `WedgedCalls` the
interpreter may claim again beside a task that outlived its stop).  `TeardownEnds`: a
call of the interpreter comes back, also while the task hangs, and a teardown ends,
with the task gone or in a call that never returns.

**Fairness.** The task goes on unless it hangs: its steps, and the ends of its waits,
whose polls the code counts.  A pump gets to what the library and the client have
pending.  An API call goes on once begun; `host_stop()`'s wait has a clock.  Nothing is
assumed of the bus, of the enumeration's success, of a stuck device, or of the library's
calls returning.

**Left out**: the FIFO split and the full-speed switch (they configure the
library), the class filter.

## 5. Devices and events: `HostEvents`

The slots, the ring and the two sides of it, each access of the shared state a
step.  `usbif_host_start_c` is `HostLife`'s; here `HostStart` is what
`mod_usbif.c` does around it, and `HostStop` is one step, because the task has
exited when it returns and no record is pushed after.  `known` is what a program
knows that applies the records in order.  `missed`, `owed` and `quiet` are
history, and `opened` is the devices the host task has opened and not closed, which
is what the slots are compared with: it changes with the library's calls, not with
the slots' fields.

`events` checks that the ring implements `EventContract`, that what was told and
what waits give the devices attached, over repeated and fresh starts
(`EventsTellAll`), that slots are the open devices, one each (both are parts of
`Consistent`), that a snapshot no write of a slot meets is exactly the devices held
open (`SnapshotIsTrue`), and that a loss is told at most once per loss
(`ReportedOnce`).  A snapshot between `in_use = true` and the fields meets a write;
what it copies is the finding `events_rows` (section 16).  Two devices so that a slot
passes from one to the other; a ring of three places (two records), so that it
fills, empties and wraps; `MaxDropped = 1` saturates the drop count, of which only
zero or not is ever told.

The class filter is not in the model: `host_start()` on a running host sets it at
once (mod_usbif.c:188), though the comment at 163-164 says it takes effect when
the host starts; no property is stated about which devices a filter admits.
Neither is a start refused because a task that outlived its stop is still there,
which initialises the ring while that task may push: such a host can only be
reset.

## 6. The playback ring: `PcmSink`

Every operation on an atomic is a step, and so are the push's copy and its store
of `head`.  The gate's operations are sequentially consistent but for the last
decrement, which releases; the interleaving semantics is exact for that, as
nothing is read after it.  `Enter`/`Refuse` is the load of `live` after the
increment of `users`; `CloseStore`/`CloseReturn` is close's store and its wait.
`fill` and `out` are the reader's `TakeLoad`/`TakeStore`.  Bytes are pairs of
their writer and their place in a frame, so that a frame that is cut, shifted or
mixed is told from a whole one.

`sink` checks: a call inside the ring is inside one that exists and under its
own generation; no overrun of what the host task has yet to take; `SinkContract`
is implemented; and close returns.  (One producer at a time, and `users` as the
exact number of calls in progress, are proved: section 17.)  The last rests on a caller that is refused not
calling again (point 3 of the contract in `pcm_c_sink.h`: it drops the sink), and
on callers being scheduled: close's wait sleeps a tick, so that a lower task on
its core runs.

Bounds: the interpreter and one other task, a ring of three bytes with frames of
one and two (a frame of two wraps round the end), the slot opened twice, so that
a sink of the first stream is used on the second; `SinkGenMax = 2`.  The wrap of
the generation after 2^32 - 1 opens is out of reach (`MaxOpens`).  Deadlock is
not checked: a slot whose device is gone for good stays closed.

## 7. Isochronous streams: `HostStream`

**State.** `streams` is `usbif_streams` (used, open, gone, which device and
endpoint, `inflight`, whether an error was counted); `xfer` where each of a
stream's transfers is: free, the stream's, on the bus, or done with its callback
due.  `rooted` is which slots' `usbif_stream_owner` is their stream's ring, `vm`
where the interpreter is between the calls, `hub` the devices.  `stack` is the
stack of the calls in progress under the host lock: loops over the slots (of
DEV_GONE, of a release or re-claim, of close and close_all, of the teardown) and
stops, each with the wait it is in.

**Steps.** The wait of a stop holds the lock and pumps the library itself, so
while a stop is on top of the stack the pump delivers: callbacks of any stream,
and DEV_GONE, which pushes a loop and stops of its own on top, perhaps for the
very slot that is being stopped.  `LoopStop`, `RetireEnds`, `HaltEnds`,
`LoopEnds` take the top of the stack on; `Callback` is `usbif_stream_cb` with its
three outcomes; `Open` is one step, as the lock is held throughout and nothing is
pumped in it; `Opened` and `Roots` are the binding's part after the lock.  Claims
are `HostXfer`'s and are left out: a program has claimed what it opens.

**Time.** A wait may end at any point where a transfer is still out; with
`prompt` (chosen at the start) only when no callback is due.  `wedged` is the
host whose teardown left a transfer out (`HostLife`).

**What the run shows** (`stream`).  However deep the stops are nested,
`inflight` is exact, a device is closed with its streams stopped, a stream that
lost a transfer says so, an open stream's ring is rooted whenever Python code runs
(`RingRooted`), and a library that delivers in time leaves no slot behind, whatever
is unplugged meanwhile (`SlotsComeBack`): `Consistent`.  No transfer is freed in the
library's hands and only endpoints of a device still there are halted:
`StopIsSafe`.  And the lock comes back.

**Bounds.** Two devices with one endpoint each, two slots, two transfers: the
stop of one stream sees the other's device go and, inside that, its own.  Devices
arrive only outside stops (`NewDev`): an enumeration takes longer than the 210 ms
of a stop.

**Fairness.** Whoever holds the lock runs, its waits are counted in time, and its
pump calls the callbacks that are due.  None is assumed of the bus.

**Left open.** `usb_host_endpoint_clear` after the second wait
(usbif_host_stream.c:272) takes the handle looked up when the stream was opened,
though a DEV_GONE delivered in that wait has closed the device;
`HaltsAttached` covers the halt and flush before the wait only.  usbif_host_xfer.c:474
says a gone device has nothing to halt.  In a wedged host a later stop halts an
endpoint of a closed device, hence the exemption in that property.

## 8. The network adapter: `HostNet`

**State.** `net`, `xfer`, `live` are `usbif_net` and its two rows of transfers with
`rx_live` and `tx_busy`; `link` is whether the netif is up, `orphan` a netif that
`usbif_net` has forgotten; `tx`, `host`, `vm` are where lwIP's thread, the host
task and the interpreter are; `claim` is of the data interface.  `used` is the
device whose handle the last step passed to the library, `raced` history.

**Steps.** The interpreter takes the host lock for single calls only, so
`usbif_net_start` and `usbif_net_stop` are six and eight steps; `TxBegin`,
`TxSlot`, `TxSubmit` are `usbif_net_transmit`'s look at `open`, its slot and its
submit, none of them locked; `GoneBegin`, `GoneLink`, `GoneClose` are DEV_GONE's
with the lock held.  The actions of an esp_netif (`LinkDown`) run in lwIP's thread
while their caller waits, which is what keeps the transmitter and a stop apart;
that is ESP-IDF's doing and external, as is that `esp_netif_new` refuses a key
that is taken.

**What the run shows** (`net`).  The flags that `free_xfers`, the transmitter and
the wait read without a lock are exact, and a transmitter never fills a freed
transfer; the handle of a closed device is not used, by lwIP's thread or a later
stop (`HandleOpen`); a stop gives back transfers and claim (`StopGivesBack`): all
parts of `Consistent`.  Nothing is freed in the library's hands or the
transmitter's; and all calls return, though DEV_GONE waits for lwIP with the lock
held.  `HandleOpen` and
`StopGivesBack` except an unplugging handled *during* a start or stop (`raced`,
until a stop has cleaned up): see section 16.

**Bounds.** Two adapters, one transfer in and two out: a full and a free slot of
the transmitter, a session on one device after a session on the other.  A device
does not come back within a start (`NewDev`).  With `prompt` FALSE a stop's 500 ms
may end with transfers out; a start that then wipes the structure goes to `wild`,
where the callbacks of forgotten transfers would act on new slots, and the model
ends there; with `prompt` TRUE it is never reached (`StopGivesBack`).

**Fairness.** As for `HostXfer`: the interpreter gets the lock when the host task
sleeps, and its actions a turn in lwIP's thread; the host task calls back what is
due.

## 9. Mass storage: `MscBot`

**State.** `host` and `cmd` are `Drive`: which call it is in, the phase of its
command and the command block; `out` and `in` its two bulk transfers.  `dev` is
`MSCInterface`: its fields by their names, its one data buffer, its status and reply
buffers (pending transfers refer to them), the two pending transfers, and the
transfers done whose callbacks are due, in order.  `medium` is the block device,
`dev.card` whose it is.

**Steps.** `Call`, `CbwSent`, `DataEnds`, `CswEnds`, `Reset` and `TimeOut` are
`_command`, `_io` and `Drive.__init__` (TEST UNIT READY with its senses, then READ
CAPACITY) cut at their USB calls; `OutCallback` and `InCallback` run one callback of
the device to its end, through `_dispatch`, `_fail`, `_read_chunk` and the rest,
exceptions and the `try` of `_cbw_done` included; `PacketOut` and `PacketIn` are the
bus.  A computer's eject is a call of its own; `Leave`, `BoardWrites` and `Insert`
are `examples/sd_drive.py` and what it does with its card; `Replug` is `on_reset`
and `on_open` with the callbacks of the transfers that failed.  `submit_xfer` of
micropython-lib's `usb.device.core` is external: it raises while the endpoint has a
transfer pending, which is what happens when a host that gave up sends its next
command.

**What is shown.** `prompt` (chosen at the start) is a device quick enough that a
transfer's five seconds are up only when nothing more would have come.  Then
`CommandsTrue`: a call that returns has read or written all its blocks, over as many
commands and chunks as it takes, and a sense tells why (`CallIsDone`); nothing else
reaches the medium, in particular not on a read-only one (`OnlyTheirs`); a command
is left unanswered only after an exception left a callback or by a failed read
longer than the buffer (`NoSilence`).  With or without `prompt`: after an eject no
command of the computer reaches the card, however late, until `insert()`
(`OneWriter`); and a `Drive` exists only with the medium's true size (`SizeKnown`).
`Consistent` says that the device is ready for the next command block between any
two calls.

**Bounds.** Four blocks in chunks of two, three blocks a command and up to four a
call: calls of two commands, commands of two chunks, the last of them partial, calls
beyond the end.  A call begins while fewer than three commands were sent, so that one
follows a call that failed or was given up.  One block may raise (`Bads`), on a
medium that can be written, and a device that is not quick (`~prompt`) is checked with
a medium that can be written and has no bad block, because what is asked of it does
not turn on the medium; two tries of the readiness test stand for twenty.  An
ejected drive stays ejected over a replug until `insert()`, as in the code.

**Left out**: what `Drive` does on a stall and on "phase error" (this device sends
neither), the residue (`Drive` does not read it), inquiries.

## 10. The port and the devices, in Python: `UsbPort`, `UsbDesc`, `UsbCore`, `HostWatch`

**`UsbPort`** is what `usb/core.py` remembers (`_started`, `_full_speed`,
`_classes`) over what the C module did: `start()`, which restarts on other settings
and may raise half-way, `stop()`, `find()`, `running()`.  `PortTruth` says that a
running port is never unknown to the module and runs with the settings asked for
last, and that a port the module takes for started runs, except after a restart that
raised (core.py:86).

**`UsbDesc`** has the descriptors of seven kinds of function, alone and together in
one configuration, and the walks over them: `core._endpoints`,
`core._find_interface`, and the searches of the `cdc`, `net`, `hid` and `msc`
drivers, each stated as the element or set the loop ends with.

**`UsbCore`** is Device objects.  Each has a table of claims of its own and the
alternates asked for; under them are the host's one table (`bus.table`, what
`usbif_host_xfer.c` keeps), the device's alternates, and the data toggles at the two
ends of every endpoint.  `ClaimOutcomes`, `FreshClaim`, `ReleaseOutcomes` give what a
call can leave, with an exception at each of its USB calls; `SetAlt`, `Transfer`,
`Release`, `ReleaseAll`, `Find` and the rest are the operations.  `TablesAgree`:
toggles of a claimed interface agree at both ends (a packet whose toggle is not the
expected one is thrown away *and acknowledged*, so a disagreement loses data without
an error), and every claim in the host's table is known to some object, which can
give it back.  The exceptions are in the definitions: an interface a call raised
about (a claim is recorded before its endpoints are cleared, core.py:254, and is not
cleared again), and one that was given SET_INTERFACE without a fresh claim: of the
alternate it had, or of one the object still takes for claimed after another object
of the device changed it.  `ReleaseAll` releases in the order of a dict, which the
model leaves open, as far as the first that raises.  `DevicesAssumption` is what the
module asks of a device: it has functions, interfaces 0 to 3, and endpoints that are
each of one interface, though perhaps of both its alternates.
`DriverFits`: what a driver picks is of one function, of its class, and usable once
claimed; it excepts `Serial` on a device with another network function, whose data
interface its search takes (cdc.py looks for the first data interface whatever it
belongs to).

**`HostWatch`** is `examples/host_enum.py`: it reads the counters, lists the devices
again when they moved, and asks each device for its strings while the host task goes
on adding and removing devices at the same addresses; `NewDev`, `NewDevCounts`,
`DevGone`, `DevGoneCounts`, `DevGoneFrees` are the host task's writes in their order.
`WatchTrue` (part of `PrintedTrue` in the run): what was printed adds up to what the
program takes to be plugged in, and once its counters are the host's that is what is
plugged in, with no device's strings on another's line.  It assumes that the 500 ms
it waits outlast the handler that counted.

**Bounds.** `core`: two objects (they are interchangeable, hence the symmetry), one
address, devices of one and of two functions among them the combinations where a
search can go wrong, a program without a driver that claims one interface by hand.
`watch`: two addresses, two makes of which one has no strings, four attaches and
detaches: a device replaced by another at its address, twice.

**Left out**: which exception an errno becomes, the copying of buffers, what
`set_configuration` checks.  A call is one step: the interpreter has one thread, and
a device that goes during a call makes a transfer of it fail first.

## 11. Keyboards, serial lines and tethers: `HidLink`, `SerialPort`, `RndisTether`

**`HidLink`** goes from the keys held to the events a program sees: `usb_hid.py` (or
a keyboard of the trade, with or without boot protocol, that repeats reports or runs
out of slots) queues the packets of a report; `hid.Device.read` puts packets
together; `KeyboardDecoder` of `examples/hid_host.py` makes events of the reports
and sets the lock lights.  `Seen` is what is down after some events: a key goes by
the last of them that is about it.  `KeysTrue`: once every report has been read, the
keys the program thinks are down are those that are.  `EventsTrue`: presses and
releases of a key alternate, and none is reported up by a report in which it is
held.  A key and its modifier in one report are in the order of the code, which is
not that of `feed`'s docstring (section 16).  `KeysTrue` excepts a keyboard behind
another device in boot protocol, whose reports `usb_hid` drops without a word
(`NotSent`), and lines on which the second packet of a report may come more than 2
ms late (`late`): there `read` ends early, the first 8 bytes of a keyboard's report
look like one in boot protocol with its ID for modifiers, and what follows is glued
or cut.

**`SerialPort`** is `Serial.readinto`, `any` and `_fill`: bytes that an earlier,
shorter read left, packets as they come, empty packets, timeouts and other errors.
`Places` are where a byte can be, from the program's buffer back to the wire.
`BytesOnce`: each byte is given once and in order, and none is lost but to a call
that raised after it had copied some: along the places the bytes rise, and together
they are all that were made but those torn.

**`RndisTether`** is `Tether`'s handshake: commands that give up after so many looks,
a phone that answers when it likes, answers passed over, `host_net_start` that may
refuse, a phone that goes, a second `Tether` made on the same phone.  `AnswerIsOurs`:
a command ends with its own answer and never with a late one of an earlier command,
unless a second `Tether` began to count again while answers to the first were still
to come; the interface is up only with an address that an answer gave; and `up` is
true of it unless the phone has gone.  A `Tether` dropped while up cannot be stopped
by another.

**Bounds.** Two keys, one of them a lock, one modifier, one slot; packets of two
bytes, four bytes in all, reads of up to three; two looks per command, four commands.

## 12. Camera and display: `UvcModes`, `UvcCamera`, `PictureDraw`

**`UvcModes`** has the descriptors of `CameraInterface` and of a webcam of the trade
(units, both encodings, a frame-based format, two bandwidths), the walks of
`_uvc.py`, and the order in which `Camera._negotiate` proposes modes.

**`UvcCamera`** composes the two ends.  The device: `Ack`, `SetCur`, `SetCurCut` and
`Get` are the stages of class requests, `SetAlt` the attach with its emptied ring,
`Build` and `write_frame`'s steps the program of `examples/usb_webcam.py`: `WriteFrame`
looks at the length and the room, `WriteLength` puts a JPEG's length, `WriteChecked`
the frame, and a callback may run between any two.  `held.is` says how far a frame has
come; a session that begins meanwhile makes it `late`, and `cut` is the history of a
session into which a late put brought a piece of another length.  The host: `SetProbe`,
`GetProbe`, `Commit` with the fall back to the next mode, `Start`, `Stop`,
`ShowTick`; or a computer, which makes the requests in any order and gives up in the
middle of them.  `Cross` gives the endpoint its bytes, whole frames or, in a session
that is cut, the ends of two (`Ends`).  `WholeFrames`: the ring of a streaming YUY2
camera holds only whole frames of the length its endpoint reads, but for the first
piece of a cut session (section 16).  `LargestCarried`: the mode a `Camera` ends
with is the largest of what was asked that this bus can carry.  `PictureTrue` (part
of `DisplayTrue`): pictures shown are of the mode announced and each later than the
one before, unless the camera was still streaming when the mode was committed or the
session is cut.

The ring takes a frame whole or not at all, as the stand-in of the tests does.  The
sort of the modes is the one they need: the cameras have no two modes that compare
equal, so that MicroPython's sort not being stable makes no difference.

**`PictureDraw`** is `examples/uvc_display.py` from the frame it read to the panel,
pixel by pixel, for this part has only arithmetic to go wrong: the YUY2 conversion
(against BT.601 with its sums rounded once), the whole-number enlargement in native
code that checks no bounds, rows in a band or straight in the panel's buffer, the
byte order that `blit_rect` swaps in place, two buffers, a direct painting that is
given up half-way.  `PanelTrue` (part of `DisplayTrue`): between two ticks the panel
shows the whole of the last frame that could be shown, each pixel in its place, with
black around it; a tear-free panel shows nothing else at any moment; and no row is
written past the end of its buffer.  The display driver and the JPEG decoder are
external.

**Bounds.** Sizes 2 and 1, one isochronous packet of 2 for `CameraInterface`, a host
with and without a small FIFO, three frames: an old session's frame, a new one's and
one built between.  Pictures two pixels wide and one or two high on panels of four and
five by two and four, lines as long as the panel or one pixel longer: scales 1 and 2,
with and without a margin of odd width.

## 13. Sound: `UacStreams`, `UacAudio`

**`UacStreams`** has the descriptors of `SpeakerInterface`, of a 2.0 headset with two
clocks and of a 1.0 device, and from them what `_uac.py` finds and chooses, including
the ranges a clock answers with or fails to, and the stereo microphone that will do
for a mono one.  `Runs` is what a card's clocks can really be set to, and
`OffersAssumption` what `UacAudio` assumes of all this: a stream chosen goes the way it
was asked for, and where rates are said, at one the card can be set to.

**`UacAudio`** composes the card with its host.  The card: the stages of volume and
mute requests (`SetVolume`, `SetVolumeCut`, `GetVolume`), `SetAlt`, and `service()` in
two steps (`ServiceReads`, `ServiceSets`), as a callback may change the session
between them; `Flow` is a period of the two clocks, drifting by at most `Drift`.  The
host: one program with a `Speaker` and a `Microphone`, started and stopped in any
order, with requests that are lost.  `VolumeTrue`: mute and volume are what the
computer last set, whatever it gave up on.  `PaceHolds`: while the card streams, its
feedback endpoint says what `service()` last worked out (`FeedbackTrue`), and a ring
that has reached its target never runs dry or over (`RingHolds`).  `PlaysAtPitch`:
the stream started last runs at the rate its object has.

**Bounds.** A period of 1000 samples, a ring of 32 (in the same unit) with its
target 16, a drift of 0.5 %: a drift of 0.8 % or more is not held.  `service()` is
called every period, as the example's loop does.  The ring is not emptied between
speaker sessions; `RingHolds` is about a ring that reached its target in this one.

## 14. MIDI: `MidiEffect`, `MidiMonitor`

**`MidiEffect`** is the two harmonizers between a player and a synthesizer: notes
with their harmonies, the chord and direction changed while notes are held and
messages wait.  `Drained` is what sounds when all that waits has been sent: a note goes
by the last message that is about it.  `NoNoteLeft`: when nothing waits, what sounds is
a key that is held or one of its harmonies under the setting of now; in the program
with buttons, on the first channel.

**`MidiMonitor`** is `examples/midi_host.py`: its start, chord, listening and ends,
and `Messages.feed` byte by byte, with reads that end anywhere.  `MessagesTrue`: what
is printed is what was played but for the clock's and the sense bytes, which `main`
passes over (`Worth`), in order, nothing of a SysEx in it and nothing lost over the
clock's bytes, also when a call raises (`Breaks`).  Whether the chord is silenced is
not stated: the code does not promise it (section 16).
midiports (its port and `message_length`) is external.

**Bounds.** Notes 123 and 127 (harmonies that pass the last note), two channels, two
chords, two waiting messages; three messages played and a SysEx of two packets.

## 15. The runs

| run | checks | instance |
|---|---|---|
| `xfer_safe` | `Safe` | one device, two endpoints, three transfers, no unplugging, kept polls, late callbacks |
| `xfer_unplug` | `Ownership`, `GoneLeavesNoClaim`, `KeepsContract` | unplugging, kept polls, late callbacks; one endpoint and alternate, two transfers |
| `xfer_returns` | `CallReturns`, `NoReportLost` | unplugging, calls that wait for good, failing allocations, fairness; one endpoint and transfer |
| `sink` | `InsideIsHeld`, `NoOverrun`, `KeepsContract`, `CloseReturns` | two writers, a ring of three bytes, two opens |
| `events` | `Consistent`, `SnapshotIsTrue`, `KeepsQueue`, `ReportedOnce` | two devices, two slots, a ring of two records |
| `life` | `Consistent`, `SaysTrue`, `TeardownEnds` | two devices, two slots |
| `stream` | `Consistent`, `StopIsSafe`, `LockComesBack` | two devices, two slots, two transfers |
| `net` | `Consistent`, `NothingFreedInUse`, `CallReturns` | two adapters, one receive and two transmit transfers |
| `core` | `TablesAgree`, `DriverFits` | two objects, one address, four devices |
| `classes` | `KeysTrue`, `EventsTrue` (11), `BytesOnce` (11), `AnswerIsOurs` (11), `PortTruth` (10), `CommandsTrue`, `Consistent` (9), `WholeFrames`, `LargestCarried`, `DisplayTrue` (12), `VolumeTrue`, `PaceHolds`, `PlaysAtPitch` (13), `NoNoteLeft`, `PrintedTrue` (14, 10) | as in those sections |
| `xfer_gone`, `events_rows` | findings, section 16 | one property each |

`MCClasses` picks a part at the start of a behaviour (`part`) and leaves the others
alone; a property of a part says so (`part = "hid" => ...`), and the variables of the
parts that do not run have one initial value, so the state space is the sum of the
parts' and not their product.  `PrintedTrue` and `DisplayTrue` each speak of two parts:
the two programs that print what happens to a device (`MessagesTrue` of `MidiMonitor`,
`WatchTrue` of `HostWatch`); the pictures a camera sends and the pixels they become.  `ConstantsAssumption` there is what the
parts assume of their constants.

Fairness is stated, for `xfer_returns`, `sink`, `life`, `stream` and `net`, in the
sections of their modules; the other runs check safety, and none is needed.
Deadlock is not checked where a program or device has an end or a counter is bounded
(`sink`, `core`, `classes`).

The bounds are chosen so that each case that a definition tells apart happens: every
action and every disjunct of the next-state relations is taken in some run.  What a
larger instance could still show is said with each module; the claims that matter
most are proved for every size (section 17).

## 16. Findings

| run | property | the code |
|---|---|---|
| `xfer_gone` | `GoneIsENODEV` | DEV_GONE handled before a read resumes frees the transfer whose status the read then looks at |
| `events_rows` | `RowsExplained` | `on_new_dev` sets `in_use` before the fields and `on_dev_gone` emits before it clears `in_use`, so `host_devices()` may give a row of the device a slot had before, a run of the host ago even, or of one whose detach was already drained; usbif_host.c:1165-1168 says each field is written before `in_use` is set, and the next events describe what is torn |

Seen with TLC, and not kept as runs:

- `NoReportLost` of `HostXfer` does not hold with `Keeps = {TRUE}`: a poll kept armed
  that completes between two calls is submitted again (usbif_host_xfer.c:409); its
  report is never handed over, though the comment at 77-80 says the next read takes
  it.
- `NeverSilent` of `HostEvents` does not hold: a drop counted between
  `take_dropped`'s load and its store of zero (usbif_ringbuf.c:58) is never told,
  though usbif_ringbuf.h:26 says overflow is "never silent".
- `ErrorsComeBack` of `HostXfer` does not hold: a failed `usb_host_transfer_alloc`
  (usbif_host_xfer.c:374) leaves the pipe with its `mps` and no transfer, and the
  next call on the endpoint compares the size with that of the null pointer
  (usbif_host_xfer.c:353).
- `AbandonedRetires` of `HostXfer` does not hold: a control transfer whose callback
  ran just after the wait ended is still abandoned (usbif_host_xfer.c:557).
  Nothing will free it, and its count holds up the teardown.
- `StopFreesAlways` of `HostLife` is the consequence: after such an abandonment a stop
  waits with the root port off for a callback that came long ago, and is then wedged
  (usbif_host.c:900), though the library has nothing left; only a reset helps.  The
  comment at 281-287 says the callback arrives.
- `ModifierAround` of `HidLink` does not hold: `KeyboardDecoder.feed` reports a key
  before the modifier that came down with it, and a modifier up before the key, where
  its docstring (hid_host.py:62-63) has "a modifier down before the key it modifies
  and up after it".
- `InfoTrue` of `HostNet` does not hold: DEV_GONE between a start's lookup and its
  `open = true` is missed, and `host_net_info()` says that frames can move until
  the program stops the interface.  A stop that read `was_open` before a DEV_GONE
  halts and clears endpoints of the closed device; one that read it during
  DEV_GONE's handler destroys the netif the handler is about to take down.
- `InfoKnows` of `HostNet` does not hold: a start on a replugged adapter without a
  stop in between (a new `Tether` object does that) wipes the structure.  The old
  netif and its transfers are forgotten, the new one is refused, and no later
  start can succeed.
- The clear after the second wait of a stream's stop (section 7).
- `StartStarts` of `UsbPort` does not hold: after a restart that raised, a `start()`
  with the settings of before returns at once and the port stays off, though
  core.py:75 says "Start the host port, or restart it".
- `KeepsToggles` of `UsbCore` does not hold: `set_interface_altsetting` of the
  alternate an interface already has puts the device's data toggles back and leaves
  the host's (core.py:251-252 keep the pipes of a claim that stands).  The proof of
  `TablesAgree` found a second way, with two objects for a device whose alternates
  share endpoints: one claims alternate 1, the other takes the interface over with
  alternate 0, and the first, whose own table still says 1 (core.py:240), is given
  SET_INTERFACE of it without a claim.  The run's by-hand interface shares none, so
  only the theorem covers this.
- A claim is recorded before its endpoints are cleared (core.py:254): when the
  clearing raises, the object takes the interface for claimed ever after and never
  clears those toggles, so the first packets may be lost without an error.
- An object outlives its device without knowing: its calls reach whatever has the
  address now, with the claims, endpoints and cached strings of the old one.
- `NoneMissed` of `HostWatch` does not hold: the counters are first read (host_enum.py:56)
  after the first listing (:50); what is attached or detached between is missed
  until the next change, though line 11 says "each attach and detach is printed".
- `LedsKept` of `HidLink` does not hold: the LED report is filed under its report ID
  (usb_hid.py:22-24), and `Device.set_leds` sends it with ID 0.
- `FailureIsTold` of `MscBot` does not hold: a read that fails and is longer than
  the device's buffer (usb/device/msc.py:335) gets one buffer of zeros; the status
  sent next ends the host's data phase, and its wait for a status times out.  The
  comment there says the host gets "the failed status, after which it asks REQUEST
  SENSE why".
- A block device that raises in a callback after the first chunk of a read, or in
  any chunk of a write (usb/device/msc.py:308), leaves the device without a status
  to send and without an armed endpoint: `Drive` times out from then on, and sends
  no reset on a timeout.
- `OnlyTheirsAlways` of `MscBot` does not hold: a host that gives up a write between
  two chunks has its next command block taken for the chunk.  `_out_done` does not
  look at the length, so what the buffer held goes to the medium.
- A COMMIT whose data never came is applied, as zeros and so as the first size, by the
  status stage of the next request, a GET among them (video.py:200-211); and one made
  while the camera streams is not applied at all, though video.py:201-203 says a commit
  "makes it the size the next session streams".  A `Camera` made over a camera left
  streaming is sent pictures of the size before.
- A SET_INTERFACE between `write_frame`'s look at the length and its put
  (video.py:259-261, or 257-258 between a JPEG's length and its body) empties the ring
  before the put: the new session begins with a piece of another length, and every
  frame of it is cut at the wrong place until it ends, though the comment at 216 says
  "Every session starts at a frame boundary".  `WholeFrames` without its `~cut` fails.
- A `Camera` whose constructor raised leaves the last mode it tried committed; the
  object the program had before then streams that.  A `stop()` that finds the stream
  busy leaves it open.
- A JPEG that breaks off in direct painting (uvc_display.py:352-355) turns direct
  painting off for good, like a buffer that is refused.  With `MAX_SIZE` larger than
  the panel `scale` would be 0, and `or 1` (:230) gives negative offsets; the model
  has `MAX_SIZE` None, where the camera's mode is no larger than the panel.
- Two streams on one clock: the one started last sets the rate, and the other changes
  its pitch.  A `service()` that SET_INTERFACE 0 interrupts sets a feedback while the
  card is idle; the next session begins at the nominal rate.
- `NoNoteLeftAnywhere` of `MidiEffect` does not hold: the All Notes Off of
  midi_harmonizer_ui.py:56 is the first channel's, and a harmony of another channel
  outlives its setting for good, though the docstring (12-13) says none does.
- `midi_host.py`: a `readinto` that raises leaves the port running.  A note-off that
  fails at the end is passed over (145-149), and the chord sounds on.

## 17. What is proved

For every value of the constants that the named assumptions allow (any number of
devices, endpoints, transfers, writers, any ring size), by TLAPS:

**`HostXferProofs`.** The invariant is
`IInv == TypeOK /\ WaitsMatch /\ OwnersSafe`.  `NothingFreedInLibrary` and
`Ownership` are not inductive alone: that drop_pipes may free what is not busy needs
that `busy` is exact, which needs that each transfer belongs to one pipe (or to the
control call), which needs to know what the waits in progress wait for and that a
handler in the API task runs only inside the call's wait (`WaitsMatch`).  From it
follow `TypeCorrect`, `NeverFreedInLibrary`, `AlwaysOwned`, `BusyIsInFlight`, and
with the claims' own invariant (`ClaimsIInv`) `TableAgrees` and
`NoClaimOfTheGone`.  `ImplementsContract` proves the refinement of
`TransferContract`: each action changes the owner of at most one transfer, or of
none.

Three more invariants build on that one.

- `Attached`, for `SafeWhileAttached`: with no unplugging no DEV_GONE handler runs
  (`NoneLeaves`), so the pipe and the transfer of the call in progress stay there
  while the lock is given back (`CallHolds`), a semaphore that was given was given by
  the callback that cleared `busy` (`PipesReady`, `GotIsDone`), and so nothing freed,
  deleted or closed is used.  It assumes `~Unplugs` and `~AllocFails`, as the run
  `xfer_safe` does, and not for want of a proof: with either, `MemorySafe` is false
  (`xfer_gone`, and `ErrorsComeBack` in section 16).
- `Counted`, for `TeardownCountTrue`: for all constants, `abandoned` is the number of
  transfers given up and not yet reclaimed; a transfer given up is never a free
  block (`TaggedHeld`), so no callback is counted twice.
- `Reports`, for `ReportsDelivered`: with `Prompt` and without `keep` a pipe has a
  transfer in flight or unread data only for the call in progress (`OnlyTheCalls`),
  and that call hands the data over or the transfer was its own to retire.  With
  `keep` a report is lost (section 16).

**`PcmSinkProofs`.** `IInv == TypeOK /\ UsersCount /\ GateState /\ LockState /\
NoOverrun`.  `GateState` relates where the owner is, the generation and who can
be inside; that close may free on reading `users = 0` is `UsersCount` (the count
is a cardinality, so the lemmas `CountIn`, `CountOut`) with `GateState`; that the
push cannot overrun is `LockState` (one producer, so the head it loaded is still
the head) with arithmetic of the two-lap indices (`AdvanceHead`, `AdvanceTail`).
From it: `GateTypeCorrect`, `NeverInsideAFreedRing`, `OneProducerAtATime`,
`NeverOverruns`, `CountIsExact`.

`ImplementsSink` proves the refinement of `SinkContract`.  The contract's queue is the
bytes between the two indices (`Bytes`); a store of the head appends what was copied
behind it (`HeadAppends`), a store of the tail drops the oldest (`TailDrops`), both
across the end of the storage and both laps.  That what is appended is whole frames
of one call needs one more invariant, `DataOK`: from the reading of the room on, the
length is a whole number of frames that fits, and after the copy those bytes are
behind the head.

**`HostStreamProofs`.** A stop frees on the counter alone, so the counter has to be
exact while stops of the same stream are nested in each other's waits, to any depth.
The invariant is about the stack (`FramesOK`): loops and stops alternate; only
DEV_GONE's loops are ever nested, each for a device of its own that is closing; what
a loop has passed no longer streams; a stop's stream never submits again.  With it
`SlotsOK` (`inflight` is the number of transfers in the library's hands), `HubOK`
(each stream in use of a device that is gone has been told, or a loop on the stack
will come to it), `RootsOK` and `PromptOK` are inductive, and give
`StreamsConsistent` and `StopsAreSafe`.

**`HostNetProofs`.** lwIP's thread looks at `open` and submits later, without the
lock.  `LinkOK` says who keeps it out: it is in the transmitter only with the link
up, and the link comes down only while it is out.  `CallOK` is what the start or stop
in progress has put in place so far, `FlagsOK` that `rx_live` and `tx_busy` are exact,
`HandleOK` who may use the handle, and `PromptOK`, for a library that delivers in
time, whose move it is to give back what is still out, and the claim.  From it:
`NetConsistent`, `FreesNothingInUse`.

**`HostEventsProofs`.** The invariant follows a device through the three places an
event can be in: the handler that is about to push it, the ring, the record the
reader has copied (`TaskOK`, `RingOK`), and says what the records that wait tell
(`TellsOK`), what a snapshot that met no
write of a slot has passed (`SnapOK`) and which losses are still owed
(`LossOK`).  From it `EventsConsistent`, `SnapshotsTrue`, `LossReported`, and the
refinement `RingIsQueue`: a store of the ring's head appends one event to
`EventContract`'s queue, a store of the tail drops the oldest, for any capacity.

**`HostLifeProofs`.** `TaskOK` and `UpOK` say where task and interpreter can be at
once, `LibOK` what the library can hold by then, `HeldOK` that the abandoned count and
the slots cover it, and `PromptOK` that a prompt teardown has emptied it; they give
`LifeConsistent` and `LifeSaysTrue`, also beside a task that hangs.
After a late abandonment the count still covers what a pipe holds; that it is exact, and
a prompt stop unwedged, is proved for `~late`.  All is proved for `~SlowInstall`, the condition
of the run: a task whose install is done after `host_start()` gave up tears down
behind the interpreter's back, and then `NothingSilent` and `StartTruth` are false
(section 4).

**`UsbCoreProofs`.** Every call makes of its object and the bus one of a set of
outcomes.  `Sound` says of an object and a bus, given what the other objects have
claimed, what `TablesAgree` says of the whole; there is one lemma for each kind of
outcome (`FreshSound`, `ClaimSound`, `PassSound`, `ReleaseSound`, `RaiseSound`: it
leaves object and bus sound), and `SoundAfter` makes of it the invariant.  It needs
`DevicesAssumption`: were an endpoint of two interfaces, a fresh claim of one would
reset the toggles of the other on one end.  From it: `Invariance`, `CoreTablesAgree`,
for any number of objects and any devices.

**`ClassesProofs`.** The parts under `MCClasses` share no state, so a step of the whole
is a step of one of them (`OneComponent`), and each has an invariant of its own.

- `HidIInv`, for `KeysAreTrue` and `EventsAreTrue`.  `KeysTrue` speaks of the state with
  nothing under way; what carries it there is that no read holds packets of two
  reports (`ReadsAligned`) and that the newest report, wherever it is, is of the keys
  held now (`ReportUpToDate`).  The first is what a report's last packet being short,
  and a mouse's being of another length, are for; it is stated for lines where a packet
  due comes in time, as `KeysTrue` is.  The events of a report are one for each key that
  changed (`TellsChange`), and after them what is down is what the report says
  (`SeenAfter`), for any finite sets of keys and modifiers.
- `SerialIInv`, for `BytesComeOnce`: where the bytes are, with the types.  A step moves
  the front of one place to the back of the one before it (`Shifts`), which keeps the
  order (`BytesShift`) for packets, reads and pending bytes of any length.
- `EffectIInv`, for `NoNoteIsLeft`.  `NoNoteLeft` says nothing while messages wait.  What
  is inductive: a note that sounds belongs to a key held or something that waits ends
  it (`EndsComing`), and a note-on that waits is of a key held or its note-off waits
  behind it (`StartsOwed`).
- `PortIInv`, for `PortIsTrue`; `TetherIInv`, for `AnswersAreOurs`, which has to follow
  each request's number through the phone's queue of answers to the look that finds it;
  `SessionIInv`, for `FramesAreWhole`, which follows the frame in hand through the steps
  of `write_frame`: one that no session overtook has the length of the session it goes to
  (`InTime`), and in a cut session every piece behind the first still has (`RestOf`: what
  the endpoint leaves of two pieces is a first piece again).
- `CardIInv`, for `VolumeIsTrue`, and `RingIInv` on it, for `PaceIsHeld`: with what the
  feedback says, the ring's level comes back to its target within a bound that the
  drift sets.  `SmallDrift` is that bound: `Target >= 8` and
  `Drift * (Target + 8) < 8 * Target`.  The run's 16 and 5 satisfy it (120 < 128), and a
  drift of 0.8 % at that target does not, nor is it held (section 13).
- `PitchIInv`, for `PitchIsTrue`: every stream is one that an offer gave, going its own
  way at a rate the device can run at if it says any, and the stream started last, if
  it is still that, has its clock.  A start sets the clock its stream goes by and no
  other, and a stream that was on the same one is no longer the last.
- `BotSound` and `Alone`, for `MscConsistent`.  `BotSound` is what each end's fields,
  queues and transfers are at every stage, whatever the other end does and whatever the
  medium refuses.  `Alone`, for a device that is quick: the two ends' stages, the packets
  between them and the call in progress fit together.  `OneWriterOnly` needs only the
  first: a transfer of the computer's that ends after an eject changes nothing.

`Tether!PollsAssumption`, `Hid!KeysAssumption`, `Msc!SizesAssumption` and the others of
`ConstantsAssumption` are all the constants have to meet.  One of them is no range of
a number: `Audio!OffersAssumption` says what the walk of the three sound cards'
descriptors and the choice among their streams come to.  It has `Rate` for its only
constant; what a walk computes is not within the prover's reach, and TLC evaluates it
in the run.

**Model-checked only**

- Liveness, which with ENABLED is beyond the prover: `CallReturns` (of `HostXfer` and of
  `HostNet`), `CloseReturns`, `TeardownEnds`, `LockComesBack`.
- The two findings, which say what does not hold.
- `DriverFits` and `LargestCarried` rest on what a walk of descriptors and a
  sort compute from given devices and modes: TLC evaluates it for each device of the
  run, and for every input it would need induction over data.
- `PrintedTrue`: `MidiMonitor`'s `Feed` is a recursive function over the bytes read, so
  what it computes for every input needs induction over data too; `WatchTrue` compares
  bags, whose `BagOfAll` adds up over a set in the same way.
- `DisplayTrue`: the pixel arithmetic of whole buffers, recursive functions over rows.
- `CommandsTrue`: which data each call ends with and which blocks it has changed.  Proved
  so far is that the ends are in step and that nobody else writes.

## 18. Not modelled

- Isochronous pacing and queue, UVC frame assembly (`usbif_iso_pace.h`,
  `usbif_iso_queue.h`, `usbif_uvc_frame.h`): planned, see section 2.
- Downmix and pump block: sample arithmetic without state.
- The soft-reset guard of `mod_usbif.c` beyond the stop it makes, its argument
  parsing, the class filter (section 5).
- Of the drivers: `Serial`'s line settings and writes, HID's `get_report` and
  descriptors, the speaker's volume from the host's side, `Tether.ifconfig` and
  `config`, stream statistics, `usb_hid`'s enable and disable: each reads or sets one
  value or begins a session.  A SET_CUR of the rate that times out is swallowed like
  a refusal by `Speaker`; the model has only the refusal.
- The other examples (`usb_soundcard`, `midi_device_in` and the like) call one driver
  in a loop.
- The bytes of the descriptors the board sends, and what the C rings do with a packet.
- The tests, tools, patches, docs and the release workflow: not part of the program;
  they were read as statements of what it promises.
