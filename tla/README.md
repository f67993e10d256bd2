# rust-usb in TLA+

This directory holds TLA+ specifications of rust-usb (`src/usb-lib`), the TLC
configurations that check them, and TLAPS proofs about them. Source paths below
are relative to `src/usb-lib/src/`.

    tlc -config MCHotplug.cfg Hotplug.tla          # any run of the table below
    tlapm WinUsbDevice_proofs.tla                  # any *_proofs module

## 1. The system

rust-usb is a synchronous USB host library with one backend per platform, chosen
when it is built. `UsbContext` enumerates and opens devices; `DeviceHandle`
shares one open device between threads; a backend object talks to the driver;
optional tokio wrappers run transfers on a blocking pool; `HotplugHandle`
reports arrivals and removals from a system thread.

| Component | Source | State it keeps | Operations | Interacts with |
|---|---|---|---|---|
| WinUSB device | `backend/windows.rs` | file handle, primary and associated interface handles, endpoint cache | open, claim, release, transfers, settings, policies, Drop | WinUSB (calls that may fail); called under the mutex of `DeviceHandle` |
| Overlapped transfer | `backend/windows.rs` | an event, an `OVERLAPPED`, the caller's buffer, for one call | submit, wait with timeout, cancel, drain | the kernel, which completes requests at any time |
| WinUSB isochronous transfer | `backend/windows.rs` | an event and a buffer registration, for one call | register, submit, wait, unregister | the same |
| Shared handle | `api/device_handle.rs` | `Arc<Mutex<Box<dyn UsbDevice>>>` | clone, drop, 20 methods that lock and delegate | threads; a panic poisons the mutex |
| Tokio wrappers | `api/async_transfers.rs` | the caller's buffer while a call runs | bulk and interrupt reads and writes | clones of the handle in `spawn_blocking` closures that outlive a dropped future |
| Hotplug | `hotplug.rs` | per platform: a worker thread and stop flag (Linux), a CM notification and callback data (Windows), a worker with a run loop, a port, two iterators and contexts (macOS) | register, callbacks, Drop | the kernel's events; the user's callback; the thread that drops |
| Linux device | `backend/linux.rs` | usbdevfs file, endpoint cache | open, claims, settings, transfers, pipes | usbdevfs; the endpoint cache is built by a configuration read |
| Linux isochronous transfer | `backend/linux.rs` | a URB in the stack frame of the call | submit, reap | usbdevfs, signals |
| macOS device | `backend/macos.rs` | device interface, claimed set, pipe cache | open, claims, walk over IOKit interfaces, transfers, settings | IOKit |
| Control transfers and descriptor reads | the three backends | on Windows the timeout of the control pipe | read device, configuration, string, BOS and hub descriptors; control transfers; GET_INTERFACE | the device, which answers as it likes; the parsers |
| Descriptor parsers | `core/descriptor.rs` | none (pure) | `from_bytes` | bytes a device sends |
| Enumeration and open | the three backends, `api/context.rs` | a snapshot of the device list and the entry asked about, for one call | devices, open | udev, IOKit, SetupDi; the bus, which changes meanwhile |
| Trait `UsbDevice` | `backend/mod.rs` | none | what the backends implement | |
| Mock backend, plain data types, ioctl wrappers | several | none that lasts | canned answers, conversions, one system call each | |

What is hard in it, and so what the properties are for: handles that WinUSB gives
out again after they were freed; a claim that fails half way through a scan; a
timeout racing the completion it gave up on; a mutex held while a device does not
answer; a future dropped while its closure goes on; a callback running while its
subscription is dropped; sockets that overflow and polls that are interrupted; a
descriptor cache read in part; a walk over IOKit objects that may fail at every
step with something else held; lengths a device invents and answers it cuts short;
a device list that changes while it is being read. `PROJECT.json` lists
them as hazards, each with its line and the properties that watch it.

What makes each component correct:

- WinUSB device: no handle is lost, dangling or held twice; an endpoint is sent
  to the interface that owns it, and none of an interface that is not claimed is
  reached; a claim says whether it got the interface; Drop
  frees children before parents.
- Overlapped transfer: the kernel is done with the buffer when the function
  returns; a completion in time is not lost; a timeout ends the call.
- Isochronous transfers: the buffer stays registered while it is used; packets
  cover it; a call is answered by its own URB.
- Shared handle: one thread in the backend, no method on a closed device, a
  panic neither hangs the others nor lets them in.
- Tokio wrappers: each call that is neither dropped nor panics gives the buffer back
  at the length it took; data stays in order.
- Hotplug: callbacks only while subscribed; what they use outlives them; nothing
  leaks; what they say agrees with the world, and departures are said; the drop
  returns.
- Linux and macOS devices: caches are right or known to be incomplete; nothing
  is held between calls.
- Control transfers and descriptor reads: what is returned was sent; no request
  asks for more than its buffer holds; a request that a timeout is in force for ends.
- Parsers: no read out of bounds, termination, the right attachment.
- Enumeration: a device that stays is listed once and as it is; its path opens
  it; nothing the system handed out is kept.

## 2. The modules

| Module | Models | State and actions |
|---|---|---|
| `WinUsbDevice` | `WinUsbDevice` of `backend/windows.rs` | The fields of the struct (`usb`, `assoc`, `cache`, `file`), the local variables of the running method (`want`, `idx`, `probe`, with `pc`), and the driver (`kernel`: the interface each handle is open on, `alt`, `timeoutMs`). One action per driver call of `open`, `claim_interface` and `Drop`; one per method that makes one call. |
| `InterfaceClaims` | ownership in the trait `UsbDevice` | Abstract: `open`, `claimed`. |
| `OverlappedTransfer` | `overlapped_read`, `overlapped_write`, `cancel_and_drain_overlapped` | `pc` is the system call the thread is at; `io` is the request as the kernel has it. The kernel's actions interleave with every step. |
| `IsochTransfer`, `LinuxIsoch`, `IsochTransfers` | isochronous transfers of Windows and Linux, and the platform built | As above; `urbs` are the URBs the kernel has, with the stack address each was submitted from. |
| `DeviceHandle` | `api/device_handle.rs` | `clones`, the mutex (`owner`, `poisoned`), `pc` of each thread; methods are told apart by how they end. |
| `AsyncTransfers` | `api/async_transfers.rs` over an INSTANCE of `DeviceHandle` | One task and its calls; the closure of a call is a thread of `DeviceHandle`. |
| `HotplugLinux`, `HotplugWindows`, `HotplugMacOs`, `Hotplug` | the three halves of `hotplug.rs`, and the platform built | The owner, the worker or the CM threads, the kernel's queue, socket or iterators. |
| `HotplugSubscription` | what every `HotplugHandle` promises | Abstract: `phase` of the subscription, number of `calls` running. |
| `LinuxDevice`, `MacOsDevice`, `UnixDevices` | the two other backends, and the platform built | Linux: claims, settings, toggles, endpoint cache with the read it was filled by. macOS: the walk call by call, with the IOKit objects held. |
| `ConfigDescriptor`, `BosDescriptor` | the two `from_bytes` that walk | The walk descriptor by descriptor; lengths and types are whatever the device sent, and zero where it sent nothing (`sent`). |
| `DescriptorReads` | control transfers, descriptor reads and GET_INTERFACE of the three backends, over INSTANCEs of the two parsers | `call` and `pc`; the request on its way (`asked`, `room`, `deadline`); what came of it (`sent`); on Windows the timeout of the control pipe (`ep0`) and whether the driver took the one of the request (`policy`). |
| `Enumeration` | `devices` and `open` of the three backends | `port`: what is attached where; the snapshot left to ask about (`todo`, `current`), the objects held, the result. Devices come and go at any step. |
| `Discovery` | the two above | One or the other: no state is shared but the platform. |
| `WinUsbDevice_proofs`, `OverlappedTransfer_proofs`, `IsochTransfers_proofs`, `DeviceHandle_proofs`, `AsyncTransfers_proofs`, `Hotplug_proofs`, `UnixDevices_proofs`, `Discovery_proofs` | | Theorems, section 5. |
| `MCWinUsbDevice`, `MCUnixDevices`, `MCDiscovery` | | Values of constants that a `.cfg` cannot write. |

`Hotplug`, `IsochTransfers`, `UnixDevices` and `Discovery` put the implementations of one
interface side by side: `platform` is fixed in the initial state, as
`#[cfg(target_os)]` fixes it in the build, and the state of the other platforms
stays as it is.

**Seeded faults.** A definition whose comment begins with "Fault:" is not part
of a specification. It is a plausible bug in the definition that follows it or
that it is named after: replacing the body of the one by a use of the other must
make TLC find a property violated. Each property of each passing run has such a
fault (`PROJECT.json`, "mutants").

## 3. Runs

| Run | Configuration | States | Shows |
|---|---|---|---|
| `winusb_device` | three interfaces whose associated order is not their numbering, interface 1 with two settings; three handle values (each interface open at once, none to spare); timeouts 0 and 100 ms; handle symmetry | 123 372 | Handles accounted for, cache sound, routing, teardown order, outcome of claims, no transfer into an interface that is not claimed, refinement of `InterfaceClaims`. |
| `winusb_setting` | the same, timeout 0 | violation | Finding 1. |
| `overlapped_transfer` | timeouts below, at and above a millisecond and one that saturates; two bytes; three events | 978 | Safety of the buffer and the event, honest results, timeouts. |
| `isoch_transfers` | three buffers, two events; lengths around multiples of packet sizes 0, 2, 3; two stack addresses, three URBs | 53 771 | Registration, packet split, own URB. |
| `isoch_leak`, `linux_isoch_stale` | the component alone | violation | Findings 2 and 3. |
| `device_handle` | three threads | 2 187 | One user of an open device, poison. |
| `device_abort` | two threads | violation | Finding 4. |
| `async_transfers` | three calls; the caller may refill its buffer between them | 634 548 | Buffers, order, completion. |
| `hotplug` | two devices, a socket of two events, two CM threads | 17 397 | All of hotplug. |
| `unix_devices` | two interfaces with two settings, three endpoints; a configuration descriptor with one endpoint in one setting and two in both | 62 436 | Caches, the walk, refinement of `InterfaceClaims`. |
| `discovery` | buffers for a header, two and four descriptors; descriptor lengths on both sides of every branch; short answers of six lengths; a control buffer of 65536 bytes; timeouts of 0, 0.5 and 2 ms. Two ports, two addresses on two buses, three devices, one of them without a bus number (macOS) or a location (Windows) and one too bare to be listed | 182 682 | Bounds and meaning of both parsers, what was sent, calls return, listings exact, paths, objects given back. |

Why the bounds are enough. *Handles*: the bugs in question need a handle freed
and given out again for another interface while something still refers to it;
three values for three interfaces force reuse, and the proofs remove the bound.
*Threads*: two contend, the third waits behind. *Calls*: one abandoned, one
running, one queued. *Socket of two*: full, overflown and partly drained are all
reached; a batch of two is what distinguishes "drain the batch" from "take one".
*Devices*: one that changes and one that must not be disturbed; a third takes the
port or the address that was left. *Lengths*: below, at and above what separates
the branches of a walk (nothing, too short, an endpoint or a capability, an
interface), and 0; answers that end before, in and after a header. *Bytes, events,
buffers, leaks*: bounds of counters, named in the module (`MaxEvents`,
`MaxBuffers`, `MaxLeaks`, `MaxUrbs`, `MaxCalls`, `ScanLimit`); two transfers in a
row are enough to see what the first left behind. `ScanLimit` stands for the 32
indices that `claim_interface` tries (`windows.rs:765`).

Deadlock is checked except where the system does stop: a subscription or device
that is gone for good, a bound on calls or URBs that is used up.

The component modules state a type invariant (`TypeOK`). Each is, or follows from, a
conjunct of a proved invariant (`TypeCorrect` in most proof modules); no run spends a
property on one.

### Fairness

Each module states its fairness in parts named for whose steps they are (`FairLinux`,
`FairThread`, `FairClosure`, `FairCaller`, ...), so that a proof can use one of them.

- `OverlappedTransfer`: weak fairness of the thread's steps and of the kernel
  ending a *cancelled* request. The device is not assumed to answer; the timer of
  `WaitForSingleObject` is.
- `DeviceHandle`: a free mutex is taken by *some* waiting thread (std's mutex is
  not fair, so not by each), a poisoned one is seen by each; a method that waits
  for the device need not return.
- `AsyncTransfers`: the blocking pool runs every closure (its default limit is
  512 threads); a future that is ready is polled; a transfer without a timeout
  need not end.
- Hotplug, Linux: the worker runs and its callback returns or panics; polls are not
  interrupted for ever (strong fairness of `PollReadable`); `join` returns.
- Hotplug, Windows: callbacks return; the owner's calls do not block other than
  for callbacks.
- Hotplug, macOS: the worker runs, callbacks return; the run loop serves each
  notification that keeps having services and stops when it is told to (strong
  fairness, since the loop is not always at the point where it looks).
- `Discovery`: a request whose deadline is not "for ever" is answered or failed by
  the driver; a parser goes on; a thread that lists goes on while devices come
  and go. A request without a deadline need not end.

Liveness is claimed under these and nothing else; where a property needs more (a
drop on Linux needs devices to come to rest, a request on Windows a control pipe
that has a timeout when the driver refuses the caller's), the property says so in its
text.

## 4. Findings

1. `winusb_setting`: `handle_for_endpoint` looks at setting 0 only
   (`backend/windows.rs:562`), so an endpoint that an associated interface has
   only in another setting goes to the primary handle.
2. `isoch_leak`: `?` after `CreateEventW` and `GetOverlappedResult` returns past
   the cleanup that the comment at `backend/windows.rs:1372` says always happens.
3. `linux_isoch_stale`: an interrupted reap leaves a URB in a dead stack frame; a
   later call at the same address takes its completion for its own.
4. `device_abort`: `abort_pipe` waits for the mutex held by the transfer it is to
   abort.

Seen while modelling, in the models, and left without a run of their own:

- WinUSB: `get_pipe_info` asks for setting 0 whatever is selected
  (`windows.rs:930`); a timeout below a millisecond becomes INFINITE
  (`windows.rs:1194`), and on the control pipe leaves the timeout of an earlier
  call in place (`windows.rs:611`); so does a timeout the driver refuses, on every
  pipe, because the result of `WinUsb_SetPipePolicy` is discarded (`windows.rs:591`,
  614; finding 14 of `AUDIT_REPORT.md`), and the request goes on, for ever if the
  pipe had none; failed overlapped transfers leave their event
  open (`windows.rs:1201`, 1205); `read_device_descriptor` decodes 18 bytes
  however few came (`windows.rs:700`).
- Descriptor reads: the second read of a configuration is parsed whatever its
  length, so its last descriptor may be one the device sent in part
  (`linux.rs:505`, `macos.rs:886`, `windows.rs:718`); on Linux an endpoint made of
  it enters the cache and `get_pipe_info` answers with it until the next refresh
  (`linux.rs:529`). A control buffer of 65536 bytes asks for none (`linux.rs:462`,
  `macos.rs:455`). On Linux and macOS a timeout below a millisecond is for ever.
- Tokio wrappers: a read whose future was dropped, or whose closure panicked, leaves
  the caller's Vec empty, and a read made with the empty Vec asks for nothing and
  gives it back empty (`async_transfers.rs:44`, 56).
- `DeviceHandle` is `Clone` though `async_transfers.rs:18` says it is not, so a
  closure whose future was dropped runs beside the next.
- Hotplug: the Linux worker does not look at its stop flag while events keep
  arriving (`hotplug.rs:256`), and a callback that panics ends it without anyone
  being told (`hotplug.rs:263`, 215); macOS reports the removal of devices whose
  arrival it drained silently (`hotplug.rs:537`), and reports as arrived, but never
  as left, a device that arrives after the arrival drain and leaves before the
  removal iterator is added or drained (`hotplug.rs:537`-586).
- Linux: the cache holds the values of the last setting listed, not of the one
  selected (`linux.rs:529`); `abort_pipe` resets the data toggle (`linux.rs:772`).
- macOS: a release whose SET_INTERFACE fails keeps the interface claimed
  (`macos.rs:932`), a failed `USBDeviceOpen` keeps the device interface
  (`macos.rs:416`), transfers ignore their timeout (`macos.rs:984`), and two devices
  whose services have the same address and no bus number (or bus 0) have the same
  key, so that `open` takes the first (`macos.rs:1301`).
- An entry of a Linux listing may be the node of one device with the attributes of
  the next one on its port (`linux.rs:355`); on Linux and macOS a path names an
  address, which is another device's once it is given out again.

## 5. Proofs

A theorem holds for every value of the constants that satisfies the named
assumption of its module; nothing else is assumed. Each safety theorem follows
from an inductive invariant (`InitInv`, `StepInv`, `InvHolds` in each module; the
step lemma has one step per action), because the property by itself does not
survive a step: it says too little about the states between two calls.

| Theorems | Property | Needs |
|---|---|---|
| `WinUsbDevice_proofs`: `InvHolds`, `TypeCorrect`, `HandlesStayAccounted`, `CacheIsSound`, `RoutesToOwner`, `TearsDownInOrder`, `ClaimOutcomeHolds`, `ClaimedOnlyReached`, `ClaimsRefined` | `TypeOK`, `HandlesAccounted`, `CacheSound`, `RouteToOwner`, `TeardownOrder`, `ClaimOutcome`, `ReachesClaimedOnly`, `ImplementsClaims` | `DeviceAssumption`: the primary handle's interface is an interface, the associated order is a sequence of the others; any number of handle values, interfaces and endpoints, any scan limit |
| `OverlappedTransfer_proofs`: `InvHolds`, `TypeCorrect`, `BufferFreeOnReturn`, `ResultsAreHonest`; `TimeoutReturns`, `CompletionIsReported` | `TypeOK`, `ReturnsClean`, `OkCountsBytes`; `TimeoutEndsTransfer`, `CompletionInTimeReported` | `TransferAssumption`: timeouts and limits are numbers |
| `IsochTransfers_proofs`: `InvHolds`, `TypeCorrect`, `RegisteredWhilePending`, `SuccessLeavesNothing`, `OwnUrbAnswers`, `PacketsAlwaysCover` | `TypeOK` of both platforms, `BufferRegisteredWhilePending`, `OkLeavesNothing`, `AnswersFromOwnUrb`, `PacketsCoverBuffer` | `IsochAssumption`: lengths and packet sizes are numbers, the default packet size and the limits are not 0 |
| `DeviceHandle_proofs`: `InvHolds`, `TypeCorrect`, `UsedWhileOpen`, `PoisonHolds`; `WaitersReleased` | `TypeOK`, `OneUserOfOpenDevice`, `PoisonIsFinal`; `PoisonReleasesWaiters` | `ThreadAssumption`: the thread that opens is a thread; any set of threads |
| `AsyncTransfers_proofs`: `InvHolds`, `TypeCorrect`, `HandleUsedRightly`, `BufferReturns`, `ReadsOrdered`, `WritesOrdered`, `PanicIsLast`; `CallInsideCompletes` | `TypeOK`; every step is one `DeviceHandle` allows, and `OneUserOfOpenDevice`; `BufferComesBack`, `ReadsInOrder`, `WritesInOrder`; `PoisonIsFinal` of the handle, for the wrappers; the end of `TimedCallCompletes` | `AsyncAssumption`: the caller is not one of its calls, "nobody" is neither; any number of calls |
| `Hotplug_proofs`: `InvHolds`, `ContextsOutlive`, `NothingLeaks`, `ViewHolds`, `SubscriptionRefined`; `LinuxDropAdvances`, `WindowsDropAdvances`, `MacOsDropReturns` | `ContextOutlivesCallbacks`, `NothingLeaked`, `ViewMatchesWorld`, `ImplementsSubscription`; the rounds of `DropReturnsOnceQuiet` | `HotplugAssumption`: finitely many CM threads, "no event" is not an event; any number of devices and places in the socket |
| `UnixDevices_proofs`: `InvHolds`, `TypeCorrect`, `CacheIsExact`, `MissIsUnreadHolds`, `NothingIsHeld`, `PipeIsRight`, `ClaimsImplemented` | `TypeOK` of both platforms, `SingleSettingExact`, `MissingMeansUnread`, `NothingHeldBetweenCalls`, `PipeIsTheEndpoints`, `ImplementsClaims` | `UnixAssumption`: endpoints belong to interfaces, endpoint 0 has no descriptor, the configuration descriptor is a sequence, made-up values are no descriptor's; any number of interfaces, settings, endpoints and descriptors |
| `Discovery_proofs`, reads: `ReadInvHolds`, `ReadsStayInBounds`, `ParsedRight`, `ReturnedWasSent`; `RequestsHaveDeadlines`, `RequestsEnd`, `WalksAdvance` | `ReadsInBounds`, `ParsedAsDefined`, `DecodedWasSent`; the requests and the rounds of the walks of `CallsReturn` | `ReadsAssumption`: lengths, answers and timeouts are natural numbers, 0 is a length, a length byte has some value; buffers, answers and walks of any length |
| `Discovery_proofs`, enumeration: `EnumInvHolds`, `ListsExactly`, `OpensWhatWasListed`, `ListingHoldsNothing`; `ListingAdvances` | `ListingExact`, `OpenReachesListed`, `NothingHeldBetweenListings`; the rounds of the listing of `CallsReturn` | `DiscoveryAssumption`: the special devices are devices, "nothing" is none of them; any number of ports, devices and addresses |

With these, every invariant, every action property and every refinement that a run
checks is also proved; the theorems after a semicolon are about progress.

The invariants, and what each part is for:

- `WinUsbDevice!Inv`. That no handle is lost (`NoLeak`) and that none is kept
  after it was freed (`NoDangling`) need each other: freeing a handle keeps the
  rest open only if no other field holds the same value (`NoAlias`), and
  `NoAlias` survives the next open only if the value WinUSB returns was not held,
  which `NoDangling` gives. `Lifecycle` says which fields are set at which call.
  `CacheSound` is needed for itself: an entry leads to a held interface because
  `release_interface` drops the entries of what it frees. From it follows
  `ServedIsClaimed`: a handle that an endpoint is looked up to, and that serves it,
  is the one kept for its interface.
- `OverlappedTransfer!Inv`. `Progress` ties the place in the code to the state of
  the request: while the kernel has it, the thread is waiting, cancelling or
  draining; a result that is Ok was collected from a finished request. The
  return is reached only over those places. It drains only what it has asked the
  kernel to cancel, without which the drain might wait for ever.
- `IsochTransfers_proofs`. Windows (`HeldInv`): what the call holds beyond what there
  was before it is known from where it stands, and the kernel works only while the
  call waits. Linux (`UrbInv`): as long as no reap went wrong, the kernel has one URB,
  of the call that is reaping. That the packets add up to the length is about a fold
  over their number: the lemma `PacketsTotalIs` follows it packet by packet.
- `DeviceHandle!Inv`. A thread is inside the backend exactly if it owns the mutex
  (`OwnerIsInside`), and runs a method only through a clone it has (`Borrows`);
  exclusion and "open while used" follow.
- `Inv` of `AsyncTransfers_proofs`. The invariant of `DeviceHandle` is taken over with
  its theorems, because each step is one of that module's or leaves it alone
  (`HandleStep`). A closure is with the handle exactly while it runs (`StageInv`);
  if nothing was dropped, all calls before the awaited one are over (`TurnInv`),
  which orders the writes. An item that a closure has received and not handed over
  is newer than all that were returned only if it is the awaited one's (`ItemInv`):
  that of an abandoned closure is never returned. The length of the buffer went
  with the last read that took it full (`LostWith`), which is awaited, was dropped or
  panicked (`BufInv`): reads after it took, and so give back, an empty one.
- `UnixDevices_proofs`. Nothing is claimed by a device that is not open
  (`ClaimInv`), which the refinement of `InterfaceClaims` needs when it closes. The
  cache is rebuilt from a prefix of the descriptors, whole or cut in one of them:
  the lemmas `CacheOfIs` and `ReadIsExact` say what such a map holds. On macOS what is held is
  known from where the walk stands (`HeldInv`).
- `ReadInv` of `Discovery_proofs`. `ConfigInv` and `BosInv` hold while a buffer is
  parsed and after: the walk stays in the buffer because it starts past the header
  and every descriptor it took lies before `end`, which is at most the buffer's
  length. That only the tail of a configuration is made up needs `Contiguous`: a
  descriptor is passed only from a position whose first byte came, and all before
  it end there. Before the parsers, `asked` is at most `room` from the moment of a
  request, because a 16-bit remainder is never more than the length it is of.
  `Parsed` is what makes `ParsedAsDefined` inductive: the chain ascends to where the
  walk is (`Ascending`), interfaces and endpoints are in its order (`InOrder`), each
  has what the chain gives it (`Attached`), and the next descriptor would belong to
  the last interface and its last endpoint (`Current`). One more descriptor changes
  the meaning of a chain at its end only (`LastGrows`, `ChainGrows`, `OwnedGrows`,
  `NextOwner`), so an interface it does not belong to keeps what it has
  (`StaysAttached`); then there is one lemma per kind of descriptor (`VisitInterface`,
  `VisitEndpoint`, `VisitHid`, `VisitCompanion`, `VisitOther`).
- `EnumInv`. For a port that has not changed since the listing began, whatever is
  known of it, in the snapshot, asked about or listed, is what is attached to it
  (`KnownInv`); each port is in one of the three places only (`OnceInv`) and in one
  of them at least if it is to be listed (`CompleteInv`), which together are
  `ListingExact` when nothing is left to ask. `BusInv`, that no two ports have the
  same device or address, makes a path lead back. What is held follows from the
  stage alone (`HeldInv`).
- `ViewInv` of `Hotplug_proofs`. What the callback was told is right only together
  with what still waits in the socket: of a device with events there the last one
  says whether it is plugged in, of one without the callback does (`Told`).
- `Hotplug!Inv`. Per platform, how the worker (or the CM notification and the
  callback data) follows the subscription; on macOS also exactly what is held at
  every stage of the setup (`HeldAt`), from which the cleanup of each error
  return can be seen to be complete. `SubscriptionRefined` maps each platform to
  (phase, running callbacks). On Windows the second is the number of CM threads
  in the callback, so a step must change a cardinality by one; on macOS a
  callback counts as running while there is an event, so an event must differ
  from "no event".

Induction. The theorems of the library that state induction take the formula as a
parameter, which the installed provers cannot instantiate. Where a proof needs it
(the last element of a finite set in `LastIs` and `LastIndex`, the sum of the
packets), it takes a smallest counterexample instead: the lemma `SmallestSet` gets it
from the well-foundedness of strict inclusion on finite sets, which takes sets as
parameters. What grows with the steps of a specification needs no other induction
than that of its invariant.

Progress. The proof system does not reason about ENABLED, and with it not about when a
fair step must be taken. So the theorems about progress have a hypothesis,
`[]StepsEnabled`, which each of the five modules defines: where the thread, the kernel
or the worker is counted on, its step is enabled. It says nothing of what the step
does or where it leads: that is what is proved. TLC finds it true in every
reachable state of each of them when `INVARIANT StepsEnabled` is added to the
configuration of its run.

- Three liveness properties are proved whole under it. `TimeoutEndsTransfer` goes from
  place to place in the code; while the wait has a timer nothing else is needed, and
  the drain ends because its request is cancelled. `CompletionInTimeReported` needs
  that nothing but the collection takes a finished request away.
  `PoisonReleasesWaiters` needs that a poisoned mutex is never taken again.
- `CallsReturn`, `DropReturnsOnceQuiet` and `TimedCallCompletes` go round a loop or
  wait in a queue, and their last argument is an induction on a measure over a
  temporal formula, which the provers cannot make. What is proved is that every
  round brings the measure down, for each of its values: a walk comes at least two
  bytes closer to the end of its buffer or ends (`WalksAdvance`), a listing has
  fewer entries left or ends (`ListingAdvances`), a drop on Linux has fewer events
  to empty (`LinuxDropAdvances`, with the premise of the property that no events
  come), one on Windows fewer callbacks to wait for (`WindowsDropAdvances`). A drop on
  macOS returns if dispatches end (`MacOsDropReturns`), which takes another such
  induction over the services in the iterator. A request that a timeout is in
  force for (`Limited`) ends because it has a deadline: its own, or, when the driver
  refuses that, the one an earlier call left on the pipe. It stays `Limited` when the
  second request of the call has its policy refused (`RequestsHaveDeadlines`,
  `RequestsEnd`). A timed call completes once it has the
  mutex (`CallInsideCompletes`); that it gets it is about the calls before it.

Only model-checked: `DepartureReported`, which is about strong fairness of the polls
and the dispatches; the inductions just named, that is `CallsReturn`,
`DropReturnsOnceQuiet` and `TimedCallCompletes` as wholes; `StepsEnabled`; and
the four runs that find a violation.

## 6. Abstractions and assumptions

- Contents of descriptors other than their length and type, logging, the text of
  paths and error kinds are left out, except where a property tells them apart
  (Ok, error, timeout).
- WinUSB: the primary handle is on interface 0, as `claim_interface` takes it to
  be. A handle value may be reused as soon as it is freed. The pipe queries of
  `handle_for_endpoint` succeed on open handles. `assoc_handles` is a function
  from interface to handle: the order among associated handles in Drop is any.
- `WinUsb_SetPipePolicy` sets the timeout of a pipe its handle serves, or fails and
  changes nothing; it may fail in every call.
- `CancelIoEx` fails only for a request that is not pending any more.
- `CM_Unregister_Notification` succeeds, begins no callback afterwards and waits
  for those that run. `CFRunLoopStop` is remembered by a loop that has not begun, as
  the comment at `hotplug.rs:589` says: that a drop returns rests on it.
- usbdevfs keeps a data toggle and a halt per endpoint; `LinuxDevice` follows them,
  and no property is about them.
- User callbacks return, or on Linux panic, and do not drop their own subscription.
  On Windows and macOS they run inside an `extern` function, where a panic aborts
  the process: there is nothing left to model.
- usbdevfs identifies a URB by the address it was submitted from, and hands out
  completed URBs in any order.
- What a short answer leaves of a buffer is zero, as the code allocates it: a walk
  ends there, at the latest in the descriptor the answer stopped in.
- A device may answer a control request with any number of bytes up to what was
  asked for, and say another total length each time. The timeout of a Windows
  control pipe is 5 s at first.
- A device list (`scan_devices`, `IOServiceGetMatchingServices`,
  `SetupDiGetClassDevsW`) is a snapshot, taken in one step, and so is what udev
  reads of one entry. A sysfs path names a port; an IOKit service keeps what it
  knew of its device; a WinUSB device path names a device on its port. The strings
  of a Windows entry are read over a handle of their own and may be missing, so
  they are left out.

## 7. Not modelled

- The mock backend: a map from paths to canned descriptors, for tests.
- Plain data types and conversions; the fields of the descriptors, and the
  qualifier descriptor, which nothing reads.
- The ioctl wrappers: one system call each; what they do is in the device modules.
- On Windows `reset_pipe`, `abort_pipe` and the pipe policies other than the
  timeout: one driver call each, of which the library keeps nothing.
- A callback that drops its own subscription (`hotplug.rs:216`).
- Examples and tests, which are read for what they say of the library.

## 8. Plan

Done: the device objects of the three platforms, their transfers, the shared
handle and the wrappers, hotplug, control transfers and descriptor reads, the
parsers, enumeration and open; proofs of every safety property of the runs, and
of the progress that does not need an induction over a temporal formula.

Next, should the provers come to instantiate the induction rules of the library or to
expand ENABLED: discharge `StepsEnabled`, and join the rounds that are proved to
`CallsReturn`, `DropReturnsOnceQuiet` and `TimedCallCompletes`.
