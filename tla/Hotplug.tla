------------------------------ MODULE Hotplug ------------------------------
(***************************************************************************)
(* hotplug.rs as it is built: #[cfg(target_os)] selects one of three       *)
(* implementations of the same HotplugHandle.  The platform is fixed when  *)
(* a behaviour begins; the variables the platforms have in common are      *)
(* shared, and those of the platforms that are not built stay as they are. *)
(***************************************************************************)
EXTENDS Naturals, Sequences, FiniteSets

CONSTANTS
    Devices,        \* devices, or the services or symbolic links they appear as
    QueueLimit,     \* events the udev monitor socket holds
    Threads,        \* threads of the Configuration Manager
    NoEvent

ASSUME HotplugAssumption ==
    /\ QueueLimit \in Nat \ {0}
    /\ IsFiniteSet(Threads)
    /\ NoEvent \notin [service : Devices, kind : {"arrival", "removal"}]

VARIABLES
    platform,                               \* "linux", "windows" or "macos"
    owner,                                  \* of every platform
    worker, stop, event, seen,              \* of Linux and macOS
    plugged, queue, lost,                   \* of Linux
    data, hnotify, at, notice,              \* of Windows
    life, held, iterators, chan             \* of macOS

ofLinux == <<plugged, queue, lost>>
ofWindows == <<data, hnotify, at, notice>>
ofMacOs == <<life, held, iterators, chan>>
shared == <<owner, worker, stop, event, seen>>
vars == <<platform, shared, ofLinux, ofWindows, ofMacOs>>

Linux == INSTANCE HotplugLinux
Windows == INSTANCE HotplugWindows
MacOs == INSTANCE HotplugMacOs WITH Services <- Devices

-----------------------------------------------------------------------------
NoLinux == plugged = {} /\ queue = <<>> /\ lost = "no"
NoWindows ==
    /\ data = "none"
    /\ hnotify = "none"
    /\ at = [t \in Threads |-> "idle"]
    /\ notice = [t \in Threads |-> NoEvent]
NoMacOs ==
    /\ life = [d \in Devices |-> "absent"]
    /\ held = {}
    /\ iterators = [k \in MacOs!Kinds |-> {}]
    /\ chan = "empty"
NoWorker ==
    /\ worker = "none"
    /\ stop = "no"
    /\ event = NoEvent
    /\ seen = [d \in Devices |-> "unknown"]

Init ==
    \/ platform = "linux" /\ Linux!Init /\ NoWindows /\ NoMacOs
    \/ platform = "windows" /\ Windows!Init /\ NoLinux /\ NoMacOs /\ NoWorker
    \/ platform = "macos" /\ MacOs!Init /\ NoLinux /\ NoWindows

Next ==
    /\ \/ /\ platform = "linux"
          /\ Linux!Next
          /\ UNCHANGED <<ofWindows, ofMacOs>>
       \/ /\ platform = "windows"
          /\ Windows!Next
          /\ UNCHANGED <<worker, stop, event, seen, ofLinux, ofMacOs>>
       \/ /\ platform = "macos"
          /\ MacOs!Next
          /\ UNCHANGED <<ofLinux, ofWindows>>
    /\ UNCHANGED platform

\* The fairness of the platform that is built.
onLinux == <<owner, worker, stop, event, seen, ofLinux>>
onWindows == <<owner, ofWindows>>
onMacOs == <<owner, worker, stop, event, seen, ofMacOs>>
FairLinux ==
    /\ WF_onLinux(platform = "linux" /\ Linux!WorkerStep)
    /\ SF_onLinux(platform = "linux" /\ Linux!PollReadable)
    /\ WF_onLinux(platform = "linux" /\ Linux!Join)
FairThread(t) == WF_onWindows(platform = "windows" /\ Windows!ThreadStep(t))
FairOwner == WF_onWindows(platform = "windows" /\ Windows!OwnerStep)
FairMacOs ==
    /\ WF_onMacOs(platform = "macos" /\ (MacOs!Setup \/ MacOs!SetupFails))
    /\ WF_onMacOs(platform = "macos" /\ MacOs!Loop)
    /\ \A k \in MacOs!Kinds : SF_onMacOs(platform = "macos" /\ MacOs!Dispatch(k))
    /\ SF_onMacOs(platform = "macos" /\ MacOs!Teardown)
    /\ WF_onMacOs(platform = "macos" /\ MacOs!Receive)
    /\ WF_onMacOs(platform = "macos" /\ MacOs!Join)

Fairness == FairLinux /\ (\A t \in Threads : FairThread(t)) /\ FairOwner /\ FairMacOs

Spec == Init /\ [][Next]_vars /\ Fairness

-----------------------------------------------------------------------------
(* Properties                                                              *)

\* The inductive invariant of the platform that is built.
Inv ==
    /\ platform \in {"linux", "windows", "macos"}
    /\ platform = "linux" => Linux!Inv
    /\ platform = "windows" => Windows!Inv
    /\ platform = "macos" => MacOs!Inv

\* On every platform, callbacks run only between the registration of the
\* subscription and the end of its cancellation, which waits for them.
Contract == INSTANCE HotplugSubscription WITH
    phase <- CASE platform = "linux" -> Linux!Phase
               [] platform = "windows" -> Windows!Phase
               [] platform = "macos" -> MacOs!Phase,
    calls <- CASE platform = "linux" -> Linux!Calls
               [] platform = "windows" -> Cardinality(Windows!Running)
               [] platform = "macos" -> MacOs!Calls
ImplementsSubscription == Contract!Spec

\* As long as no event was lost, a callback that was told of every change of a
\* device (hotplug.rs:256) agrees with the world on whether the device is there.
ViewMatchesWorld == platform = "linux" => Linux!ViewMatchesWorld

\* While cm_callback (hotplug.rs:108) or service_callback (hotplug.rs:381) runs,
\* what it reaches through its raw context pointer is allocated.
ContextOutlivesCallbacks ==
    /\ platform = "windows" => Windows!DataOutlivesCallbacks
    /\ platform = "macos" => MacOs!ContextsOutliveCallbacks

\* A subscription that has ended, or could not be made, has given back what it
\* allocated: the worker has exited and closed the monitor, the callback data
\* is freed, the port, the iterators and the contexts are released.
NothingLeaked ==
    /\ platform = "linux" => Linux!NothingRunsAfterDrop
    /\ platform = "windows" => Windows!DataFreedAtEnd
    /\ platform = "macos" => MacOs!NothingLeaked

\* A device that leaves is reported, unless the subscription ends first: on
\* Linux every device the callback knows of, unless it comes back, an event is
\* lost or a callback has panicked (hotplug.rs:256, 263); on macOS every device
\* that is there once both notifications are armed (hotplug.rs:586), and not one
\* that arrives and leaves between the two.
DepartureReported ==
    /\ platform = "linux" => Linux!DepartureReported
    /\ platform = "macos" => MacOs!DepartureReported

\* The fair steps can be taken where DropReturnsOnceQuiet counts on them: the
\* worker or a thread of the Configuration Manager is never stuck in the middle
\* of its work, and the owner's calls return when what they wait for is there.
StepsEnabled ==
    /\ platform = "linux" /\ worker \in {"check", "poll", "iterate", "callback"} =>
           ENABLED <<platform = "linux" /\ Linux!WorkerStep>>_onLinux
    /\ platform = "linux" /\ owner = "dropping" /\ worker = "exited" =>
           ENABLED <<platform = "linux" /\ Linux!Join>>_onLinux
    /\ \A t \in Threads : platform = "windows" /\ at[t] # "idle" =>
           ENABLED <<platform = "windows" /\ Windows!ThreadStep(t)>>_onWindows
    /\ /\ platform = "windows"
       /\ owner = "unregistered" \/ (owner = "dropping" /\ \A t \in Threads : at[t] = "idle")
       => ENABLED <<platform = "windows" /\ Windows!OwnerStep>>_onWindows
    /\ platform = "macos" /\ worker = "run" /\ stop = "yes" =>
           ENABLED <<platform = "macos" /\ MacOs!Teardown>>_onMacOs
    /\ platform = "macos" /\ owner = "dropping" /\ worker = "exited" =>
           ENABLED <<platform = "macos" /\ MacOs!Join>>_onMacOs

\* The drop returns once devices stop coming and going, however many events
\* are waiting, whatever callbacks are running, also when it comes before the
\* worker's run loop has begun and when a callback has panicked.
DropReturnsOnceQuiet ==
    <>[][Len(queue') < Len(queue)]_queue => (owner = "dropping" ~> owner = "gone")
=============================================================================
