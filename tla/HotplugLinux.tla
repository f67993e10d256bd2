---------------------------- MODULE HotplugLinux ----------------------------
(***************************************************************************)
(* The Linux half of hotplug.rs: a worker thread polls a udev monitor,     *)
(* hands every arrival and removal to the callback, and looks at a stop    *)
(* flag between polls; dropping the subscription sets the flag and joins   *)
(* the worker.  The monitor is a socket the kernel fills; it loses events  *)
(* when it is full.                                                        *)
(***************************************************************************)
EXTENDS Naturals, Sequences

CONSTANTS
    Devices,        \* devices that can be plugged in
    QueueLimit,     \* events the monitor socket holds
    NoEvent

VARIABLES
    plugged,        \* devices that are plugged in
    queue,          \* events in the monitor socket, oldest first
    lost,           \* "yes" once an event did not fit
    stop,           \* the stop flag, "yes" or "no"
    worker,         \* "none", "check", "poll", "iterate", "callback" or "exited"
    event,          \* the event the callback is called with
    seen,           \* seen[d]: what the callback was last told of d
    owner           \* the subscription: "none", "active", "dropping", "gone"

socket == <<queue, lost>>
vars == <<plugged, socket, stop, worker, event, seen, owner>>

Kinds == {"add", "remove", "change"}
Events == [device : Devices, kind : Kinds]
Listening == worker \notin {"none", "exited"}

-----------------------------------------------------------------------------
Init ==
    /\ plugged \in SUBSET Devices
    /\ queue = <<>>
    /\ lost = "no"
    /\ stop = "no"
    /\ worker = "none"
    /\ event = NoEvent
    /\ seen = [d \in Devices |-> "unknown"]
    /\ owner = "none"

\* The kernel: a device comes, goes, or changes; a listening socket gets it.
Change(d, k) ==
    /\ d \in plugged <=> k # "add"
    /\ plugged' = CASE k = "add" -> plugged \cup {d}
                    [] k = "remove" -> plugged \ {d}
                    [] OTHER -> plugged
    /\ CASE Listening /\ Len(queue) < QueueLimit ->
                queue' = Append(queue, [device |-> d, kind |-> k]) /\ UNCHANGED lost
         [] Listening /\ Len(queue) >= QueueLimit ->
                lost' = "yes" /\ UNCHANGED queue
         [] OTHER -> UNCHANGED socket
    /\ UNCHANGED <<stop, worker, event, seen, owner>>

-----------------------------------------------------------------------------
(* The owner                                                               *)

\* register; a monitor that cannot be set up leaves nothing behind.
Register ==
    /\ owner = "none"
    /\ owner' = "active"
    /\ worker' = "check"
    /\ UNCHANGED <<plugged, socket, stop, event, seen>>

\* Fault: the stop flag is not set.
BeginDropWithoutStop ==
    /\ owner = "active"
    /\ owner' = "dropping"
    /\ UNCHANGED <<plugged, socket, stop, worker, event, seen>>

\* unregister, or the handle goes out of scope.
BeginDrop ==
    /\ owner = "active"
    /\ stop' = "yes"
    /\ owner' = "dropping"
    /\ UNCHANGED <<plugged, socket, worker, event, seen>>

Join ==
    /\ owner = "dropping"
    /\ worker = "exited"
    /\ owner' = "gone"
    /\ UNCHANGED <<plugged, socket, stop, worker, event, seen>>

-----------------------------------------------------------------------------
(* The worker                                                              *)

CheckStop ==
    /\ worker = "check"
    /\ IF stop = "yes" THEN worker' = "exited" /\ queue' = <<>>
                       ELSE worker' = "poll" /\ UNCHANGED queue
    /\ UNCHANGED <<plugged, lost, stop, event, seen, owner>>

PollReadable ==
    /\ worker = "poll"
    /\ queue # <<>>
    /\ worker' = "iterate"
    /\ UNCHANGED <<plugged, socket, stop, event, seen, owner>>

\* 250 ms passed.
PollTimesOut ==
    /\ worker = "poll"
    /\ queue = <<>>
    /\ worker' = "check"
    /\ UNCHANGED <<plugged, socket, stop, event, seen, owner>>

\* A signal ended the poll, whatever is in the socket.
PollInterrupted ==
    /\ worker = "poll"
    /\ worker' = "check"
    /\ UNCHANGED <<plugged, socket, stop, event, seen, owner>>

\* The next event of monitor.iter(): the callback is called for arrivals and
\* removals.  The stop flag is not looked at.
NextEvent ==
    /\ worker = "iterate"
    /\ queue # <<>>
    /\ queue' = Tail(queue)
    /\ LET e == Head(queue)
       IN  IF e.kind = "change"
           THEN UNCHANGED <<worker, event, seen>>
           ELSE /\ worker' = "callback"
                /\ event' = e
                /\ seen' = [seen EXCEPT ![e.device] =
                                IF e.kind = "add" THEN "arrived" ELSE "left"]
    /\ UNCHANGED <<plugged, lost, stop, owner>>

CallbackReturns ==
    /\ worker = "callback"
    /\ worker' = "iterate"
    /\ event' = NoEvent
    /\ UNCHANGED <<plugged, socket, stop, seen, owner>>

\* The callback panics: the worker unwinds and the monitor is closed; the owner
\* is not told, and its join ignores the error.
CallbackPanics ==
    /\ worker = "callback"
    /\ worker' = "exited"
    /\ event' = NoEvent
    /\ queue' = <<>>
    /\ UNCHANGED <<plugged, lost, stop, seen, owner>>

\* Fault: the rest of a batch of events is thrown away.
IterationEndsEarly ==
    /\ worker = "iterate"
    /\ queue' = <<>>
    /\ worker' = "check"
    /\ UNCHANGED <<plugged, lost, stop, event, seen, owner>>

\* Nothing is left, or the receive reports that the socket overran.
IterationEnds ==
    /\ worker = "iterate"
    /\ queue = <<>> \/ lost = "yes"
    /\ worker' = "check"
    /\ UNCHANGED <<plugged, socket, stop, event, seen, owner>>

-----------------------------------------------------------------------------
WorkerStep ==
    \/ CheckStop
    \/ PollReadable
    \/ PollTimesOut
    \/ NextEvent
    \/ CallbackReturns
    \/ IterationEnds

Next ==
    \/ \E d \in Devices, k \in Kinds : Change(d, k)
    \/ Register
    \/ BeginDrop
    \/ Join
    \/ WorkerStep
    \/ PollInterrupted
    \/ CallbackPanics

\* The worker runs, its poll ends, its callback returns or panics, and not every poll is
\* interrupted; join returns when the worker has exited.
Fairness == WF_vars(WorkerStep) /\ SF_vars(PollReadable) /\ WF_vars(Join)

Spec == Init /\ [][Next]_vars /\ Fairness

-----------------------------------------------------------------------------
(* Properties                                                              *)

\* Every variable holds a value of its kind; there is an event exactly while
\* the callback runs.
TypeOK ==
    /\ plugged \subseteq Devices
    /\ queue \in Seq(Events)
    /\ lost \in {"yes", "no"}
    /\ stop \in {"yes", "no"}
    /\ worker \in {"none", "check", "poll", "iterate", "callback", "exited"}
    /\ event \in IF worker = "callback" THEN Events ELSE {NoEvent}
    /\ seen \in [Devices -> {"unknown", "arrived", "left"}]
    /\ owner \in {"none", "active", "dropping", "gone"}

\* When the drop has returned, the worker is gone: no callback runs and the
\* monitor is closed with what it held.
NothingRunsAfterDrop ==
    owner = "gone" => worker = "exited" /\ event = NoEvent /\ queue = <<>>

\* How the worker follows its owner.
Lifecycle ==
    /\ worker = "none" <=> owner = "none"
    /\ stop = "yes" <=> owner \in {"dropping", "gone"}
    /\ worker = "exited" => queue = <<>>
    /\ owner = "gone" => worker = "exited"

Inv == TypeOK /\ Lifecycle

\* As long as no event was lost, a callback that has seen every event of a
\* device agrees with the world on whether the device is there.
ViewMatchesWorld ==
    lost = "no" /\ Listening =>
        \A d \in Devices :
            seen[d] # "unknown" /\ (\A i \in DOMAIN queue : queue[i].device # d) =>
                (seen[d] = "arrived" <=> d \in plugged)

\* A device the callback knows of and that has gone is reported, unless it
\* comes back, the subscription ends, an event is lost or a callback panics
\* first.
DepartureReported ==
    \A d \in Devices :
        seen[d] = "arrived" /\ d \notin plugged ~>
            \/ seen[d] = "left" \/ d \in plugged
            \/ owner # "active" \/ lost = "yes" \/ ~Listening

\* The phase of the subscription and the callbacks running, for the contract
\* common to the platforms.
Phase == [none |-> "unregistered", active |-> "active",
          dropping |-> "cancelling", gone |-> "cancelled"][owner]
Calls == IF worker = "callback" THEN 1 ELSE 0
=============================================================================
