---------------------------- MODULE HotplugMacOs ----------------------------
(***************************************************************************)
(* The macOS half of hotplug.rs: a worker thread sets up a notification    *)
(* port with two notifications (arrival, removal), sends its run loop to   *)
(* the thread that registers, runs the loop until it is stopped and frees  *)
(* what it set up; every failure on the way frees what exists so far and   *)
(* sends a null run loop.                                                  *)
(*                                                                         *)
(* External: a service is one attachment of a device; a notification's     *)
(* iterator collects the services that match from the moment it is added.  *)
(* CFRunLoopStop is remembered by a loop that does not run yet, as the     *)
(* comment in register says.                                               *)
(***************************************************************************)
EXTENDS Naturals

CONSTANTS
    Services,       \* services that can appear
    NoEvent

VARIABLES
    life,       \* life[s]: "absent", "present", "terminated"
    worker,     \* where the worker is
    held,       \* what the worker has allocated and not freed
    iterators,  \* iterators[k]: the services waiting in the iterator of k
    chan,       \* the channel: "empty", "null", "loop"
    stop,       \* the run loop has been told to stop, "yes" or "no"
    event,      \* the event the callback is called with
    seen,       \* seen[s]: what the callback was last told of s
    owner       \* "none", "waiting", "active", "dropping", "gone", or "failed"

vars == <<life, worker, held, iterators, chan, stop, event, seen, owner>>

Kinds == {"arrival", "removal"}
Events == [service : Services, kind : Kinds]
Context(k) == IF k = "arrival" THEN "arrived_ctx" ELSE "removed_ctx"
Iterator(k) == IF k = "arrival" THEN "arrived_iter" ELSE "removed_iter"
Resources == {"port"} \cup {Context(k) : k \in Kinds} \cup {Iterator(k) : k \in Kinds}
Collecting(k) == Iterator(k) \in held

Init ==
    /\ life \in [Services -> {"absent", "present"}]
    /\ worker = "none"
    /\ held = {}
    /\ iterators = [k \in Kinds |-> {}]
    /\ chan = "empty"
    /\ stop = "no"
    /\ event = NoEvent
    /\ seen = [s \in Services |-> "unknown"]
    /\ owner = "none"

-----------------------------------------------------------------------------
(* IOKit                                                                   *)

Collect(k, s) ==
    iterators' = IF Collecting(k) THEN [iterators EXCEPT ![k] = @ \cup {s}]
                                  ELSE iterators

Appear(s) ==
    /\ life[s] = "absent"
    /\ life' = [life EXCEPT ![s] = "present"]
    /\ Collect("arrival", s)
    /\ UNCHANGED <<worker, held, chan, stop, event, seen, owner>>

Terminate(s) ==
    /\ life[s] = "present"
    /\ life' = [life EXCEPT ![s] = "terminated"]
    /\ Collect("removal", s)
    /\ UNCHANGED <<worker, held, chan, stop, event, seen, owner>>

-----------------------------------------------------------------------------
(* The thread that registers and drops                                     *)

Register ==
    /\ owner = "none"
    /\ owner' = "waiting"
    /\ worker' = "port"
    /\ UNCHANGED <<life, held, iterators, chan, stop, event, seen>>

ReceiveLoop ==
    /\ owner = "waiting"
    /\ chan = "loop"
    /\ owner' = "active"
    /\ UNCHANGED <<life, worker, held, iterators, chan, stop, event, seen>>

\* A null run loop: join the worker, return the error.
ReceiveNull ==
    /\ owner = "waiting"
    /\ chan = "null"
    /\ worker = "exited"
    /\ owner' = "failed"
    /\ UNCHANGED <<life, worker, held, iterators, chan, stop, event, seen>>

\* CFRunLoopStop, then join.
BeginDrop ==
    /\ owner = "active"
    /\ stop' = "yes"
    /\ owner' = "dropping"
    /\ UNCHANGED <<life, worker, held, iterators, chan, event, seen>>

Join ==
    /\ owner = "dropping"
    /\ worker = "exited"
    /\ owner' = "gone"
    /\ UNCHANGED <<life, worker, held, iterators, chan, stop, event, seen>>

-----------------------------------------------------------------------------
(* The worker: setup                                                       *)

\* IONotificationPortCreate
CreatePort ==
    /\ worker = "port"
    /\ held' = {"port"}
    /\ worker' = "source"
    /\ UNCHANGED <<life, iterators, chan, stop, event, seen, owner>>

\* IONotificationPortGetRunLoopSource
AddSource ==
    /\ worker = "source"
    /\ worker' = "arrival"
    /\ UNCHANGED <<life, held, iterators, chan, stop, event, seen, owner>>

\* The context, IOServiceMatching, IOServiceAddMatchingNotification; the
\* iterator starts with the services that match already (none terminates at
\* that moment).
AddNotification(k, next) ==
    /\ worker = k
    /\ held' = held \cup {Context(k), Iterator(k)}
    /\ iterators' = [iterators EXCEPT ![k] =
                        IF k = "arrival" THEN {s \in Services : life[s] = "present"}
                                         ELSE {}]
    /\ worker' = next
    /\ UNCHANGED <<life, chan, stop, event, seen, owner>>

\* drain_iterator_silent
DrainSilently(k, next) ==
    /\ worker = IF k = "arrival" THEN "drain_arrival" ELSE "drain_removal"
    /\ iterators' = [iterators EXCEPT ![k] = {}]
    /\ worker' = next
    /\ UNCHANGED <<life, held, chan, stop, event, seen, owner>>

\* Fault: the second failure path forgets the context of the first notification.
CleanupForgetsContext ==
    [port |-> {}, source |-> {"port"}, arrival |-> {"arrived_ctx", "port"},
     removal |-> {"removed_ctx", "arrived_iter", "port"}]

\* What the error returns free, by the stage that failed.
Cleanup == [port |-> {}, source |-> {"port"}, arrival |-> {"arrived_ctx", "port"},
            removal |-> {"removed_ctx", "arrived_ctx", "arrived_iter", "port"}]

\* A stage fails: its context, if it has one, is allocated by then.
SetupFails ==
    /\ worker \in DOMAIN Cleanup
    /\ held' = (held \cup IF worker \in Kinds THEN {Context(worker)} ELSE {})
                    \ Cleanup[worker]
    /\ iterators' = [k \in Kinds |-> {}]
    /\ chan' = "null"
    /\ worker' = "exited"
    /\ UNCHANGED <<life, stop, event, seen, owner>>

\* Fault: the contexts are dropped at the end of the setup.
SendLoopDropsContexts ==
    /\ worker = "send"
    /\ held' = held \ {Context(k) : k \in Kinds}
    /\ chan' = "loop"
    /\ worker' = "run"
    /\ UNCHANGED <<life, iterators, stop, event, seen, owner>>

SendLoop ==
    /\ worker = "send"
    /\ chan' = "loop"
    /\ worker' = "run"
    /\ UNCHANGED <<life, held, iterators, stop, event, seen, owner>>

-----------------------------------------------------------------------------
(* The worker: the run loop                                                *)

\* service_callback of one notification: the callback is called for every
\* service IOIteratorNext returns until there is none.  The loop is not asked
\* to stop in between.
Dispatch(k) ==
    /\ worker = "run"
    /\ iterators[k] # {}
    /\ worker' = IF k = "arrival" THEN "next_arrival" ELSE "next_removal"
    /\ UNCHANGED <<life, held, iterators, chan, stop, event, seen, owner>>

IteratorOf == [next_arrival |-> "arrival", next_removal |-> "removal"]

NextService(s) ==
    /\ worker \in DOMAIN IteratorOf
    /\ event = NoEvent
    /\ LET k == IteratorOf[worker]
       IN  /\ s \in iterators[k]
           /\ iterators' = [iterators EXCEPT ![k] = @ \ {s}]
           /\ event' = [service |-> s, kind |-> k]
           /\ seen' = [seen EXCEPT ![s] = IF k = "arrival" THEN "arrived" ELSE "left"]
    /\ UNCHANGED <<life, worker, held, chan, stop, owner>>

CallbackReturns ==
    /\ event # NoEvent
    /\ event' = NoEvent
    /\ UNCHANGED <<life, worker, held, iterators, chan, stop, seen, owner>>

\* Fault: both iterators are drained once one of them has been served.
DispatchEndsDraining ==
    /\ worker \in DOMAIN IteratorOf
    /\ event = NoEvent
    /\ iterators[IteratorOf[worker]] = {}
    /\ iterators' = [k \in Kinds |-> {}]
    /\ worker' = "run"
    /\ UNCHANGED <<life, held, chan, stop, event, seen, owner>>

DispatchEnds ==
    /\ worker \in DOMAIN IteratorOf
    /\ event = NoEvent
    /\ iterators[IteratorOf[worker]] = {}
    /\ worker' = "run"
    /\ UNCHANGED <<life, held, iterators, chan, stop, event, seen, owner>>

\* CFRunLoopRun returns, and the worker frees everything.
Teardown ==
    /\ worker = "run"
    /\ stop = "yes"
    /\ held' = held \ {"arrived_iter", "removed_iter", "port", "arrived_ctx", "removed_ctx"}
    /\ iterators' = [k \in Kinds |-> {}]
    /\ worker' = "exited"
    /\ UNCHANGED <<life, chan, stop, event, seen, owner>>

-----------------------------------------------------------------------------
Setup ==
    \/ CreatePort
    \/ AddSource
    \/ AddNotification("arrival", "drain_arrival")
    \/ DrainSilently("arrival", "removal")
    \/ AddNotification("removal", "drain_removal")
    \/ DrainSilently("removal", "send")
    \/ SendLoop

Loop ==
    \/ \E k \in Kinds : Dispatch(k)
    \/ \E s \in Services : NextService(s)
    \/ CallbackReturns
    \/ DispatchEnds

Receive == ReceiveLoop \/ ReceiveNull

Next ==
    \/ \E s \in Services : Appear(s) \/ Terminate(s)
    \/ Register
    \/ Receive
    \/ BeginDrop
    \/ Join
    \/ Setup
    \/ SetupFails
    \/ Loop
    \/ Teardown

\* The worker runs and its callbacks return; a stopped loop ends, whatever is
\* still waiting; a notification that has services is dispatched.
Fairness ==
    /\ WF_vars(Setup \/ SetupFails)
    /\ WF_vars(Loop)
    /\ \A k \in Kinds : SF_vars(Dispatch(k))
    /\ SF_vars(Teardown)
    /\ WF_vars(Receive)
    /\ WF_vars(Join)

Spec == Init /\ [][Next]_vars /\ Fairness

-----------------------------------------------------------------------------
(* Properties                                                              *)

\* Every variable holds a value of its kind; the callback is called with what
\* the notification that is dispatched is for.
TypeOK ==
    /\ life \in [Services -> {"absent", "present", "terminated"}]
    /\ worker \in {"none", "port", "source", "arrival", "drain_arrival", "removal",
                   "drain_removal", "send", "run", "next_arrival", "next_removal",
                   "exited"}
    /\ held \subseteq Resources
    /\ iterators \in [Kinds -> SUBSET Services]
    /\ chan \in {"empty", "null", "loop"}
    /\ stop \in {"yes", "no"}
    /\ event \in IF worker \in DOMAIN IteratorOf
                THEN [service : Services, kind : {IteratorOf[worker]}] \cup {NoEvent}
                ELSE {NoEvent}
    /\ seen \in [Services -> {"unknown", "arrived", "left"}]
    /\ owner \in {"none", "waiting", "active", "dropping", "gone", "failed"}

\* What the worker holds at each stage.
HeldAt ==
    LET arrival == {"port", "arrived_ctx", "arrived_iter"}
    IN  [none |-> {}, port |-> {}, source |-> {"port"}, arrival |-> {"port"},
         drain_arrival |-> arrival, removal |-> arrival,
         drain_removal |-> Resources, send |-> Resources, run |-> Resources,
         next_arrival |-> Resources, next_removal |-> Resources, exited |-> {}]

\* How the worker, the channel and the subscription follow each other.
Lifecycle ==
    /\ held = HeldAt[worker]
    /\ worker = "none" <=> owner = "none"
    /\ worker \in {"run", "next_arrival", "next_removal"} => chan = "loop"
    /\ chan = "empty" <=> worker \notin {"run", "next_arrival", "next_removal", "exited"}
    /\ owner \in {"active", "dropping", "gone"} => chan = "loop"
    /\ owner = "failed" => chan = "null"
    /\ owner \in {"gone", "failed"} => worker = "exited"

Inv == TypeOK /\ Lifecycle

\* A worker that has exited, from whatever stage of the setup or after the run
\* loop, has freed the port, both iterators and both contexts.
NothingLeaked == worker = "exited" => held = {}

\* While service_callback runs, its context, its iterator and the port exist
\* (the SAFETY argument of service_callback).
ContextsOutliveCallbacks ==
    worker \in DOMAIN IteratorOf =>
        LET k == IteratorOf[worker] IN {"port", Context(k), Iterator(k)} \subseteq held

\* From here on the removal notification reports what terminates.
Armed == worker \in {"send", "run", "next_arrival", "next_removal"}

\* A service that is present once the removal notification is armed, and then
\* terminates, is reported as having left, unless the subscription ends first.
\* It may be so before its arrival is, when both iterators have something.  One
\* that appears after the arrival drain and terminates before the removal drain
\* is not promised this, and the code reports its arrival alone: the removal
\* iterator, added later and drained in silence, never returns it.
DepartureReported ==
    \A s \in Services :
        Armed /\ life[s] = "present" /\ <>(life[s] = "terminated") ~>
            \/ event = [service |-> s, kind |-> "removal"]
            \/ owner \notin {"waiting", "active"}

\* The phase of the subscription and the callbacks running, for the contract
\* common to the platforms; callbacks may run from the moment the worker has
\* sent its run loop.
Phase == CASE owner = "gone" -> "cancelled"
           [] owner = "dropping" -> "cancelling"
           [] owner \notin {"dropping", "gone"} /\ chan = "loop" -> "active"
           [] OTHER -> "unregistered"
Calls == IF event = NoEvent THEN 0 ELSE 1
=============================================================================
