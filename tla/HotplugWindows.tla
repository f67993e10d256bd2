--------------------------- MODULE HotplugWindows ---------------------------
(***************************************************************************)
(* The Windows half of hotplug.rs: the Configuration Manager calls         *)
(* cm_callback on threads of its own, with a raw pointer to the callback   *)
(* data the subscription owns; dropping the subscription unregisters the   *)
(* notification and then frees the data.                                   *)
(*                                                                         *)
(* External: once CM_Unregister_Notification is called, CM begins no       *)
(* callback, and the call waits for those that are running.                *)
(***************************************************************************)
EXTENDS Naturals

CONSTANTS
    Threads,        \* threads of the Configuration Manager
    Devices,        \* symbolic links
    NoEvent

VARIABLES
    owner,      \* "none", "registering", "active", "dropping", "unregistered",
                \* "gone", or "failed"
    data,       \* the Arc<CallbackData>: "none", "live", "freed"
    hnotify,    \* the notification: "none", "open", "closing", "closed"
    at,         \* at[t]: "idle", "entered", "callback"
    notice      \* notice[t]: what CM called thread t with

vars == <<owner, data, hnotify, at, notice>>

Actions == {"arrival", "removal", "other"}
Notices == [device : Devices, action : Actions]
Running == {t \in Threads : at[t] = "callback"}

Init ==
    /\ owner = "none"
    /\ data = "none"
    /\ hnotify = "none"
    /\ at = [t \in Threads |-> "idle"]
    /\ notice = [t \in Threads |-> NoEvent]

-----------------------------------------------------------------------------
(* register                                                                *)

NewCallbackData ==
    /\ owner = "none"
    /\ owner' = "registering"
    /\ data' = "live"
    /\ UNCHANGED <<hnotify, at, notice>>

CmRegister ==
    /\ owner = "registering"
    /\ hnotify = "none"
    /\ hnotify' = "open"
    /\ UNCHANGED <<owner, data, at, notice>>

\* The error return drops the data.
CmRegisterFails ==
    /\ owner = "registering"
    /\ hnotify = "none"
    /\ data' = "freed"
    /\ owner' = "failed"
    /\ UNCHANGED <<hnotify, at, notice>>

RegisterReturns ==
    /\ owner = "registering"
    /\ hnotify = "open"
    /\ owner' = "active"
    /\ UNCHANGED <<data, hnotify, at, notice>>

-----------------------------------------------------------------------------
(* cm_callback, on a thread of CM; also while register has not returned    *)

Notify(t, n) ==
    /\ hnotify = "open"
    /\ at[t] = "idle"
    /\ at' = [at EXCEPT ![t] = "entered"]
    /\ notice' = [notice EXCEPT ![t] = n]
    /\ UNCHANGED <<owner, data, hnotify>>

\* Actions other than arrival and removal return before the data is touched.
Dispatch(t) ==
    /\ at[t] = "entered"
    /\ IF notice[t].action = "other"
       THEN /\ at' = [at EXCEPT ![t] = "idle"]
            /\ notice' = [notice EXCEPT ![t] = NoEvent]
       ELSE /\ at' = [at EXCEPT ![t] = "callback"]
            /\ UNCHANGED notice
    /\ UNCHANGED <<owner, data, hnotify>>

CallbackReturns(t) ==
    /\ at[t] = "callback"
    /\ at' = [at EXCEPT ![t] = "idle"]
    /\ notice' = [notice EXCEPT ![t] = NoEvent]
    /\ UNCHANGED <<owner, data, hnotify>>

-----------------------------------------------------------------------------
(* Drop                                                                    *)

BeginDrop ==
    /\ owner = "active"
    /\ owner' = "dropping"
    /\ hnotify' = "closing"
    /\ UNCHANGED <<data, at, notice>>

\* Fault: the notification is unregistered without waiting for callbacks.
CmUnregisterNoWait ==
    /\ owner = "dropping"
    /\ hnotify' = "closed"
    /\ owner' = "unregistered"
    /\ UNCHANGED <<data, at, notice>>

CmUnregister ==
    /\ owner = "dropping"
    /\ \A t \in Threads : at[t] = "idle"
    /\ hnotify' = "closed"
    /\ owner' = "unregistered"
    /\ UNCHANGED <<data, at, notice>>

\* The fields are dropped after the body of Drop::drop.
FreeCallbackData ==
    /\ owner = "unregistered"
    /\ data' = "freed"
    /\ owner' = "gone"
    /\ UNCHANGED <<hnotify, at, notice>>

-----------------------------------------------------------------------------
ThreadStep(t) == Dispatch(t) \/ CallbackReturns(t)

OwnerStep ==
    \/ CmRegister
    \/ CmRegisterFails
    \/ RegisterReturns
    \/ CmUnregister
    \/ FreeCallbackData

Next ==
    \/ NewCallbackData
    \/ OwnerStep
    \/ BeginDrop
    \/ \E t \in Threads : ThreadStep(t) \/ \E n \in Notices : Notify(t, n)

\* Callbacks return; the calls register and Drop make do not block but for
\* CM_Unregister_Notification waiting for the callbacks.
Fairness ==
    /\ \A t \in Threads : WF_vars(ThreadStep(t))
    /\ WF_vars(OwnerStep)

Spec == Init /\ [][Next]_vars /\ Fairness

-----------------------------------------------------------------------------
(* Properties                                                              *)

\* Every variable holds a value of its kind; the callback is only called for
\* arrivals and removals.
TypeOK ==
    /\ owner \in {"none", "registering", "active", "dropping", "unregistered",
                  "gone", "failed"}
    /\ data \in {"none", "live", "freed"}
    /\ hnotify \in {"none", "open", "closing", "closed"}
    /\ at \in [Threads -> {"idle", "entered", "callback"}]
    /\ notice \in [Threads -> Notices \cup {NoEvent}]
    /\ \A t \in Threads :
           notice[t] \in CASE at[t] = "idle" -> {NoEvent}
                           [] at[t] = "entered" -> Notices
                           [] at[t] = "callback" ->
                                  [device : Devices, action : {"arrival", "removal"}]

\* cm_callback only ever runs while the data it was given a raw pointer to is
\* allocated (the SAFETY argument of cm_callback).
DataOutlivesCallbacks == (\E t \in Threads : at[t] # "idle") => data = "live"

\* How the data and the notification follow their owner.
Lifecycle ==
    /\ data = "none" <=> owner = "none"
    /\ data = "freed" <=> owner \in {"gone", "failed"}
    /\ hnotify = "closed" <=> owner \in {"unregistered", "gone"}
    /\ owner \in {"none", "failed"} => hnotify = "none"
    /\ owner = "active" => hnotify = "open"
    /\ owner = "dropping" <=> hnotify = "closing"
    /\ hnotify \in {"none", "closed"} => \A t \in Threads : at[t] = "idle"

Inv == TypeOK /\ Lifecycle

\* Dropping the subscription, or failing to register it, frees the data.
DataFreedAtEnd == owner \in {"gone", "failed"} => data = "freed"

\* The phase of the subscription, for the contract common to the platforms;
\* callbacks may run as soon as CM has the notification.
Phase == CASE hnotify = "none" -> "unregistered"
           [] hnotify = "open" -> "active"
           [] hnotify = "closing" -> "cancelling"
           [] hnotify = "closed" -> "cancelled"
=============================================================================
