---------------------------- MODULE DeviceHandle ----------------------------
(***************************************************************************)
(* DeviceHandle of api/device_handle.rs: an Arc<Mutex<Box<dyn UsbDevice>>> *)
(* whose clones are used from several threads.  Every method is            *)
(*     self.inner.lock().unwrap().method(...)                              *)
(* so the mutex is held while the backend works, which for a transfer      *)
(* without a timeout is until the device answers.  A backend that panics   *)
(* poisons the mutex, and the unwrap of every later call panics.           *)
(***************************************************************************)
EXTENDS FiniteSets

CONSTANTS
    Threads,        \* threads that use the device
    First,          \* the thread that opens it
    Nobody          \* no thread

ASSUME ThreadAssumption == First \in Threads /\ Nobody \notin Threads

(***************************************************************************)
(* Three kinds of method are told apart: "forever" is a transfer without a *)
(* timeout, "abort" is abort_pipe, and "timed" stands for the methods that *)
(* end by themselves.                                                      *)
(***************************************************************************)
Methods == {"forever", "timed", "abort"}

VARIABLES
    clones,         \* threads that own a clone of the handle
    device,         \* the boxed backend device: "open", or "closed" by its Drop
    owner,          \* the thread that holds the mutex
    poisoned,       \* "yes" once a panic unwound through the guard
    pc,             \* pc[t]: "idle", "lock" or "inside" the backend
    method          \* method[t]: the method t is calling

vars == <<clones, device, owner, poisoned, pc, method>>

Init ==
    /\ clones = {First}
    /\ device = "open"
    /\ owner = Nobody
    /\ poisoned = "no"
    /\ pc = [t \in Threads |-> "idle"]
    /\ method = [t \in Threads |-> "timed"]

Clone(t, u) ==
    /\ t \in clones
    /\ u \notin clones
    /\ clones' = clones \cup {u}
    /\ UNCHANGED <<device, owner, poisoned, pc, method>>

\* The last clone drops the backend device.
DropClone(t) ==
    /\ t \in clones
    /\ pc[t] = "idle"
    /\ clones' = clones \ {t}
    /\ device' = IF clones' = {} THEN "closed" ELSE device
    /\ UNCHANGED <<owner, poisoned, pc, method>>

Call(t, m) ==
    /\ t \in clones
    /\ pc[t] = "idle"
    /\ pc' = [pc EXCEPT ![t] = "lock"]
    /\ method' = [method EXCEPT ![t] = m]
    /\ UNCHANGED <<clones, device, owner, poisoned>>

\* Fault: the lock does not exclude.
LockShared(t) ==
    /\ pc[t] = "lock"
    /\ poisoned = "no"
    /\ owner' = t
    /\ pc' = [pc EXCEPT ![t] = "inside"]
    /\ UNCHANGED <<clones, device, poisoned, method>>

\* Fault: into_inner on the PoisonError instead of unwrap.
LockIgnoringPoison(t) ==
    /\ pc[t] = "lock"
    /\ owner = Nobody
    /\ owner' = t
    /\ pc' = [pc EXCEPT ![t] = "inside"]
    /\ UNCHANGED <<clones, device, poisoned, method>>

Lock(t) ==
    /\ pc[t] = "lock"
    /\ owner = Nobody
    /\ poisoned = "no"
    /\ owner' = t
    /\ pc' = [pc EXCEPT ![t] = "inside"]
    /\ UNCHANGED <<clones, device, poisoned, method>>

\* Fault: a poisoned lock is tried again.
LockPoisonedRetries(t) ==
    /\ pc[t] = "lock"
    /\ owner = Nobody
    /\ poisoned = "yes"
    /\ UNCHANGED vars

\* lock() answers PoisonError and the unwrap panics.
LockPoisoned(t) ==
    /\ pc[t] = "lock"
    /\ owner = Nobody
    /\ poisoned = "yes"
    /\ pc' = [pc EXCEPT ![t] = "idle"]
    /\ UNCHANGED <<clones, device, owner, poisoned, method>>

Leave(t) ==
    /\ pc[t] = "inside"
    /\ owner' = Nobody
    /\ pc' = [pc EXCEPT ![t] = "idle"]
    /\ UNCHANGED <<clones, device, method>>

\* The method returns by itself.
Return(t) == method[t] # "forever" /\ Leave(t) /\ UNCHANGED poisoned

\* The device answers the transfer that waits for it.
Answer(t) == method[t] = "forever" /\ Leave(t) /\ UNCHANGED poisoned

Panic(t) == Leave(t) /\ poisoned' = "yes"

Next ==
    \/ \E t, u \in Threads : Clone(t, u)
    \/ \E t \in Threads :
        \/ DropClone(t)
        \/ \E m \in Methods : Call(t, m)
        \/ Lock(t)
        \/ LockPoisoned(t)
        \/ Return(t)
        \/ Answer(t)
        \/ Panic(t)

\* A free mutex is taken by one of the threads that wait for it, not by each
\* in turn; methods other than a transfer without a timeout return.
FairLock == WF_vars(\E t \in Threads : Lock(t))
FairThread(t) == WF_vars(LockPoisoned(t)) /\ WF_vars(Return(t))

Fairness == FairLock /\ \A t \in Threads : FairThread(t)

Spec == Init /\ [][Next]_vars /\ Fairness

-----------------------------------------------------------------------------
(* Properties                                                              *)

\* Every variable holds a value of its kind; the mutex is held by nobody or by
\* a thread that is inside.
TypeOK ==
    /\ clones \subseteq Threads
    /\ device \in {"open", "closed"}
    /\ owner \in {t \in Threads : pc[t] = "inside"} \cup {Nobody}
    /\ poisoned \in {"yes", "no"}
    /\ pc \in [Threads -> {"idle", "lock", "inside"}]
    /\ method \in [Threads -> Methods]

\* At most one thread is inside the backend, whose &self methods change state
\* through raw handles and ioctls and whose type is Send but not Sync.
MutualExclusion ==
    \A t, u \in Threads : pc[t] = "inside" /\ pc[u] = "inside" => t = u

\* The device is closed only when no clone is left, so no method runs on a
\* closed one and none is waiting to.
OpenWhileUsed ==
    /\ device = "open" <=> clones # {}
    /\ \A t \in Threads : pc[t] # "idle" => device = "open"

\* Clones used from several threads never reach the backend at the same time,
\* nor after the last one to be dropped closed it (device_handle.rs:15).
OneUserOfOpenDevice == MutualExclusion /\ OpenWhileUsed

\* The mutex is held exactly by the thread that is inside.
OwnerIsInside ==
    \A t \in Threads : pc[t] = "inside" <=> owner = t

Borrows == \A t \in Threads : pc[t] # "idle" => t \in clones

Inv == TypeOK /\ OwnerIsInside /\ Borrows /\ OpenWhileUsed

\* Once a backend call has panicked, no thread enters the backend again and
\* nothing clears the poison.
PoisonIsFinal ==
    [][poisoned = "yes" =>
        /\ poisoned' = "yes"
        /\ \A t \in Threads : pc[t] # "inside" => pc'[t] # "inside"]_vars

\* After a panic, every call that is waiting ends (in a panic of its own)
\* instead of hanging.
PoisonReleasesWaiters ==
    \A t \in Threads : poisoned = "yes" /\ pc[t] = "lock" ~> pc[t] = "idle"

\* The poisoned lock answers a thread that waits for it, as PoisonReleasesWaiters
\* needs of its fairness.
StepsEnabled ==
    \A t \in Threads :
        pc[t] = "lock" /\ owner = Nobody /\ poisoned = "yes" => ENABLED <<LockPoisoned(t)>>_vars

\* "Abort all pending I/O on a pipe" (backend/mod.rs:110): a thread that calls
\* abort_pipe while another waits for the device ends that wait.
AbortEndsPendingTransfer ==
    \A t, u \in Threads :
        /\ pc[t] = "inside"
        /\ method[t] = "forever"
        /\ pc[u] = "lock"
        /\ method[u] = "abort"
        ~> pc[t] = "idle"
=============================================================================
