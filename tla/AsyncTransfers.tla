--------------------------- MODULE AsyncTransfers ---------------------------
(***************************************************************************)
(* The tokio wrappers of api/async_transfers.rs over DeviceHandle.  A call *)
(* takes the caller's buffer, moves it with a clone of the handle into a   *)
(* spawn_blocking closure, and awaits the closure.  The future borrows the *)
(* caller's handle and buffer, so one task has one call at a time; but it  *)
(* may be dropped at the await, which ends the borrow and leaves the       *)
(* closure running.                                                        *)
(*                                                                         *)
(* Calls are numbered in the order they are made; the closure of a call is *)
(* a thread of DeviceHandle under the number of the call.  The items the   *)
(* device produces are numbered in the order it produces them.             *)
(***************************************************************************)
EXTENDS Naturals, Sequences

CONSTANTS
    MaxCalls,       \* bound on the calls made
    Caller,         \* the task that owns the handle
    Nobody          \* no thread

Calls == 1 .. MaxCalls

ASSUME AsyncAssumption ==
    /\ MaxCalls \in Nat
    /\ Caller \notin Calls
    /\ Nobody \notin Calls \cup {Caller}

VARIABLES
    clones, device, owner, poisoned, pc, method,    \* of DeviceHandle
    made,           \* calls made so far
    future,         \* "awaiting" while the last call's future exists
    stage,          \* stage[k]: of the closure of call k
    kind,           \* kind[k]: "read" or "write"
    buf,            \* the caller's Vec: "full" length, or "empty" once taken
    took,           \* took[k]: the caller's Vec when call k was made
    got,            \* got[k]: the item the closure of read k received, or 0
    items,          \* items the device has produced
    returned,       \* the last item a call returned to the caller
    sent,           \* the writes the device received, in its order
    dropped         \* calls whose future was dropped

handle == <<clones, device, owner, poisoned, pc, method>>
data == <<got, items, returned, sent>>
vars == <<handle, made, future, stage, kind, took, buf, data, dropped>>

H == INSTANCE DeviceHandle WITH Threads <- Calls \cup {Caller}, First <- Caller

Init ==
    /\ H!Init
    /\ made = 0
    /\ future = "none"
    /\ stage = [k \in Calls |-> "unused"]
    /\ kind = [k \in Calls |-> "read"]
    /\ buf = "full"
    /\ took = [k \in Calls |-> "full"]
    /\ got = [k \in Calls |-> 0]
    /\ items = 0
    /\ returned = 0
    /\ sent = <<>>
    /\ dropped = {}

To(k, s) == stage' = [stage EXCEPT ![k] = s]

\* Fault: a call does not wait for the one before it.
BeginPipelined(x) ==
    /\ made < MaxCalls
    /\ made' = made + 1
    /\ H!Clone(Caller, made')
    /\ kind' = [kind EXCEPT ![made'] = x]
    /\ took' = [took EXCEPT ![made'] = buf]
    /\ buf' = IF x = "read" THEN "empty" ELSE buf
    /\ To(made', "queued")
    /\ future' = "awaiting"
    /\ UNCHANGED <<data, dropped>>

\* mem::take, clone and spawn_blocking; a write copies its data instead.
Begin(x) ==
    /\ future = "none"
    /\ made < MaxCalls
    /\ made' = made + 1
    /\ H!Clone(Caller, made')
    /\ kind' = [kind EXCEPT ![made'] = x]
    /\ took' = [took EXCEPT ![made'] = buf]
    /\ buf' = IF x = "read" THEN "empty" ELSE buf
    /\ To(made', "queued")
    /\ future' = "awaiting"
    /\ UNCHANGED <<data, dropped>>

Run(k) ==
    /\ stage[k] = "queued"
    /\ \E m \in {"timed", "forever"} : H!Call(k, m)
    /\ To(k, "running")
    /\ UNCHANGED <<made, future, kind, took, buf, data, dropped>>

Enter(k) ==
    /\ H!Lock(k)
    /\ UNCHANGED <<made, future, stage, kind, took, buf, data, dropped>>

\* The unwrap of a poisoned lock unwinds the closure.
EnterPoisoned(k) ==
    /\ H!LockPoisoned(k)
    /\ To(k, "unwound")
    /\ UNCHANGED <<made, future, kind, took, buf, data, dropped>>

\* A read into an empty buffer receives nothing.
Receive(k) ==
    /\ kind[k] = "read" /\ took[k] = "full"
    /\ items' = items + 1
    /\ got' = [got EXCEPT ![k] = items']
    /\ UNCHANGED sent

Send(k) ==
    /\ kind[k] = "write"
    /\ sent' = Append(sent, k)
    /\ UNCHANGED <<items, got>>

\* The transfer succeeds, or ends in an error or a timeout.
Finish(k) ==
    /\ H!Return(k) \/ H!Answer(k)
    /\ \/ Receive(k)
       \/ Send(k)
       \/ UNCHANGED <<items, got, sent>>
    /\ To(k, "left")
    /\ UNCHANGED <<made, future, kind, took, buf, returned, dropped>>

\* Fault: the panic is caught and no result is sent.
PanicSwallowed(k) ==
    /\ H!Panic(k)
    /\ UNCHANGED <<made, future, stage, kind, took, buf, data, dropped>>

PanicInside(k) ==
    /\ H!Panic(k)
    /\ To(k, "unwound")
    /\ UNCHANGED <<made, future, kind, took, buf, data, dropped>>

\* The closure drops its clone of the handle and its result becomes ready.
End(k) ==
    /\ stage[k] \in {"left", "unwound"}
    /\ H!DropClone(k)
    /\ To(k, IF stage[k] = "left" THEN "ready" ELSE "panicked")
    /\ UNCHANGED <<made, future, kind, took, buf, data, dropped>>

\* Fault: `?' on the result of the transfer comes before the buffer is put back.
CompleteOnSuccessOnly ==
    /\ future = "awaiting"
    /\ stage[made] = "ready"
    /\ buf' = IF got[made] > 0 THEN took[made] ELSE buf
    /\ returned' = IF got[made] > 0 THEN got[made] ELSE returned
    /\ future' = "none"
    /\ UNCHANGED <<handle, made, stage, kind, took, got, items, sent, dropped>>

\* Fault: the result of any closure that is ready is taken.
CompleteFromAny ==
    /\ future = "awaiting"
    /\ \E k \in Calls :
        /\ stage[k] = "ready"
        /\ returned' = IF got[k] > 0 THEN got[k] ELSE returned
    /\ buf' = took[made]
    /\ future' = "none"
    /\ UNCHANGED <<handle, made, stage, kind, took, got, items, sent, dropped>>

\* The caller has the Vec of the length the call took, which is none when it
\* found the Vec empty.
Complete ==
    /\ future = "awaiting"
    /\ stage[made] = "ready"
    /\ buf' = IF kind[made] = "read" THEN took[made] ELSE buf
    /\ returned' = IF got[made] > 0 THEN got[made] ELSE returned
    /\ future' = "none"
    /\ UNCHANGED <<handle, made, stage, kind, took, got, items, sent, dropped>>

\* JoinError: `?' returns before the buffer is put back.
Fail ==
    /\ future = "awaiting"
    /\ stage[made] = "panicked"
    /\ future' = "none"
    /\ UNCHANGED <<handle, made, stage, kind, took, buf, data, dropped>>

DropFuture ==
    /\ future = "awaiting"
    /\ future' = "none"
    /\ dropped' = dropped \cup {made}
    /\ UNCHANGED <<handle, made, stage, kind, took, buf, data>>

\* The caller, whose Vec a call left empty, gives it its length again.
Refill ==
    /\ future = "none"
    /\ buf = "empty"
    /\ buf' = "full"
    /\ UNCHANGED <<handle, made, future, stage, kind, took, data, dropped>>

\* The caller is done with the device.
CallerDrops ==
    /\ future = "none"
    /\ H!DropClone(Caller)
    /\ UNCHANGED <<made, future, stage, kind, took, buf, data, dropped>>

Closure(k) ==
    \/ Run(k)
    \/ Enter(k)
    \/ EnterPoisoned(k)
    \/ Finish(k)
    \/ PanicInside(k)
    \/ End(k)

Next ==
    \/ \E x \in {"read", "write"} : Begin(x)
    \/ \E k \in Calls : Closure(k)
    \/ Complete
    \/ Fail
    \/ DropFuture
    \/ Refill
    \/ CallerDrops

\* The blocking pool has a thread for every closure; the runtime polls a
\* future that is ready.  A transfer without a timeout may never end.
FairClosure(k) ==
    /\ WF_vars(Run(k))
    /\ WF_vars(EnterPoisoned(k))
    /\ WF_vars(Finish(k) /\ method[k] = "timed")
    /\ WF_vars(End(k))
FairLock == WF_vars(\E k \in Calls : Enter(k))
FairCaller == WF_vars(Complete) /\ WF_vars(Fail)

Fairness == (\A k \in Calls : FairClosure(k)) /\ FairLock /\ FairCaller

Spec == Init /\ [][Next]_vars /\ Fairness

-----------------------------------------------------------------------------
(* Properties                                                              *)

\* Every variable holds a value of its kind.
TypeOK ==
    /\ H!TypeOK
    /\ made \in 0 .. MaxCalls
    /\ future \in {"none", "awaiting"}
    /\ stage \in [Calls -> {"unused", "queued", "running", "left", "unwound", "ready", "panicked"}]
    /\ kind \in [Calls -> {"read", "write"}]
    /\ buf \in {"full", "empty"}
    /\ took \in [Calls -> {"full", "empty"}]
    /\ got \in [Calls -> 0 .. MaxCalls]
    /\ items \in 0 .. MaxCalls
    /\ returned \in 0 .. MaxCalls
    /\ sent \in Seq(Calls)
    /\ dropped \subseteq Calls

\* The caller gets its buffer back, at the length it had, from every call but
\* one whose future it dropped or whose closure panicked: where its Vec is empty
\* between calls, the last read that took it full was such a call.  Reads made
\* since with the empty Vec gave it back empty; once the caller has refilled it,
\* no earlier call accounts for an empty one.
BufferComesBack ==
    future = "none" /\ buf = "empty" =>
        \E k \in 1 .. made :
            /\ kind[k] = "read" /\ took[k] = "full"
            /\ k \in dropped \/ stage[k] = "panicked"
            /\ \A j \in k + 1 .. made : kind[j] = "read" => took[j] = "empty"

\* What the calls return is in the order the device produced it, also when
\* abandoned closures read in between.
ReadsInOrder == [][returned' >= returned]_vars

\* A caller that drops no future has its writes reach the device in the order
\* of the calls.
WritesInOrder ==
    dropped = {} => \A i, j \in DOMAIN sent : i < j => sent[i] < sent[j]

\* A call whose transfer has a timeout completes, unless a transfer without one
\* sits in the backend.
TimedCallCompletes ==
    future = "awaiting" /\ stage[made] = "running" /\ method[made] = "timed" ~>
        \/ future = "none"
        \/ \E k \in Calls : pc[k] = "inside" /\ method[k] = "forever"

\* The fair steps can be taken where TimedCallCompletes counts on them once the
\* call has the mutex: the transfer can return, its closure can end and its
\* future be resolved with what the closure left.
StepsEnabled ==
    /\ \A k \in Calls :
        /\ stage[k] = "running" /\ pc[k] = "inside" /\ method[k] = "timed" =>
               ENABLED <<Finish(k) /\ method[k] = "timed">>_vars
        /\ stage[k] \in {"left", "unwound"} => ENABLED <<End(k)>>_vars
    /\ future = "awaiting" /\ stage[made] = "ready" => ENABLED <<Complete>>_vars
    /\ future = "awaiting" /\ stage[made] = "panicked" => ENABLED <<Fail>>_vars
=============================================================================
