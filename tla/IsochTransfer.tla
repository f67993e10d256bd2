--------------------------- MODULE IsochTransfer ---------------------------
(***************************************************************************)
(* isoch_transfer_read and isoch_transfer_write of backend/windows.rs: the *)
(* caller's buffer is registered with WinUSB, one isochronous request is   *)
(* issued on it and waited for without a timeout, and the registration and *)
(* the event are given back.  The two functions differ only in direction.  *)
(*                                                                         *)
(* WaitForSingleObject with INFINITE on the event this function created    *)
(* returns only when it is signalled, so the branch that answers Timeout   *)
(* is never taken.                                                         *)
(***************************************************************************)
EXTENDS Integers

CONSTANTS
    Lengths,        \* lengths of the buffers callers pass
    MaxEvents,      \* bound on the event objects open at a time
    MaxBuffers      \* bound on the buffers registered at a time

VARIABLES
    pc,             \* where the running transfer is; "idle" between transfers
    length,         \* length of its buffer
    io,             \* its request: "none", "pending", "done", "failed"
    moved,          \* bytes the controller moved for it
    registered,     \* buffers registered with WinUSB
    events,         \* event objects open
    before,         \* the two counts when the transfer was called
    result          \* what the last transfer returned

held == <<registered, events>>
vars == <<pc, length, io, moved, held, before, result>>

Ok(n) == [ok |-> TRUE, bytes |-> n]
Err == [ok |-> FALSE]

-----------------------------------------------------------------------------
Init ==
    /\ pc = "idle"
    /\ length = 0
    /\ io = "none"
    /\ moved = 0
    /\ registered = 0
    /\ events = 0
    /\ before = <<0, 0>>
    /\ result = Ok(0)

Return(r) == result' = r /\ pc' = "idle"

\* An empty buffer is not registered at all.
Call(n) ==
    /\ pc = "idle"
    /\ length' = n
    /\ before' = held
    /\ io' = "none"
    /\ moved' = 0
    /\ IF n = 0 THEN Return(Ok(0)) ELSE pc' = "register" /\ UNCHANGED result
    /\ UNCHANGED held

RegisterBuffer ==
    /\ pc = "register"
    /\ registered < MaxBuffers
    /\ registered' = registered + 1
    /\ pc' = "create"
    /\ UNCHANGED <<length, io, moved, events, before, result>>

RegisterFails ==
    /\ pc = "register"
    /\ Return(Err)
    /\ UNCHANGED <<length, io, moved, held, before>>

CreateEvent ==
    /\ pc = "create"
    /\ events < MaxEvents
    /\ events' = events + 1
    /\ pc' = "submit"
    /\ UNCHANGED <<length, io, moved, registered, before, result>>

\* `?' returns past WinUsb_UnregisterIsochBuffer.
CreateEventFails ==
    /\ pc = "create"
    /\ Return(Err)
    /\ UNCHANGED <<length, io, moved, held, before>>

\* The request is done, or has failed, when the call returns TRUE, ...
SubmitCompletes(n) ==
    /\ pc = "submit"
    /\ io' \in {"done", "failed"}
    /\ moved' = n
    /\ pc' = "collect"
    /\ UNCHANGED <<length, held, before, result>>

\* Fault: ERROR_IO_PENDING is taken for a refusal.
SubmitPendsAsError ==
    /\ pc = "submit"
    /\ io' = "pending"
    /\ result' = Err
    /\ pc' = "cleanup"
    /\ UNCHANGED <<length, moved, held, before>>

\* ... or is left with the kernel, ...
SubmitPends ==
    /\ pc = "submit"
    /\ io' = "pending"
    /\ pc' = "wait"
    /\ UNCHANGED <<length, moved, held, before, result>>

\* ... or is refused.
SubmitFails ==
    /\ pc = "submit"
    /\ result' = Err
    /\ pc' = "cleanup"
    /\ UNCHANGED <<length, io, moved, held, before>>

WaitSignalled ==
    /\ pc = "wait"
    /\ io # "pending"
    /\ pc' = "collect"
    /\ UNCHANGED <<length, io, moved, held, before, result>>

\* GetOverlappedResult; `?' returns past the cleanup.
Collect ==
    /\ pc = "collect"
    /\ IF io = "done" THEN result' = Ok(moved) /\ pc' = "cleanup"
                      ELSE Return(Err)
    /\ UNCHANGED <<length, io, moved, held, before>>

\* Fault: the buffer stays registered.
CleanupEventOnly ==
    /\ pc = "cleanup"
    /\ events' = events - 1
    /\ pc' = "idle"
    /\ UNCHANGED <<length, io, moved, registered, before, result>>

Cleanup ==
    /\ pc = "cleanup"
    /\ registered' = registered - 1
    /\ events' = events - 1
    /\ pc' = "idle"
    /\ UNCHANGED <<length, io, moved, before, result>>

\* The controller finishes with the request.
Complete(n) ==
    /\ io = "pending"
    /\ io' = "done"
    /\ moved' = n
    /\ UNCHANGED <<pc, length, held, before, result>>

Fail ==
    /\ io = "pending"
    /\ io' = "failed"
    /\ UNCHANGED <<pc, length, moved, held, before, result>>

-----------------------------------------------------------------------------
Step ==
    \/ RegisterBuffer
    \/ RegisterFails
    \/ CreateEvent
    \/ CreateEventFails
    \/ \E n \in 0 .. length : SubmitCompletes(n)
    \/ SubmitPends
    \/ SubmitFails
    \/ WaitSignalled
    \/ Collect
    \/ Cleanup

Controller == Fail \/ \E n \in 0 .. length : Complete(n)

Next ==
    \/ \E n \in Lengths : Call(n)
    \/ Step
    \/ Controller

Spec == Init /\ [][Next]_vars

-----------------------------------------------------------------------------
(* Properties                                                              *)

\* Every variable holds a value of its kind.
TypeOK ==
    /\ pc \in {"idle", "register", "create", "submit", "wait", "collect", "cleanup"}
    /\ length \in Lengths \cup {0}
    /\ io \in {"none", "pending", "done", "failed"}
    /\ moved \in 0 .. length
    /\ registered \in 0 .. MaxBuffers
    /\ events \in 0 .. MaxEvents
    /\ before \in (0 .. MaxBuffers) \X (0 .. MaxEvents)
    /\ result = Err \/ (result = Ok(result.bytes) /\ result.bytes \in Nat)

\* The kernel works on the buffer only while this call has it registered and
\* its event open, and is done with it when the function returns.
BufferRegisteredWhilePending ==
    /\ io = "pending" => registered = before[1] + 1 /\ events = before[2] + 1
    /\ pc = "idle" => io # "pending"

\* A transfer that succeeds reports what was moved and gives back both the
\* registration and the event.
OkLeavesNothing ==
    pc = "idle" /\ result.ok => result.bytes = moved /\ held = before

\* "Always unregister and close, even on error." (windows.rs:1372): no buffer
\* is registered and no event open between transfers.
AlwaysUnregistered == pc = "idle" => held = <<0, 0>>
=============================================================================
