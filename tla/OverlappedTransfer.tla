------------------------- MODULE OverlappedTransfer -------------------------
(***************************************************************************)
(* overlapped_read and overlapped_write of backend/windows.rs, with        *)
(* cancel_and_drain_overlapped: one bulk or interrupt transfer after the   *)
(* other on one file handle (the mutex of DeviceHandle admits one at a     *)
(* time), racing the completion of the request in the kernel.  The two     *)
(* functions differ only in the direction of the data.                     *)
(*                                                                         *)
(* While the request is pending the kernel owns the OVERLAPPED and the     *)
(* caller's buffer; the function frees the one and gives back the other    *)
(* when it returns.                                                        *)
(*                                                                         *)
(* External: CancelIoEx fails only when the request is no longer pending.  *)
(***************************************************************************)
EXTENDS Integers

CONSTANTS
    Timeouts,       \* timeouts a caller asks for, in microseconds
    MaxMillis,      \* u32::MAX, which is also INFINITE
    MaxBytes,       \* length of the caller's buffer
    MaxEvents       \* bound on the event objects open at a time

ASSUME TransferAssumption ==
    /\ Timeouts \subseteq Nat
    /\ MaxMillis \in Nat \ {0}
    /\ MaxBytes \in Nat
    /\ MaxEvents \in Nat \ {0}

VARIABLES
    pc,             \* where the running transfer is; "idle" between transfers
    timeout,        \* its timeout
    io,             \* the request: "none", "pending", "done", "aborted", "failed"
    cancelling,     \* CancelIoEx has been accepted for it
    moved,          \* bytes the controller moved for it
    transferred,    \* the local of that name
    events,         \* event objects open
    before,         \* event objects open when the transfer was called
    result          \* what the last transfer returned: a byte count or an error

request == <<io, cancelling, moved>>
vars == <<pc, timeout, request, transferred, events, before, result>>

Bytes == 0 .. MaxBytes
Errors == {"timeout", "err"}
Ok(n) == [ok |-> TRUE, bytes |-> n]
Err(e) == [ok |-> FALSE, error |-> e]

\* timeout.as_millis().min(u32::MAX), and the wait it becomes.
AsMillis(t) == IF t \div 1000 < MaxMillis THEN t \div 1000 ELSE MaxMillis
WaitsForever(t) == AsMillis(t) \in {0, MaxMillis}

-----------------------------------------------------------------------------
Init ==
    /\ pc = "idle"
    /\ timeout = 0
    /\ io = "none"
    /\ cancelling = FALSE
    /\ moved = 0
    /\ transferred = 0
    /\ events = 0
    /\ before = 0
    /\ result = Ok(0)

Call(t) ==
    /\ pc = "idle"
    /\ timeout' = t
    /\ before' = events
    /\ io' = "none"
    /\ cancelling' = FALSE
    /\ moved' = 0
    /\ transferred' = 0
    /\ pc' = "create"
    /\ UNCHANGED <<events, result>>

CreateEvent ==
    /\ pc = "create"
    /\ events < MaxEvents
    /\ events' = events + 1
    /\ pc' = "submit"
    /\ UNCHANGED <<timeout, request, transferred, before, result>>

CreateEventFails ==
    /\ pc = "create"
    /\ result' = Err("err")
    /\ pc' = "idle"
    /\ UNCHANGED <<timeout, request, transferred, events, before>>

\* WinUsb_ReadPipe / WinUsb_WritePipe completes at once, ...
SubmitCompletes(n) ==
    /\ pc = "submit"
    /\ io' = "done"
    /\ moved' = n
    /\ transferred' = n
    /\ result' = Ok(n)
    /\ pc' = "close"
    /\ UNCHANGED <<timeout, cancelling, events, before>>

\* ... or leaves the request with the kernel, ...
SubmitPends ==
    /\ pc = "submit"
    /\ io' = "pending"
    /\ pc' = "wait"
    /\ UNCHANGED <<timeout, cancelling, moved, transferred, events, before, result>>

\* ... or refuses it.
SubmitFails ==
    /\ pc = "submit"
    /\ result' = Err("err")
    /\ pc' = "close"
    /\ UNCHANGED <<timeout, request, transferred, events, before>>

\* Fault: whatever ends a wait that has a timeout is taken for the timeout.
WaitSignalledAsTimeout ==
    /\ pc = "wait"
    /\ io # "pending"
    /\ pc' = IF WaitsForever(timeout) THEN "collect" ELSE "cancel"
    /\ UNCHANGED <<timeout, request, transferred, events, before, result>>

\* WaitForSingleObject: the completion of the request signals the event.
WaitSignalled ==
    /\ pc = "wait"
    /\ io # "pending"
    /\ pc' = "collect"
    /\ UNCHANGED <<timeout, request, transferred, events, before, result>>

WaitTimesOut ==
    /\ pc = "wait"
    /\ io = "pending"
    /\ ~WaitsForever(timeout)
    /\ pc' = "cancel"
    /\ UNCHANGED <<timeout, request, transferred, events, before, result>>

\* Fault: the count is the one ReadPipe left, not GetOverlappedResult's.
CollectStaleCount ==
    /\ pc = "collect"
    /\ IF io = "done"
       THEN result' = Ok(transferred) /\ pc' = "close"
       ELSE result' = Err("err") /\ pc' = "idle"
    /\ UNCHANGED <<timeout, request, transferred, events, before>>

\* GetOverlappedResult on the signalled request; `?' returns past CloseHandle.
Collect ==
    /\ pc = "collect"
    /\ IF io = "done"
       THEN /\ transferred' = moved
            /\ result' = Ok(moved)
            /\ pc' = "close"
       ELSE /\ result' = Err("err")
            /\ pc' = "idle"
            /\ UNCHANGED transferred
    /\ UNCHANGED <<timeout, request, events, before>>

\* Fault: the function returns once the cancellation is accepted.
CancelWithoutDrain ==
    /\ pc = "cancel"
    /\ io = "pending"
    /\ cancelling' = TRUE
    /\ result' = Err("timeout")
    /\ pc' = "close"
    /\ UNCHANGED <<timeout, io, moved, transferred, events, before>>

\* Fault: the request is waited for without having been cancelled.
DrainWithoutCancel ==
    /\ pc = "cancel"
    /\ pc' = "drain"
    /\ UNCHANGED <<timeout, request, transferred, events, before, result>>

\* CancelIoEx finds the request, or finds that it has just completed; the
\* error of the second case returns past the drain and past CloseHandle.
CancelAccepted ==
    /\ pc = "cancel"
    /\ io = "pending"
    /\ cancelling' = TRUE
    /\ pc' = "drain"
    /\ UNCHANGED <<timeout, io, moved, transferred, events, before, result>>

CancelNotFound ==
    /\ pc = "cancel"
    /\ io # "pending"
    /\ result' = Err("err")
    /\ pc' = "idle"
    /\ UNCHANGED <<timeout, request, transferred, events, before>>

\* GetOverlappedResult with bWait = TRUE.  A request that completed all the
\* same is reported as a timeout, its bytes with it.
Drain ==
    /\ pc = "drain"
    /\ io # "pending"
    /\ IF io \in {"done", "aborted"}
       THEN result' = Err("timeout") /\ pc' = "close"
       ELSE result' = Err("err") /\ pc' = "idle"
    /\ UNCHANGED <<timeout, request, transferred, events, before>>

CloseEvent ==
    /\ pc = "close"
    /\ events' = events - 1
    /\ pc' = "idle"
    /\ UNCHANGED <<timeout, request, transferred, before, result>>

-----------------------------------------------------------------------------
(* The kernel                                                              *)

Complete(n) ==
    /\ io = "pending"
    /\ io' = "done"
    /\ moved' = n
    /\ UNCHANGED <<pc, timeout, cancelling, transferred, events, before, result>>

\* A stall, or the device goes away.
Fail ==
    /\ io = "pending"
    /\ io' = "failed"
    /\ UNCHANGED <<pc, timeout, cancelling, moved, transferred, events, before, result>>

Abort ==
    /\ io = "pending"
    /\ cancelling
    /\ io' = "aborted"
    /\ UNCHANGED <<pc, timeout, cancelling, moved, transferred, events, before, result>>

-----------------------------------------------------------------------------
Submit ==
    \/ \E n \in Bytes : SubmitCompletes(n)
    \/ SubmitPends
    \/ SubmitFails

Step ==
    \/ CreateEvent
    \/ CreateEventFails
    \/ Submit
    \/ WaitSignalled
    \/ WaitTimesOut
    \/ Collect
    \/ CancelAccepted
    \/ CancelNotFound
    \/ Drain
    \/ CloseEvent

Kernel ==
    \/ \E n \in Bytes : Complete(n)
    \/ Fail
    \/ Abort

Next ==
    \/ \E t \in Timeouts : Call(t)
    \/ Step
    \/ Kernel

\* The thread runs, the timer fires, and a cancelled request comes back.  The
\* device need never answer.
Fairness == WF_vars(Step) /\ WF_vars(Abort)

Spec == Init /\ [][Next]_vars /\ Fairness

-----------------------------------------------------------------------------
(* Properties                                                              *)

Places == {"idle", "create", "submit", "wait", "collect", "cancel", "drain", "close"}
Results == {Ok(n) : n \in Bytes} \cup {Err(e) : e \in Errors}

\* Every variable holds a value of its kind.
TypeOK ==
    /\ pc \in Places
    /\ timeout \in Timeouts \cup {0}
    /\ io \in {"none", "pending", "done", "aborted", "failed"}
    /\ cancelling \in BOOLEAN
    /\ moved \in Bytes
    /\ transferred \in Bytes
    /\ events \in Nat
    /\ before \in Nat
    /\ result \in Results

\* When the function returns, by whatever path, the kernel is done with the
\* OVERLAPPED it frees and with the buffer it gives back to the caller.
NothingPendingAfterReturn == pc = "idle" => io # "pending"

\* Ok carries the number of bytes the controller moved for this transfer.
OkCountsBytes == pc = "idle" /\ result.ok => result.bytes = moved

\* A transfer that ends in Ok or Timeout has closed the event it created.
EventClosedUnlessError ==
    pc = "idle" /\ (result.ok \/ result.error = "timeout") => events = before

\* What a transfer leaves behind: the kernel is done with it (windows.rs:1149)
\* and, unless it ended in an error past CloseHandle (windows.rs:1201), so is
\* its event.
ReturnsClean == NothingPendingAfterReturn /\ EventClosedUnlessError

\* Where the request can still be pending, and which results leave which
\* number of events: what makes the invariants above inductive.
Progress ==
    /\ io = "pending" => pc \in {"wait", "cancel", "drain"}
    /\ pc = "collect" => io # "pending"
    /\ pc = "close" /\ result.ok => result.bytes = moved /\ io = "done"
    /\ pc = "create" => events = before
    /\ pc \in Places \ {"idle", "create"} => events = before + 1
    /\ pc \in {"wait", "collect", "cancel", "drain"} => io # "none"
    /\ io = "done" => pc # "create" /\ pc # "submit"
    /\ cancelling => io \in {"pending", "done", "aborted", "failed"}
    /\ pc = "drain" => cancelling

Inv ==
    /\ TypeOK
    /\ Progress
    /\ NothingPendingAfterReturn
    /\ OkCountsBytes
    /\ EventClosedUnlessError

\* A request that completes before the wait gives up is reported, never
\* mistaken for a timeout.
CompletionInTimeReported ==
    pc = "wait" /\ io = "done" ~> pc = "idle" /\ result.ok

\* A transfer with a timeout of a millisecond or more (and less than the value
\* that means INFINITE) returns although the device never answers.
TimeoutEndsTransfer ==
    pc # "idle" /\ ~WaitsForever(timeout) ~> pc = "idle"

\* Where the thread can go on, where the kernel can give a request back, and
\* that both can indeed: what fairness is about, without ENABLED.
CanStep ==
    \/ pc \in {"create", "submit", "collect", "cancel", "close"}
    \/ pc = "wait" /\ (io # "pending" \/ ~WaitsForever(timeout))
    \/ pc = "drain" /\ io # "pending"

CanAbort == io = "pending" /\ cancelling

StepsEnabled ==
    /\ CanStep => ENABLED <<Step>>_vars
    /\ CanAbort => ENABLED <<Abort>>_vars
=============================================================================
