--------------------- MODULE OverlappedTransfer_proofs ---------------------
(***************************************************************************)
(* The buffer of an overlapped transfer is free when the function returns, *)
(* for every timeout, buffer length and interleaving with the kernel.      *)
(***************************************************************************)
EXTENDS OverlappedTransfer, TLAPS

\* The results and their fields.
LEMMA ResultFields ==
  /\ \A n \in Bytes : Ok(n) \in Results /\ Ok(n).ok /\ Ok(n).bytes = n
  /\ \A e \in Errors : Err(e) \in Results /\ ~Err(e).ok /\ Err(e).error = e
  BY DEF Results, Ok, Err

LEMMA InitInv == Init => Inv
<1>1. 0 \in Bytes
  BY TransferAssumption DEF Bytes
<1>2. Init => TypeOK
  <2>1. Ok(0) \in Results
    BY <1>1, ResultFields
  <2>2. Init => cancelling \in BOOLEAN
    BY DEF Init
  <2>3. Init => events \in Nat /\ before \in Nat
    BY DEF Init
  <2> QED
    BY <1>1, <2>1, <2>2, <2>3, Zenon DEF Init, TypeOK, Places
<1>3. Init => OkCountsBytes
  BY <1>1, ResultFields DEF Init, OkCountsBytes
<1>4. Init => Progress /\ NothingPendingAfterReturn /\ EventClosedUnlessError
  BY DEF Init, Progress, NothingPendingAfterReturn, EventClosedUnlessError, Places
<1> QED
  BY <1>2, <1>3, <1>4 DEF Inv

LEMMA StepInv == Inv /\ [Next]_vars => Inv'
<1> SUFFICES ASSUME Inv, [Next]_vars PROVE Inv'
  OBVIOUS
<1>0. 0 \in Bytes /\ "err" \in Errors /\ "timeout" \in Errors /\ "err" # "timeout"
  BY TransferAssumption DEF Bytes, Errors
<1> USE <1>0, ResultFields DEF Inv, TypeOK, Progress, NothingPendingAfterReturn,
      OkCountsBytes, EventClosedUnlessError, Places, request
<1>1. ASSUME NEW t \in Timeouts, Call(t) PROVE Inv'
  BY <1>1 DEF Call
<1>2. ASSUME CreateEvent PROVE Inv'
  BY <1>2 DEF CreateEvent
<1>3. ASSUME CreateEventFails PROVE Inv'
  BY <1>3 DEF CreateEventFails
<1>4. ASSUME NEW n \in Bytes, SubmitCompletes(n) PROVE Inv'
  BY <1>4 DEF SubmitCompletes
<1>5. ASSUME SubmitPends \/ SubmitFails PROVE Inv'
  BY <1>5 DEF SubmitPends, SubmitFails
<1>6. ASSUME WaitSignalled \/ WaitTimesOut PROVE Inv'
  BY <1>6 DEF WaitSignalled, WaitTimesOut
<1>7. ASSUME Collect PROVE Inv'
  BY <1>7 DEF Collect
<1>8. ASSUME CancelAccepted \/ CancelNotFound PROVE Inv'
  BY <1>8 DEF CancelAccepted, CancelNotFound
<1>9. ASSUME Drain PROVE Inv'
  BY <1>9 DEF Drain
<1>10. ASSUME CloseEvent PROVE Inv'
  BY <1>10 DEF CloseEvent
<1>11. ASSUME Kernel PROVE Inv'
  BY <1>11 DEF Kernel, Complete, Fail, Abort
<1>12. ASSUME UNCHANGED vars PROVE Inv'
  BY <1>12 DEF vars
<1> QED
  BY <1>1, <1>2, <1>3, <1>4, <1>5, <1>6, <1>7, <1>8, <1>9, <1>10, <1>11, <1>12
     DEF Next, Step, Submit

\* The inductive invariant of the calls and the request they share with the system.
THEOREM InvHolds == Spec => []Inv
<1> QED
  BY InitInv, StepInv, PTL DEF Spec

\* Every variable keeps a value of its kind.
THEOREM TypeCorrect == Spec => []TypeOK
<1>1. Inv => TypeOK
  BY DEF Inv
<1> QED
  BY <1>1, InvHolds, PTL

\* No path out of the function leaves the request with the kernel, and Ok and
\* Timeout leave no event.
THEOREM BufferFreeOnReturn == Spec => []ReturnsClean
<1>1. Inv => ReturnsClean
  BY DEF Inv, ReturnsClean
<1> QED
  BY <1>1, InvHolds, PTL

\* Ok reports the bytes of this transfer.
THEOREM ResultsAreHonest == Spec => []OkCountsBytes
<1>1. Inv => OkCountsBytes
  BY DEF Inv
<1> QED
  BY <1>1, InvHolds, PTL

-----------------------------------------------------------------------------
(* Progress.  A transfer whose timeout ends the wait is at one of the places *)
(* below; each step of the thread takes it on, and until then it stays.      *)

Timed(p) == pc = p /\ ~WaitsForever(timeout)
Draining == Timed("drain") /\ io = "pending" /\ cancelling
Drained == Timed("drain") /\ io # "pending"
Returned == pc = "idle"

\* Outside a call the timeout stays, and the kernel moves no thread.
LEMMA ThreadMoves ==
  ASSUME [Next]_vars, pc # "idle"
  PROVE  timeout' = timeout /\ (Step \/ pc' = pc)
<1>1. CASE Step
  <2>1. timeout' = timeout
    BY <1>1 DEF Step, Submit, CreateEvent, CreateEventFails, SubmitCompletes, SubmitPends,
                SubmitFails, WaitSignalled, WaitTimesOut, Collect, CancelAccepted,
                CancelNotFound, Drain, CloseEvent
  <2> QED
    BY <1>1, <2>1
<1>2. CASE Kernel
  BY <1>2 DEF Kernel, Complete, Fail, Abort
<1>3. CASE UNCHANGED vars
  BY <1>3 DEF vars
<1> QED
  BY <1>1, <1>2, <1>3 DEF Next, Call

\* The places a step of the thread leads to.
LEMMA StepLeads ==
  ASSUME Inv, Step
  PROVE  /\ pc = "create" => pc' \in {"submit", "idle"}
         /\ pc = "submit" => pc' \in {"close", "wait"}
         /\ pc = "wait" => pc' \in {"collect", "cancel"}
         /\ pc = "collect" => pc' \in {"close", "idle"}
         /\ pc = "cancel" => pc' = "idle" \/ (pc' = "drain" /\ io' = "pending" /\ cancelling' = TRUE)
         /\ pc = "drain" => pc' \in {"close", "idle"}
         /\ pc = "close" => pc' = "idle"
  BY DEF Step, Submit, CreateEvent, CreateEventFails, SubmitCompletes, SubmitPends,
         SubmitFails, WaitSignalled, WaitTimesOut, Collect, CancelAccepted, CancelNotFound,
         Drain, CloseEvent

\* A transfer with a timeout returns, whether or not the device ever answers: the
\* wait ends by the timer, and the drain after it waits for a request that has
\* been cancelled.
THEOREM TimeoutReturns == Spec /\ []StepsEnabled => TimeoutEndsTransfer
<1> USE DEF Timed, Returned
<1>1. Inv /\ Timed("create") /\ [Next]_vars =>
          Timed("create")' \/ Timed("submit")' \/ Returned'
  BY ThreadMoves, StepLeads
<1>2. Inv /\ Timed("submit") /\ [Next]_vars =>
          Timed("submit")' \/ Timed("close")' \/ Timed("wait")'
  BY ThreadMoves, StepLeads
<1>3. Inv /\ Timed("wait") /\ [Next]_vars =>
          Timed("wait")' \/ Timed("collect")' \/ Timed("cancel")'
  BY ThreadMoves, StepLeads
<1>4. Inv /\ Timed("collect") /\ [Next]_vars =>
          Timed("collect")' \/ Timed("close")' \/ Returned'
  BY ThreadMoves, StepLeads
<1>5. Inv /\ Timed("cancel") /\ [Next]_vars =>
          Timed("cancel")' \/ Draining' \/ Drained' \/ Returned'
  BY ThreadMoves, StepLeads DEF Draining, Drained
<1>6. Inv /\ Draining /\ [Next]_vars => Draining' \/ Drained' \/ Timed("close")' \/ Returned'
  <2> SUFFICES ASSUME Inv, Draining, [Next]_vars, pc' = pc PROVE Draining' \/ Drained'
    BY ThreadMoves, StepLeads DEF Draining
  <2>1. cancelling' = cancelling
    BY DEF Draining, Next, Call, Step, Submit, CreateEvent, CreateEventFails, SubmitCompletes,
           SubmitPends, SubmitFails, WaitSignalled, WaitTimesOut, Collect, CancelAccepted,
           CancelNotFound, Drain, CloseEvent, Kernel, Complete, Fail, Abort, vars, request
  <2> QED
    BY <2>1, ThreadMoves DEF Draining, Drained
<1>7. Inv /\ Drained /\ [Next]_vars => Drained' \/ Timed("close")' \/ Returned'
  <2> SUFFICES ASSUME Inv, Drained, [Next]_vars, pc' = pc PROVE Drained'
    BY ThreadMoves, StepLeads DEF Drained
  <2>1. io' # "pending"
    BY DEF Drained, Next, Call, Step, Submit, CreateEvent, CreateEventFails, SubmitCompletes,
           SubmitPends, SubmitFails, WaitSignalled, WaitTimesOut, Collect, CancelAccepted,
           CancelNotFound, Drain, CloseEvent, Kernel, Complete, Fail, Abort, vars, request
  <2> QED
    BY <2>1, ThreadMoves DEF Drained
<1>8. Inv /\ Timed("close") /\ [Next]_vars => Timed("close")' \/ Returned'
  BY ThreadMoves, StepLeads
\* Each place has a step that is fair, which leaves it.
<1>9. ASSUME NEW p \in Places \ {"idle", "drain"}
      PROVE  /\ Timed(p) => CanStep
             /\ Inv /\ Timed(p) /\ <<Step>>_vars => ~Timed(p)'
  BY StepLeads DEF CanStep, Places
<1>10. /\ Draining => CanAbort
       /\ Draining /\ <<Abort>>_vars => ~Draining'
  BY DEF Draining, CanAbort, Abort
<1>11. /\ Drained => CanStep
       /\ Inv /\ Drained /\ <<Step>>_vars => ~Drained'
  BY StepLeads DEF Drained, CanStep
<1>12. Inv /\ pc # "idle" /\ ~WaitsForever(timeout) =>
           \/ Timed("create") \/ Timed("submit") \/ Timed("wait") \/ Timed("collect")
           \/ Timed("cancel") \/ Draining \/ Drained \/ Timed("close")
  BY DEF Inv, TypeOK, Places, Progress, Draining, Drained
<1>13. /\ Timed("create") => CanStep
       /\ Timed("submit") => CanStep
       /\ Timed("wait") => CanStep
       /\ Timed("collect") => CanStep
       /\ Timed("cancel") => CanStep
       /\ Timed("close") => CanStep
       /\ Inv /\ Timed("create") /\ <<Step>>_vars => ~Timed("create")'
       /\ Inv /\ Timed("submit") /\ <<Step>>_vars => ~Timed("submit")'
       /\ Inv /\ Timed("wait") /\ <<Step>>_vars => ~Timed("wait")'
       /\ Inv /\ Timed("collect") /\ <<Step>>_vars => ~Timed("collect")'
       /\ Inv /\ Timed("cancel") /\ <<Step>>_vars => ~Timed("cancel")'
       /\ Inv /\ Timed("close") /\ <<Step>>_vars => ~Timed("close")'
  BY <1>9 DEF Places
<1>14. StepsEnabled => (CanStep => ENABLED <<Step>>_vars) /\ (CanAbort => ENABLED <<Abort>>_vars)
  BY DEF StepsEnabled
<1>15. Returned <=> pc = "idle"
  OBVIOUS
<1> HIDE DEF Timed, Returned
<1> QED
  BY <1>1, <1>2, <1>3, <1>4, <1>5, <1>6, <1>7, <1>8, <1>10, <1>11, <1>12, <1>13, <1>14, <1>15,
     InvHolds, PTL DEF Spec, Fairness, TimeoutEndsTransfer

\* A request that completes while the wait goes on is reported: the wait is ended by
\* its event, and nothing is collected in its place.
THEOREM CompletionIsReported == Spec /\ []StepsEnabled => CompletionInTimeReported
<1> DEFINE W == pc = "wait" /\ io = "done"
           C == pc = "collect" /\ io = "done"
           K == pc = "close" /\ result.ok
           R == pc = "idle" /\ result.ok
<1>1. ASSUME Inv, io = "done", pc # "idle", [Next]_vars
      PROVE  io' = "done"
  BY <1>1 DEF Inv, Progress, Next, Call, Step, Submit, CreateEvent, CreateEventFails,
              SubmitCompletes, SubmitPends, SubmitFails, WaitSignalled, WaitTimesOut, Collect,
              CancelAccepted, CancelNotFound, Drain, CloseEvent, Kernel, Complete, Fail, Abort,
              vars, request
<1>2. Inv /\ W /\ [Next]_vars => W' \/ C'
  <2> SUFFICES ASSUME Inv, W, Step PROVE pc' = "collect"
    BY <1>1, ThreadMoves
  <2> QED
    BY DEF Step, Submit, CreateEvent, CreateEventFails, SubmitCompletes, SubmitPends,
           SubmitFails, WaitSignalled, WaitTimesOut, Collect, CancelAccepted, CancelNotFound,
           Drain, CloseEvent
<1>3. Inv /\ C /\ [Next]_vars => C' \/ K'
  <2> SUFFICES ASSUME Inv, C, Step PROVE K'
    BY <1>1, ThreadMoves
  <2> QED
    BY ResultFields DEF Step, Submit, CreateEvent, CreateEventFails, SubmitCompletes,
           SubmitPends, SubmitFails, WaitSignalled, WaitTimesOut, Collect, CancelAccepted,
           CancelNotFound, Drain, CloseEvent, Inv, TypeOK
<1>4. Inv /\ K /\ [Next]_vars => K' \/ R'
  <2>1. CASE Step
    BY <2>1 DEF Step, Submit, CreateEvent, CreateEventFails, SubmitCompletes, SubmitPends,
           SubmitFails, WaitSignalled, WaitTimesOut, Collect, CancelAccepted, CancelNotFound,
           Drain, CloseEvent
  <2>2. CASE Kernel
    BY <2>2 DEF Kernel, Complete, Fail, Abort
  <2> QED
    BY <2>1, <2>2 DEF Next, Call, vars
<1>5. Inv /\ (W \/ C \/ K) /\ <<Step>>_vars => pc' # pc
  BY StepLeads
<1>6. (W => CanStep) /\ (C => CanStep) /\ (K => CanStep)
  BY DEF CanStep
<1>7. /\ Inv /\ W /\ <<Step>>_vars => ~W'
      /\ Inv /\ C /\ <<Step>>_vars => ~C'
      /\ Inv /\ K /\ <<Step>>_vars => ~K'
  BY <1>5
<1>8. StepsEnabled => (CanStep => ENABLED <<Step>>_vars)
  BY DEF StepsEnabled
<1> QED
  BY <1>2, <1>3, <1>4, <1>6, <1>7, <1>8, InvHolds, PTL
     DEF Spec, Fairness, CompletionInTimeReported
=============================================================================
