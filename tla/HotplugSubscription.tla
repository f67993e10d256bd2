------------------------ MODULE HotplugSubscription ------------------------
(***************************************************************************)
(* What HotplugHandle promises on every platform: callbacks run between    *)
(* the registration of a subscription and the end of its cancellation, and *)
(* cancelling waits for the callbacks that are running.  One subscription. *)
(***************************************************************************)
EXTENDS Naturals

VARIABLES
    phase,      \* "unregistered", "active", "cancelling", "cancelled"
    calls       \* callbacks running

vars == <<phase, calls>>

Init == phase = "unregistered" /\ calls = 0

Register ==
    /\ phase = "unregistered"
    /\ phase' = "active"
    /\ UNCHANGED calls

CallbackBegins ==
    /\ phase \in {"active", "cancelling"}
    /\ calls' = calls + 1
    /\ UNCHANGED phase

CallbackEnds ==
    /\ calls > 0
    /\ calls' = calls - 1
    /\ UNCHANGED phase

Cancel ==
    /\ phase = "active"
    /\ phase' = "cancelling"
    /\ UNCHANGED calls

CancelReturns ==
    /\ phase = "cancelling"
    /\ calls = 0
    /\ phase' = "cancelled"
    /\ UNCHANGED calls

Next == Register \/ CallbackBegins \/ CallbackEnds \/ Cancel \/ CancelReturns

Spec == Init /\ [][Next]_vars
=============================================================================
