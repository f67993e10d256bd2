--------------------------- MODULE InterfaceClaims ---------------------------
(***************************************************************************)
(* What the UsbDevice trait promises of interface ownership, whatever the  *)
(* platform: a device session holds some interfaces from the moment it is  *)
(* opened (Implicit), takes and gives back the others one at a time, and   *)
(* holds none once it is closed.  The platform backends implement it.      *)
(***************************************************************************)
CONSTANTS
    Interfaces,     \* interface numbers of the device
    Implicit        \* those among them a session holds without claiming them

VARIABLES
    open,           \* a session exists
    claimed         \* the interfaces it holds

vars == <<open, claimed>>

TypeOK == open \in BOOLEAN /\ claimed \subseteq Interfaces

Init == open = FALSE /\ claimed = {}

Open ==
    /\ ~open
    /\ open' = TRUE
    /\ claimed' = Implicit

Claim(i) ==
    /\ open
    /\ claimed' = claimed \cup {i}
    /\ UNCHANGED open

Release(i) ==
    /\ open
    /\ i \notin Implicit
    /\ claimed' = claimed \ {i}
    /\ UNCHANGED open

\* A session that ends gives everything back.
Close ==
    /\ open
    /\ open' = FALSE
    /\ claimed' = {}

Next ==
    \/ Open
    \/ Close
    \/ \E i \in Interfaces : Claim(i) \/ Release(i)

Spec == Init /\ [][Next]_vars
=============================================================================
