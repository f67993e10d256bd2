--------------------------- MODULE MCWinUsbDevice ---------------------------
(***************************************************************************)
(* A composite device with three interfaces whose associated-interface     *)
(* order is not the order of their numbers, and whose interface 1 has two  *)
(* alternate settings: e1 is in both, x1 only in the second.               *)
(***************************************************************************)
EXTENDS WinUsbDevice, TLC

CONSTANTS e0, e1, x1, e2, h1, h2, h3

MCInterfaces == {0, 1, 2}
MCEndpoints == {e0, e1, x1, e2}
MCOwner == e0 :> 0 @@ e1 :> 1 @@ x1 :> 1 @@ e2 :> 2
MCEpAlts == e0 :> {0} @@ e1 :> {0, 1} @@ x1 :> {1} @@ e2 :> {0}
MCAssocOrder == <<2, 1>>
MCHandles == {h1, h2, h3}
HandleSymmetry == Permutations(MCHandles)
=============================================================================
