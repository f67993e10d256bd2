----------------------------- MODULE MCDiscovery -----------------------------
(* A number on two buses, one of them bus 0: the device without a bus number *)
(* and another device can share a bus and an address on macOS.               *)
EXTENDS Discovery

MCAddresses == {<<0, 1>>, <<1, 1>>}
=============================================================================
