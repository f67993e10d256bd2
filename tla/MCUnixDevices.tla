---------------------------- MODULE MCUnixDevices ----------------------------
(* Interface 0 has one endpoint, of another size in its other setting.      *)
(* Interface 1, which the macOS iterator returns first, has two endpoints,  *)
(* one of which its other setting lacks, so that the pipe number of the     *)
(* other one changes with the setting.                                      *)
EXTENDS UnixDevices, TLC

CONSTANTS e1, e2, e3, full, half

MCOwner == (e1 :> 0) @@ (e2 :> 1) @@ (e3 :> 1)

MCDescriptor ==
    << [endpoint |-> e1, alt |-> 0, info |-> full],
       [endpoint |-> e1, alt |-> 1, info |-> half],
       [endpoint |-> e2, alt |-> 0, info |-> full],
       [endpoint |-> e3, alt |-> 0, info |-> half],
       [endpoint |-> e3, alt |-> 1, info |-> half] >>

MCOrder == <<1, 0>>
MCPipes == (0 :> ((0 :> <<e1>>) @@ (1 :> <<e1>>)))
        @@ (1 :> ((0 :> <<e2, e3>>) @@ (1 :> <<e3>>)))
=============================================================================
