------------------------------ MODULE Discovery ------------------------------
(***************************************************************************)
(* What a program does before it transfers data: it lists and opens        *)
(* devices (Enumeration), and it reads the descriptors of one, or sends it *)
(* other control requests (DescriptorReads).  The platform and which of    *)
(* the two is done are fixed when a behaviour begins: no state is shared.  *)
(***************************************************************************)
EXTENDS DescriptorReads

CONSTANTS Ports, Devices, Addresses, Unnumbered, Bare, Nothing

ASSUME DiscoveryAssumption ==
    /\ Unnumbered \subseteq Devices
    /\ Bare \subseteq Devices
    /\ Nothing \notin Devices \cup Ports \cup Addresses
    /\ Nothing \notin [device : Devices, address : Addresses]

VARIABLES
    task,           \* "read" or "enumerate"
    port, changed, stage, todo, current, held, listed, opened

enumerating == <<port, changed, stage, todo, current, held, listed, opened>>
reading == <<call, requesting, used, sent, pc, parsing>>
vars == <<task, platform, enumerating, reading>>

Enum == INSTANCE Enumeration

Init ==
    /\ task \in {"read", "enumerate"}
    /\ ReadInit
    /\ Enum!EnumInit

Next ==
    \/ task = "read" /\ ReadNext /\ UNCHANGED <<task, enumerating>>
    \/ task = "enumerate" /\ Enum!EnumNext /\ UNCHANGED <<task, reading>>

\* Besides what ReadFairness says: the thread that lists goes on.
Fairness == ReadFairness /\ WF_enumerating(Enum!ListStep)

Spec == Init /\ [][Next]_vars /\ Fairness

-----------------------------------------------------------------------------
(* Properties                                                              *)

TypeOK == ReadTypeOK /\ Enum!EnumTypeOK

\* A timeout is in force for a request whose caller gave a millisecond or more,
\* as all descriptor reads do, unless the driver refused it, which windows.rs:614
\* does not look at, when the control pipe had none from an earlier call either.
Limited == timeout >= 1000 /\ (policy = "refused" => ep0 > 0)

\* Every call returns: a request that a timeout is in force for is answered or
\* fails, also where an earlier call or set_pipe_policy left the control pipe
\* without one and this call sets its own (windows.rs:611); parsing ends for
\* every content of the buffer, and so does a listing while devices come and go.
CallsReturn ==
    /\ Limited /\ pc \in {"first", "second"} ~> pc \in {"ok", "err"}
    /\ pc \in {"start", "walk"} ~> pc \in {"ok", "err"}
    /\ stage \in {"listing", "asking"} ~> stage = "listed"

\* The fair steps can be taken where CallsReturn counts on them: a request that
\* has a deadline can end, a parser always finds something to do with the bytes
\* in front of it, and so does a listing on every platform.
StepsEnabled ==
    /\ deadline > 0 /\ pc \in {"first", "second"} =>
           ENABLED <<deadline > 0 /\ RequestEnds>>_readVars
    /\ call = "config" /\ pc \in {"start", "walk"} => ENABLED <<ConfigStep>>_readVars
    /\ call = "bos" /\ pc \in {"start", "walk"} => ENABLED <<BosStep>>_readVars
    /\ stage \in {"listing", "asking"} => ENABLED <<Enum!ListStep>>_enumerating

\* devices() (windows.rs:145, linux.rs:335, macos.rs:238) lists every device
\* that stayed where it was, once and as it is, whatever came and went on other
\* ports or could not be described; an entry that mixes two devices, or is of
\* one that left, is of a port that changed.
ListingExact == Enum!ListingExact

\* The path of an entry opens the device of the entry, unless its port changed
\* since (macos.rs:293, context.rs:28) or, on macOS, two devices share a bus
\* number and an address.
OpenReachesListed == Enum!OpenReachesListed

\* A listing gives back the list and every service it was handed, also when an
\* entry is skipped (windows.rs:159, macos.rs:273).
NothingHeldBetweenListings == Enum!NothingHeldBetweenListings
=============================================================================
