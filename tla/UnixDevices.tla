---------------------------- MODULE UnixDevices ----------------------------
(***************************************************************************)
(* The backends without WinUSB as they are built: LinuxDevice or           *)
(* MacOsDevice behind the UsbDevice trait.  The platform is fixed when a   *)
(* behaviour begins; both keep a set of claimed interfaces and a cache of  *)
(* the endpoints, and the rest of the one that is not built stays as it    *)
(* is.                                                                     *)
(***************************************************************************)
EXTENDS Naturals, Sequences

CONSTANTS
    Interfaces, Alts, Endpoints,                \* of the USB device
    InEndpoints, Owner, Descriptor,             \* as Linux sees it
    EndpointZero, CutInfo, NoInfo,
    Order, Pipes, MaxLeaks, None                \* as macOS sees it

ASSUME UnixAssumption ==
    /\ 0 \in Alts
    /\ InEndpoints \subseteq Endpoints
    /\ Owner \in [Endpoints -> Interfaces]
    /\ Len(Descriptor) \in Nat
    /\ DOMAIN Descriptor = 1 .. Len(Descriptor)
    /\ \A i \in DOMAIN Descriptor :
           /\ Descriptor[i].endpoint \in Endpoints
           /\ Descriptor[i].alt \in Alts
           /\ Descriptor[i].info # CutInfo
    /\ EndpointZero \notin Endpoints
    /\ Order \in Seq(Interfaces)
    /\ Pipes \in [Interfaces -> [Alts -> Seq(Endpoints)]]
    /\ None \notin Interfaces \cup Endpoints
    /\ MaxLeaks \in Nat

VARIABLES
    platform,                               \* "linux" or "macos"
    claimed, cache, alt,                    \* of both
    file, toggle, halted, filled, refresh,  \* of Linux
    pc, call, pos, held, result, leaked     \* of macOS

ofLinux == <<file, toggle, halted, filled, refresh>>
ofMacOs == <<pc, call, pos, held, result, leaked>>
vars == <<platform, claimed, cache, alt, ofLinux, ofMacOs>>

Linux == INSTANCE LinuxDevice
MacOs == INSTANCE MacOsDevice

-----------------------------------------------------------------------------
NoLinux ==
    /\ file = "none"
    /\ toggle = [e \in Endpoints |-> 0]
    /\ halted = {}
    /\ filled = "none"
    /\ refresh = "failed"
NoMacOs ==
    /\ pc = "closed"
    /\ call = [op |-> "none", target |-> None, alt |-> None]
    /\ pos = 0
    /\ held = {}
    /\ result = "ok"
    /\ leaked = 0

Init ==
    \/ platform = "linux" /\ Linux!Init /\ NoMacOs
    \/ platform = "macos" /\ MacOs!Init /\ NoLinux

Next ==
    /\ \/ platform = "linux" /\ Linux!Next /\ UNCHANGED ofMacOs
       \/ platform = "macos" /\ MacOs!Next /\ UNCHANGED ofLinux
    /\ UNCHANGED platform

Spec == Init /\ [][Next]_vars

-----------------------------------------------------------------------------
(* Properties                                                              *)

\* Both backends implement the ownership contract of the trait: nothing is
\* claimed for having opened the device, interfaces are claimed and released
\* one at a time, and closing gives all of them back.
Contract == INSTANCE InterfaceClaims WITH
    Implicit <- {}, open <- Linux!Open \/ pc # "closed"
ImplementsClaims == Contract!Spec

\* Linux: an endpoint that one alternate setting has is cached with the values
\* of its descriptor, whatever reads failed or fell short before and whatever
\* settings were selected, except for the one endpoint in which the read the
\* cache was built from ended (linux.rs:506, 529).
SingleSettingExact == platform = "linux" => Linux!SingleSettingExact

\* Linux: get_pipe_info misses an endpoint of the configuration only after a
\* descriptor read that failed or fell short in that very call: a cache an
\* earlier read left incomplete is not the reason (linux.rs:811).
MissingMeansUnread == [][platform = "linux" => Linux!MissIsUnread]_vars

\* macOS: a call that has returned, from whatever step of the walk over the
\* interfaces, holds no IOKit object (macos.rs:516).
NothingHeldBetweenCalls == platform = "macos" => MacOs!NothingHeldBetweenCalls

\* macOS: a pipe is used on the interface that has the endpoint now and by the
\* number it has there, whatever settings were selected and whatever the cache
\* held before the walk (macos.rs:516).
PipeIsTheEndpoints == platform = "macos" => MacOs!PipeIsTheEndpoints
=============================================================================
