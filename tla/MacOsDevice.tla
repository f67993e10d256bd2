----------------------------- MODULE MacOsDevice -----------------------------
(***************************************************************************)
(* MacOsDevice of backend/macos.rs: claims are bookkeeping, and every call *)
(* that needs a pipe or an interface walks the IOKit interfaces of the     *)
(* device, opens them one by one until it finds the one it wants, and      *)
(* closes it when the call is over.  The walk is modelled call by call,    *)
(* since each call may fail; it leaves pipe numbers in pipe_cache.         *)
(*                                                                         *)
(* External: an IOKit interface numbers the pipes of the setting it is in  *)
(* from 1; a SET_INTERFACE control request does not change that setting.   *)
(***************************************************************************)
EXTENDS Integers, Sequences, Functions

CONSTANTS
    Interfaces,     \* interface numbers
    Order,          \* the interfaces, as the IOKit iterator returns them
    Alts,           \* alternate settings, 0 among them
    Endpoints,      \* endpoint addresses
    Pipes,          \* Pipes[i][a]: the endpoints of interface i in setting a,
                    \* by pipe number
    MaxLeaks,       \* bound on the device interfaces lost by failed opens
    None

VARIABLES
    pc,         \* where the running call is; "closed", or "idle" between calls
    claimed,    \* claimed_interfaces
    cache,      \* pipe_cache: endpoint -> pipe number
    alt,        \* the setting each IOKit interface is in
    call,       \* the running call: [op, target, alt]
    pos,        \* interfaces the iterator has returned
    held,       \* IOKit objects the running call holds
    result,     \* result of the last call: "ok" or "err"
    leaked      \* device interfaces no field refers to any more

walk == <<call, pos, held>>
vars == <<pc, claimed, cache, alt, walk, result, leaked>>

Calls ==
    [op : {"transfer", "info"}, target : Endpoints, alt : {None}]
        \cup [op : {"select"}, target : Interfaces, alt : Alts]
        \cup {[op |-> "none", target |-> None, alt |-> None]}
Objects == {"iter", "service", "plugin", "interface"}
NoPipes == [e \in {} |-> 0]

\* The interface the walk is at, and its pipes.
Current == Order[pos]
CurrentPipes == Pipes[Current][alt[Current]]

Init ==
    /\ pc = "closed"
    /\ claimed = {}
    /\ cache = NoPipes
    /\ alt = [i \in Interfaces |-> 0]
    /\ call = [op |-> "none", target |-> None, alt |-> None]
    /\ pos = 0
    /\ held = {}
    /\ result = "ok"
    /\ leaked = 0

Return(r) == pc' = "idle" /\ result' = r

-----------------------------------------------------------------------------
(* open, Drop                                                              *)

OpenDevice ==
    /\ pc = "closed"
    /\ claimed' = {}
    /\ cache' = NoPipes
    /\ Return("ok")
    /\ UNCHANGED <<alt, walk, leaked>>

\* USBDeviceOpen fails: the device interface is not released.  An open that
\* fails earlier leaves nothing behind.
OpenFails ==
    /\ pc = "closed"
    /\ leaked < MaxLeaks
    /\ leaked' = leaked + 1
    /\ result' = "err"
    /\ UNCHANGED <<pc, claimed, cache, alt, walk>>

DropDevice ==
    /\ pc = "idle"
    /\ pc' = "closed"
    /\ claimed' = {}
    /\ UNCHANGED <<cache, alt, walk, result, leaked>>

-----------------------------------------------------------------------------
(* claim_interface, release_interface                                      *)

\* Only an interface that is not claimed yet is looked up in the configuration
\* and asked for its setting, which may fail.
ClaimInterface(i) ==
    /\ pc = "idle"
    /\ \/ claimed' = claimed \cup {i} /\ result' = "ok"
       \/ i \notin claimed /\ result' = "err" /\ UNCHANGED claimed
    /\ UNCHANGED <<pc, cache, alt, walk, leaked>>

\* The error of SET_INTERFACE ends the call before the claim is forgotten.
ReleaseInterface(i) ==
    /\ pc = "idle"
    /\ \/ claimed' = claimed \ {i} /\ result' = "ok"
       \/ i \in claimed /\ result' = "err" /\ UNCHANGED claimed
    /\ UNCHANGED <<pc, cache, alt, walk, leaked>>

-----------------------------------------------------------------------------
(* open_interface_for_endpoint and find_interface                          *)

\* bulk and interrupt transfers and get_pipe_info look for an endpoint,
\* set_alternate_setting for an interface.
BeginCall(c) ==
    /\ pc = "idle"
    /\ c.op # "none"
    /\ call' = c
    /\ pos' = 0
    /\ held' = {"iter"}
    /\ pc' = "next"
    /\ UNCHANGED <<claimed, cache, alt, result, leaked>>

NextService ==
    /\ pc = "next"
    /\ pos < Len(Order)
    /\ pos' = pos + 1
    /\ held' = held \cup {"service"}
    /\ pc' = "plugin"
    /\ UNCHANGED <<claimed, cache, alt, call, result, leaked>>

\* No interface is left: the target was not found.
IteratorEnds ==
    /\ pc = "next"
    /\ pos = Len(Order)
    /\ held' = held \ {"iter"}
    /\ Return("err")
    /\ UNCHANGED <<claimed, cache, alt, call, pos, leaked>>

CreatePlugIn ==
    /\ pc = "plugin"
    /\ held' = (held \ {"service"}) \cup {"plugin"}
    /\ pc' = "query"
    /\ UNCHANGED <<claimed, cache, alt, call, pos, result, leaked>>

QueryInterface ==
    /\ pc = "query"
    /\ held' = (held \ {"plugin"}) \cup {"interface"}
    /\ pc' = "open"
    /\ UNCHANGED <<claimed, cache, alt, call, pos, result, leaked>>

InterfaceOpen ==
    /\ pc = "open"
    /\ pc' = "inspect"
    /\ UNCHANGED <<claimed, cache, alt, walk, result, leaked>>

\* Fault: the error return after IOCreatePlugInInterfaceForService keeps the
\* iterator.
CleanupForgetsIterator ==
    [plugin |-> {"service"}, query |-> {"plugin", "iter"},
     open |-> {"interface", "iter"}, inspect |-> {"interface", "iter"}]

\* What each error return of the walk releases, by the call that failed.
Cleanup == [plugin |-> {"service", "iter"}, query |-> {"plugin", "iter"},
            open |-> {"interface", "iter"}, inspect |-> {"interface", "iter"}]

WalkFails ==
    /\ pc \in DOMAIN Cleanup
    /\ held' = held \ Cleanup[pc]
    /\ Return("err")
    /\ UNCHANGED <<claimed, cache, alt, call, pos, leaked>>

\* The pipes of the interface, which replace what the cache had of them.
Discovered ==
    LET pipe(e) == CHOOSE k \in DOMAIN CurrentPipes : CurrentPipes[k] = e
    IN  [e \in DOMAIN cache \cup Range(CurrentPipes) |->
            IF e \in Range(CurrentPipes) THEN pipe(e) ELSE cache[e]]

\* Fault: an endpoint that is cached is taken to be on the current interface.
IsTargetByCache == IF call.op = "select" THEN Current = call.target
                   ELSE call.target \in DOMAIN cache \cup Range(CurrentPipes)

IsTarget == IF call.op = "select" THEN Current = call.target
                                  ELSE call.target \in Range(CurrentPipes)

Inspect ==
    /\ pc = "inspect"
    /\ cache' = IF call.op = "select" THEN cache ELSE Discovered
    /\ IF IsTarget THEN held' = held \ {"iter"} /\ pc' = "use"
                   ELSE held' = held \ {"interface"} /\ pc' = "next"
    /\ UNCHANGED <<claimed, alt, call, pos, result, leaked>>

-----------------------------------------------------------------------------
(* The call itself, on the interface the walk left open                    *)

\* ReadPipe or WritePipe comes back; neither is given the caller's timeout.
PipeCompletes(r) ==
    /\ pc = "use"
    /\ call.op = "transfer"
    /\ held' = held \ {"interface"}
    /\ Return(r)
    /\ UNCHANGED <<claimed, cache, alt, call, pos, leaked>>

\* GetPipeProperties of the pipe the cache names.
PipeProperties(r) ==
    /\ pc = "use"
    /\ call.op = "info"
    /\ held' = held \ {"interface"}
    /\ Return(r)
    /\ UNCHANGED <<claimed, cache, alt, call, pos, leaked>>

SetAlternateInterface ==
    /\ pc = "use"
    /\ call.op = "select"
    /\ alt' = [alt EXCEPT ![Current] = call.alt]
    /\ cache' = NoPipes
    /\ held' = held \ {"interface"}
    /\ Return("ok")
    /\ UNCHANGED <<claimed, call, pos, leaked>>

SetAlternateFails ==
    /\ pc = "use"
    /\ call.op = "select"
    /\ held' = held \ {"interface"}
    /\ Return("err")
    /\ UNCHANGED <<claimed, cache, alt, call, pos, leaked>>

-----------------------------------------------------------------------------
Walk ==
    \/ NextService
    \/ IteratorEnds
    \/ CreatePlugIn
    \/ QueryInterface
    \/ InterfaceOpen
    \/ WalkFails
    \/ Inspect

Use ==
    \/ \E r \in {"ok", "err"} : PipeProperties(r)
    \/ SetAlternateInterface
    \/ SetAlternateFails

Next ==
    \/ OpenDevice
    \/ OpenFails
    \/ DropDevice
    \/ \E i \in Interfaces : ReleaseInterface(i) \/ ClaimInterface(i)
    \/ \E c \in Calls : BeginCall(c)
    \/ Walk
    \/ \E r \in {"ok", "err"} : PipeCompletes(r)
    \/ Use

Spec == Init /\ [][Next]_vars

-----------------------------------------------------------------------------
(* Properties                                                              *)

\* Every variable holds a value of its kind.
TypeOK ==
    /\ pc \in {"closed", "idle", "next", "plugin", "query", "open", "inspect", "use"}
    /\ claimed \subseteq Interfaces
    /\ DOMAIN cache \subseteq Endpoints
    /\ \A e \in DOMAIN cache : cache[e] \in Nat \ {0}
    /\ alt \in [Interfaces -> Alts]
    /\ call \in Calls
    /\ pos \in 0 .. Len(Order)
    /\ held \subseteq Objects
    /\ result \in {"ok", "err"}
    /\ leaked \in 0 .. MaxLeaks

\* A call that has returned, from whatever step of the walk, holds no iterator,
\* service, plug-in or interface ("calling close_and_release_interface on every
\* exit path").
NothingHeldBetweenCalls == pc \in {"closed", "idle"} => held = {}

\* When a pipe is used, the interface is the one that has the endpoint now and
\* the number the cache gives is that of the endpoint, whatever settings were
\* selected and whatever the cache held before the walk.
PipeIsTheEndpoints ==
    pc = "use" /\ call.op # "select" =>
        /\ call.target \in DOMAIN cache
        /\ cache[call.target] \in DOMAIN CurrentPipes
        /\ CurrentPipes[cache[call.target]] = call.target
=============================================================================
