---------------------------- MODULE WinUsbDevice ----------------------------
(***************************************************************************)
(* WinUsbDevice of backend/windows.rs: the file handle, the primary WinUSB *)
(* interface handle, the handles of the associated interfaces a caller     *)
(* claimed, and the cache from endpoint addresses to handles.              *)
(*                                                                         *)
(* The methods take &mut self, or run under the mutex of DeviceHandle, so  *)
(* one method runs at a time; those that make several driver calls which   *)
(* can each fail (open, claim_interface, drop) are modelled call by call.  *)
(* WinUSB itself is `kernel', the table of the handles it has given out,   *)
(* and `alt', the alternate setting each interface is in.                  *)
(***************************************************************************)
EXTENDS Integers, Sequences, FiniteSets

CONSTANTS
    Interfaces,     \* interface numbers (bInterfaceNumber) of the device
    Primary,        \* the interface WinUsb_Initialize opens
    Endpoints,      \* endpoint addresses
    Owner,          \* Owner[e]: the interface endpoint e belongs to
    Alts,           \* alternate settings
    Alt0,           \* the setting an interface is in until another is selected
    EpAlts,         \* EpAlts[e]: the settings of its interface that have e
    AssocOrder,     \* the associated interfaces, by associated-interface index
    ScanLimit,      \* indices claim_interface tries (32 in the code)
    Timeouts,       \* pipe timeouts in milliseconds, 0 for none
    Handles,        \* WinUSB interface handle values
    None            \* no handle, no interface

ASSUME DeviceAssumption ==
    /\ Primary \in Interfaces
    /\ None \notin Interfaces
    /\ Owner \in [Endpoints -> Interfaces]
    /\ Alt0 \in Alts
    /\ EpAlts \in [Endpoints -> SUBSET Alts]
    /\ AssocOrder \in Seq(Interfaces \ {Primary})
    /\ ScanLimit \in Nat
    /\ Timeouts \subseteq Nat
    /\ 0 \in Timeouts
    /\ None \notin Handles

VARIABLES
    pc,         \* where the running method is; "idle" between methods
    file,       \* file_handle: "none", or opened "rw" or "ro"
    usb,        \* usb_handle
    assoc,      \* assoc_handles: claimed interface number -> handle
    cache,      \* endpoint_cache: endpoint -> handle
    want,       \* argument of the running claim_interface
    idx,        \* its assoc_index
    probe,      \* its assoc_handle
    result,     \* result of the last claim_interface or transfer
    kernel,     \* kernel[h]: the interface handle h is open on, or None
    alt,        \* alternate setting selected on each interface
    timeoutMs   \* PIPE_TRANSFER_TIMEOUT policy of each pipe

device == <<file, usb, assoc, cache>>
scan == <<want, idx, probe, result>>
driver == <<kernel, alt, timeoutMs>>
vars == <<pc, device, scan, driver>>

NoEntries == [x \in {} |-> None]
Drop(f, S) == [x \in DOMAIN f \ S |-> f[x]]
With(f, S, v) == [x \in DOMAIN f \cup S |-> IF x \in S THEN v ELSE f[x]]
Values(f) == {f[x] : x \in DOMAIN f}

Live == {h \in Handles : kernel[h] # None}
Kept == {usb} \cup Values(assoc)
Held == (Kept \cup {probe}) \ {None}

-----------------------------------------------------------------------------
(* WinUSB                                                                  *)

\* What WinUsb_QueryPipe enumerates for an alternate setting; the library
\* always asks for setting 0.
QueryPipes(h, a) == {e \in Endpoints : Owner[e] = kernel[h] /\ a \in EpAlts[e]}

\* The driver takes requests for e through h: e is a pipe of h's interface in
\* the setting that is selected.
Serves(h, e) == Owner[e] = kernel[h] /\ alt[Owner[e]] \in EpAlts[e]

OpenHandle(h, i) == kernel[h] = None /\ kernel' = [kernel EXCEPT ![h] = i]
WinUsbFree(h) == kernel' = [kernel EXCEPT ![h] = None]

-----------------------------------------------------------------------------
(* Lookups                                                                 *)

\* The interfaces interface_handle finds a handle for.
Claimed == (IF usb = None THEN {} ELSE {Primary}) \cup DOMAIN assoc

InterfaceHandle(i) == IF i = Primary THEN usb ELSE assoc[i]

\* Fault: an endpoint that is not cached is taken for one of the primary
\* interface, without asking the associated ones.
CachedOrPrimary(e) == IF e \in DOMAIN cache THEN cache[e] ELSE usb

\* handle_for_endpoint.  An endpoint belongs to one interface, so at most one
\* held handle enumerates it and the order of the scan does not matter.  The
\* queries of the scan are taken to succeed.
HandleForEndpoint(e) ==
    LET hits == {h \in Kept : e \in QueryPipes(h, Alt0)}
    IN  CASE e \in DOMAIN cache -> cache[e]
          [] e \notin DOMAIN cache /\ DOMAIN assoc # {} /\ hits # {} ->
                CHOOSE h \in hits : TRUE
          [] OTHER -> usb

\* build_endpoint_cache stops at the first pipe query that fails, which the
\* driver may do before the last pipe.
BuildEndpointCache(h) ==
    \E found \in SUBSET QueryPipes(h, Alt0) : cache' = With(cache, found, h)

-----------------------------------------------------------------------------
(* open                                                                    *)

Init ==
    /\ pc = "closed"
    /\ file = "none"
    /\ usb = None
    /\ assoc = NoEntries
    /\ cache = NoEntries
    /\ want = None
    /\ idx = 0
    /\ probe = None
    /\ result = "none"
    /\ kernel = [h \in Handles |-> None]
    /\ alt = [i \in Interfaces |-> Alt0]
    /\ timeoutMs = [e \in Endpoints |-> 0]

\* CreateFileW, read-only when write access is denied.  An open that fails
\* leaves nothing behind.
CreateFile(access) ==
    /\ pc = "closed"
    /\ file' = access
    /\ pc' = "init"
    /\ UNCHANGED <<usb, assoc, cache, scan, driver>>

Initialize(h) ==
    /\ pc = "init"
    /\ OpenHandle(h, Primary)
    /\ usb' = h
    /\ assoc' = NoEntries
    /\ cache' = NoEntries
    /\ pc' = "idle"
    /\ UNCHANGED <<file, scan, alt, timeoutMs>>

InitializeFails ==
    /\ pc = "init"
    /\ file' = "none"
    /\ pc' = "closed"
    /\ UNCHANGED <<usb, assoc, cache, scan, driver>>

-----------------------------------------------------------------------------
(* claim_interface, release_interface                                      *)

ClaimPrimary ==
    /\ pc = "idle"
    /\ BuildEndpointCache(usb)
    /\ want' = Primary
    /\ result' = "ok"
    /\ UNCHANGED <<pc, file, usb, assoc, idx, probe, driver>>

ClaimAgain(i) ==
    /\ pc = "idle"
    /\ i \in DOMAIN assoc
    /\ want' = i
    /\ result' = "ok"
    /\ UNCHANGED <<pc, device, idx, probe, driver>>

BeginClaim(i) ==
    /\ pc = "idle"
    /\ i # Primary
    /\ i \notin DOMAIN assoc
    /\ want' = i
    /\ idx' = 0
    /\ result' = "none"
    /\ pc' = "scan"
    /\ UNCHANGED <<device, probe, driver>>

GetAssociatedInterface(h) ==
    /\ pc = "scan"
    /\ idx < ScanLimit
    /\ idx < Len(AssocOrder)
    /\ OpenHandle(h, AssocOrder[idx + 1])
    /\ probe' = h
    /\ pc' = "query"
    /\ UNCHANGED <<device, want, idx, result, alt, timeoutMs>>

\* Fault: running out of associated interfaces is not an error.
ScanEndsOk ==
    /\ pc = "scan"
    /\ result' = "ok"
    /\ pc' = "idle"
    /\ UNCHANGED <<device, want, idx, probe, driver>>

\* The index is out of range, the driver refuses the call for another reason,
\* or every index has been tried.
ScanEnds ==
    /\ pc = "scan"
    /\ result' = "err"
    /\ pc' = "idle"
    /\ UNCHANGED <<device, want, idx, probe, driver>>

InterfaceFound ==
    /\ pc = "query"
    /\ kernel[probe] = want
    /\ BuildEndpointCache(probe)
    /\ assoc' = With(assoc, {want}, probe)
    /\ probe' = None
    /\ result' = "ok"
    /\ pc' = "idle"
    /\ UNCHANGED <<file, usb, want, idx, driver>>

\* Fault: the handle of the wrong interface is not freed.
NotTheInterfaceKept ==
    /\ pc = "query"
    /\ probe' = None
    /\ idx' = idx + 1
    /\ pc' = "scan"
    /\ UNCHANGED <<device, want, result, driver>>

\* Another interface, or WinUsb_QueryInterfaceSettings failed.
NotTheInterface ==
    /\ pc = "query"
    /\ WinUsbFree(probe)
    /\ probe' = None
    /\ idx' = idx + 1
    /\ pc' = "scan"
    /\ UNCHANGED <<device, want, result, alt, timeoutMs>>

\* Fault: the cached endpoints of the freed handle stay.
ReleaseKeepsCache(i) ==
    /\ pc = "idle"
    /\ i \in DOMAIN assoc
    /\ assoc' = Drop(assoc, {i})
    /\ WinUsbFree(assoc[i])
    /\ UNCHANGED <<pc, file, usb, cache, scan, alt, timeoutMs>>

\* Fault: the released interface is forgotten without being given back.
ReleaseForgetsHandle(i) ==
    /\ pc = "idle"
    /\ i \in DOMAIN assoc
    /\ assoc' = Drop(assoc, {i})
    /\ UNCHANGED <<pc, file, usb, cache, scan, driver>>

\* Releasing the primary interface, or one that is not claimed, does nothing.
Release(i) ==
    /\ pc = "idle"
    /\ i \in DOMAIN assoc
    /\ assoc' = Drop(assoc, {i})
    /\ cache' = Drop(cache, {e \in DOMAIN cache : cache[e] = assoc[i]})
    /\ WinUsbFree(assoc[i])
    /\ UNCHANGED <<pc, file, usb, scan, alt, timeoutMs>>

-----------------------------------------------------------------------------
(* Settings and transfers                                                  *)

\* The library changes nothing of its own: the cache stays as it was built.
SetAlternateSetting(i, a) ==
    /\ pc = "idle"
    /\ i \in Claimed
    /\ kernel[InterfaceHandle(i)] = i
    /\ alt' = [alt EXCEPT ![i] = a]
    /\ UNCHANGED <<pc, device, scan, kernel, timeoutMs>>

\* A bus reset returns every interface to its setting 0.
ResetDevice ==
    /\ pc = "idle"
    /\ alt' = [i \in Interfaces |-> Alt0]
    /\ UNCHANGED <<pc, device, scan, kernel, timeoutMs>>

\* WinUsb_SetPipePolicy on h sets the timeout of a pipe h serves, or fails and
\* leaves the one an earlier call set.  A transfer discards the error and goes
\* on under that timeout; set_pipe_policy returns it.
SetTimeoutPolicy(h, e, ms) ==
    \/ Serves(h, e) /\ timeoutMs' = [timeoutMs EXCEPT ![e] = ms]
    \/ UNCHANGED timeoutMs

\* How a transfer on e through h may end; one the driver refuses is an error.
Outcomes(h, e) == IF Serves(h, e) THEN {"ok", "err"} ELSE {"err"}

\* bulk_read, bulk_write and the interrupt transfers: a timeout of 0 leaves
\* the policy of the pipe as it is.
Transfer(e, ms) ==
    /\ pc = "idle"
    /\ IF ms > 0 THEN SetTimeoutPolicy(HandleForEndpoint(e), e, ms)
                 ELSE UNCHANGED timeoutMs
    /\ result' \in Outcomes(HandleForEndpoint(e), e)
    /\ UNCHANGED <<pc, device, want, idx, probe, kernel, alt>>

SetPipePolicy(e, ms) ==
    /\ pc = "idle"
    /\ SetTimeoutPolicy(HandleForEndpoint(e), e, ms)
    /\ UNCHANGED <<pc, device, scan, kernel, alt>>

-----------------------------------------------------------------------------
(* Drop                                                                    *)

BeginDrop ==
    /\ pc = "idle"
    /\ pc' = "drop"
    /\ UNCHANGED <<device, scan, driver>>

FreeAssociated(i) ==
    /\ pc = "drop"
    /\ i \in DOMAIN assoc
    /\ assoc' = Drop(assoc, {i})
    /\ WinUsbFree(assoc[i])
    /\ UNCHANGED <<pc, file, usb, cache, scan, alt, timeoutMs>>

\* Fault: the primary handle may be freed before the associated ones.
FreePrimaryFirst ==
    /\ pc = "drop"
    /\ usb # None
    /\ WinUsbFree(usb)
    /\ usb' = None
    /\ UNCHANGED <<pc, file, assoc, cache, scan, alt, timeoutMs>>

FreePrimary ==
    /\ pc = "drop"
    /\ usb # None
    /\ DOMAIN assoc = {}
    /\ WinUsbFree(usb)
    /\ usb' = None
    /\ UNCHANGED <<pc, file, assoc, cache, scan, alt, timeoutMs>>

CloseFile ==
    /\ pc = "drop"
    /\ usb = None
    /\ file' = "none"
    /\ cache' = NoEntries
    /\ pc' = "closed"
    /\ UNCHANGED <<usb, assoc, scan, driver>>

-----------------------------------------------------------------------------
Open ==
    \/ \E access \in {"rw", "ro"} : CreateFile(access)
    \/ \E h \in Handles : Initialize(h)
    \/ InitializeFails

ScanStep ==
    \/ \E h \in Handles : GetAssociatedInterface(h)
    \/ ScanEnds
    \/ InterfaceFound
    \/ NotTheInterface

Claim ==
    \/ ClaimPrimary
    \/ \E i \in Interfaces : ClaimAgain(i) \/ BeginClaim(i)
    \/ ScanStep

Operate ==
    \/ \E i \in Interfaces, a \in Alts : SetAlternateSetting(i, a)
    \/ ResetDevice
    \/ \E e \in Endpoints, ms \in Timeouts : Transfer(e, ms) \/ SetPipePolicy(e, ms)

DropStep ==
    \/ \E i \in Interfaces : FreeAssociated(i)
    \/ FreePrimary
    \/ CloseFile

Next ==
    \/ Open
    \/ Claim
    \/ \E i \in Interfaces : Release(i)
    \/ Operate
    \/ BeginDrop
    \/ DropStep

Spec == Init /\ [][Next]_vars

-----------------------------------------------------------------------------
(* Properties                                                              *)

\* Every variable holds a value of its kind.
TypeOK ==
    /\ pc \in {"closed", "init", "idle", "scan", "query", "drop"}
    /\ file \in {"none", "rw", "ro"}
    /\ usb \in Handles \cup {None}
    /\ DOMAIN assoc \subseteq Interfaces \ {Primary}
    /\ \A i \in DOMAIN assoc : assoc[i] \in Handles
    /\ DOMAIN cache \subseteq Endpoints
    /\ \A e \in DOMAIN cache : cache[e] \in Handles
    /\ want \in Interfaces \cup {None}
    /\ idx \in 0 .. ScanLimit
    /\ probe \in Handles \cup {None}
    /\ result \in {"none", "ok", "err"}
    /\ kernel \in [Handles -> Interfaces \cup {None}]
    /\ alt \in [Interfaces -> Alts]
    /\ timeoutMs \in [Endpoints -> Timeouts]

\* Every handle WinUSB has given out is in a field that Drop, release or the
\* rest of the claim will free: no path of claim_interface loses the handle of
\* an interface it looked at.
NoLeak == Live \subseteq Held

\* A handle the device keeps is open, on the interface it is kept for, so no
\* handle is used after WinUsb_Free or freed twice.
NoDangling ==
    /\ usb # None => kernel[usb] = Primary
    /\ \A i \in DOMAIN assoc : kernel[assoc[i]] = i
    /\ probe # None => kernel[probe] # None

\* No handle value is kept twice, which would free it twice.
NoAlias ==
    /\ \A i, j \in DOMAIN assoc : assoc[i] = assoc[j] => i = j
    /\ usb # None => usb # probe /\ usb \notin Values(assoc)
    /\ probe # None => probe \notin Values(assoc)

\* No path of open, claim_interface, release_interface or Drop loses a handle,
\* keeps one that is freed, or keeps one twice, whichever driver call fails.
HandlesAccounted == NoLeak /\ NoDangling /\ NoAlias

\* Until Drop runs, a cached endpoint leads to a handle the device still holds
\* on the interface that owns the endpoint, also after interfaces were released
\* and their handle values given out again for other interfaces.
CacheSound ==
    pc # "drop" =>
        \A e \in DOMAIN cache : cache[e] \in Kept /\ kernel[cache[e]] = Owner[e]

\* Between calls, an endpoint that setting 0 of a claimed interface has is
\* routed to the handle of that interface, cached or not.
RouteToOwner ==
    pc = "idle" =>
        \A e \in Endpoints :
            Owner[e] \in Claimed /\ Alt0 \in EpAlts[e] =>
                HandleForEndpoint(e) = InterfaceHandle(Owner[e])

\* An interface handle is only open while the handle it came from is: Drop
\* frees the associated interfaces, then the primary one, then the file.
TeardownOrder ==
    /\ Live # {} => file # "none"
    /\ (\E h \in Live : kernel[h] # Primary) => usb # None

\* How the fields follow the life of the object and the method it is in.
Lifecycle ==
    /\ pc = "closed" <=> file = "none"
    /\ pc \in {"closed", "init"} => usb = None
    /\ pc \in {"idle", "scan", "query"} => usb # None
    /\ usb = None => DOMAIN assoc = {}
    /\ pc \in {"closed", "init"} => DOMAIN cache = {}
    /\ probe # None <=> pc = "query"
    /\ pc = "query" => idx < ScanLimit
    /\ pc \in {"scan", "query"} => want \in Interfaces \ (DOMAIN assoc \cup {Primary})

\* The inductive invariant of the handle bookkeeping.
Inv == TypeOK /\ Lifecycle /\ NoLeak /\ NoDangling /\ NoAlias /\ CacheSound

\* claim_interface returns Ok exactly when the device now holds the interface.
ClaimOutcome ==
    [][(pc \in {"scan", "query"} /\ pc' = "idle") =>
        (result' = "ok" <=> want \in Claimed')]_vars

\* No transfer succeeds, and no timeout policy is set, on an endpoint of an
\* interface that is not claimed, whatever was claimed and released before and
\* whichever handle values were given out again: neither the cache nor the
\* fallback to the primary handle leads into a released interface.
ReachesClaimedOnly ==
    [][\A e \in Endpoints :
        (\/ timeoutMs'[e] # timeoutMs[e]
         \/ \E ms \in Timeouts : Transfer(e, ms) /\ result' = "ok")
            => Owner[e] \in Claimed]_vars

\* The device implements the ownership contract of the trait; the primary
\* interface is held from opening.
Contract == INSTANCE InterfaceClaims WITH
    Implicit <- {Primary}, open <- usb # None, claimed <- Claimed
ImplementsClaims == Contract!Spec

\* "Find which held interface handle owns `endpoint`" (windows.rs:542), taken
\* for the endpoints an interface has in the setting that is selected now.
RouteToOwnerInCurrentSetting ==
    pc = "idle" =>
        \A e \in Endpoints :
            Owner[e] \in Claimed /\ alt[Owner[e]] \in EpAlts[e] =>
                HandleForEndpoint(e) = InterfaceHandle(Owner[e])
=============================================================================
