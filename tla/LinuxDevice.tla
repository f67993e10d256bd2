----------------------------- MODULE LinuxDevice -----------------------------
(***************************************************************************)
(* LinuxDevice of backend/linux.rs: a usbdevfs file and the endpoint cache *)
(* that get_pipe_info answers from.  The cache is read from configuration  *)
(* descriptor 0: a header first, then the whole, of which the device may   *)
(* return less than was asked for; the rest of the buffer is zero.         *)
(*                                                                         *)
(* External: usbdevfs keeps the claims of the file and takes requests for  *)
(* claimed interfaces only; clearing a halt resets the data toggle.        *)
(***************************************************************************)
EXTENDS Naturals, Sequences, Functions

CONSTANTS
    Interfaces,     \* interface numbers
    Endpoints,      \* endpoint addresses
    InEndpoints,    \* those with bit 7 set
    Owner,          \* Owner[e]: the interface endpoint e belongs to
    Alts,           \* alternate settings, 0 among them
    Descriptor,     \* the endpoint descriptors of configuration 0, in order:
                    \* [endpoint, alt, info]
    EndpointZero,   \* the address 0, which no endpoint descriptor has
    CutInfo,        \* an info with zeros for the bytes that were not read
    NoInfo          \* no info

VARIABLES
    file,       \* "none" or "open", for reading only if it cannot be written
    claimed,    \* interfaces the kernel has claimed for the file
    alt,        \* alternate setting each interface is in
    toggle,     \* data toggle of each endpoint, the host controller's
    halted,     \* endpoints that are halted
    cache,      \* endpoint_cache: endpoint -> info
    filled,     \* what it was built from: a "full" or a "short" read, or "none"
    refresh     \* how the last refresh went: "full", "short" or "failed"; "none"
                \* once get_pipe_info has answered without one

pipes == <<toggle, halted>>
kept == <<cache, filled>>
vars == <<file, claimed, alt, pipes, kept, refresh>>

Infos == {Descriptor[i].info : i \in DOMAIN Descriptor}
NoEntries == [e \in {} |-> NoInfo]
Open == file # "none"

-----------------------------------------------------------------------------
(* The endpoint cache                                                      *)

\* Fault: an endpoint is cached with the descriptor before its own.
CacheOfShifted(n) ==
    LET found == {Descriptor[i].endpoint : i \in 1 .. n}
        last(e) == CHOOSE i \in 1 .. n :
                       /\ Descriptor[i].endpoint = e
                       /\ \A j \in i + 1 .. n : Descriptor[j].endpoint # e
    IN  [e \in found |->
            Descriptor[IF last(e) = 1 THEN 1 ELSE last(e) - 1].info]

\* The map built from the first n endpoint descriptors: a later descriptor of
\* an endpoint replaces an earlier one.
CacheOf(n) ==
    LET found == {Descriptor[i].endpoint : i \in 1 .. n}
        last(e) == CHOOSE i \in 1 .. n :
                       /\ Descriptor[i].endpoint = e
                       /\ \A j \in i + 1 .. n : Descriptor[j].endpoint # e
    IN  [e \in found |-> Descriptor[last(e)].info]

\* The addresses under which the descriptor in which a read of n whole ones
\* ends may be added: none before its type is read, then an endpoint without its
\* address, then with it.
CutAfter(n) == {{}, {EndpointZero}, {Descriptor[n + 1].endpoint}}

CutCacheOf(n, cut) ==
    [e \in cut \cup DOMAIN CacheOf(n) |-> IF e \in cut THEN CutInfo ELSE CacheOf(n)[e]]

\* Only the first read's length is checked, so a short second read gives a map
\* of what it reached.
ReadEndpoints ==
    \/ refresh' = "full" /\ filled' = "full" /\ cache' = CacheOf(Len(Descriptor))
    \/ /\ refresh' = "short" /\ filled' = "short"
       /\ \E n \in 0 .. Len(Descriptor) - 1 : \E cut \in CutAfter(n) :
              cache' = CutCacheOf(n, cut)

\* refresh_endpoint_cache; a read that fails leaves the cache alone.
RefreshEndpointCache ==
    \/ ReadEndpoints
    \/ refresh' = "failed" /\ UNCHANGED kept

-----------------------------------------------------------------------------
Init ==
    /\ file = "none"
    /\ claimed = {}
    /\ alt = [i \in Interfaces |-> 0]
    /\ toggle = [e \in Endpoints |-> 0]
    /\ halted = {}
    /\ cache = NoEntries /\ filled = "none"
    /\ refresh = "failed"

\* open, with the best-effort warmup; an open that fails leaves nothing behind.
\* What a file opened for reading refuses is a call that fails.
OpenDevice ==
    /\ ~Open
    /\ file' = "open"
    /\ \/ ReadEndpoints
       \/ refresh' = "failed" /\ cache' = NoEntries /\ filled' = "none"
    /\ UNCHANGED <<claimed, alt, pipes>>

\* Dropping the device closes the file.
Close ==
    /\ Open
    /\ file' = "none"
    /\ claimed' = {}
    /\ cache' = NoEntries /\ filled' = "none"
    /\ UNCHANGED <<alt, pipes, refresh>>

-----------------------------------------------------------------------------
(* Interfaces                                                              *)

ClaimInterface(i) ==
    /\ Open
    /\ claimed' = claimed \cup {i}
    /\ UNCHANGED <<file, alt, pipes, kept, refresh>>

\* Fault: one release gives up every interface.
ReleaseAll(i) ==
    /\ Open
    /\ i \in claimed
    /\ claimed' = {}
    /\ UNCHANGED <<file, alt, pipes, kept, refresh>>

ReleaseInterface(i) ==
    /\ Open
    /\ i \in claimed
    /\ claimed' = claimed \ {i}
    /\ UNCHANGED <<file, alt, pipes, kept, refresh>>

\* The endpoints of the interface start afresh; a refresh that fails is not an
\* error.
SetAlternateSetting(i, a) ==
    /\ Open
    /\ i \in claimed
    /\ alt' = [alt EXCEPT ![i] = a]
    /\ toggle' = [e \in Endpoints |-> IF Owner[e] = i THEN 0 ELSE toggle[e]]
    /\ halted' = {e \in halted : Owner[e] # i}
    /\ RefreshEndpointCache
    /\ UNCHANGED <<file, claimed>>

ResetDevice ==
    /\ Open
    /\ alt' = [i \in Interfaces |-> 0]
    /\ toggle' = [e \in Endpoints |-> 0]
    /\ halted' = {}
    /\ UNCHANGED <<file, claimed, kept, refresh>>

-----------------------------------------------------------------------------
(* Pipes                                                                   *)

\* USBDEVFS_BULK moves one packet, or the endpoint stalls.
RawBulk(e) ==
    /\ Open
    /\ Owner[e] \in claimed
    /\ e \notin halted
    /\ \/ toggle' = [toggle EXCEPT ![e] = 1 - @] /\ UNCHANGED halted
       \/ halted' = halted \cup {e} /\ UNCHANGED toggle
    /\ UNCHANGED <<file, claimed, alt, kept, refresh>>

\* bulk_read, interrupt_read and their async forms.
BulkRead(e) == e \in InEndpoints /\ RawBulk(e)

\* bulk_write, interrupt_write and their async forms.
BulkWrite(e) == e \notin InEndpoints /\ RawBulk(e)

ResetPipe(e) ==
    /\ Open
    /\ Owner[e] \in claimed
    /\ toggle' = [toggle EXCEPT ![e] = 0]
    /\ halted' = halted \ {e}
    /\ UNCHANGED <<file, claimed, alt, kept, refresh>>

AbortPipe(e) == ResetPipe(e)

\* Fault: a cache that has something is not read again.
GetPipeInfoCached(e) ==
    /\ Open
    /\ IF cache # NoEntries THEN refresh' = "none" /\ UNCHANGED kept
                            ELSE RefreshEndpointCache
    /\ UNCHANGED <<file, claimed, alt, pipes>>

\* What get_pipe_info answers is what the cache then has of e; when it has
\* nothing, or the refresh failed, an error.
GetPipeInfo(e) ==
    /\ Open
    /\ IF e \in DOMAIN cache THEN refresh' = "none" /\ UNCHANGED kept
                            ELSE RefreshEndpointCache
    /\ UNCHANGED <<file, claimed, alt, pipes>>

-----------------------------------------------------------------------------
Next ==
    \/ \E e \in Endpoints : AbortPipe(e) \/ ResetPipe(e)
    \/ \E i \in Interfaces, a \in Alts : SetAlternateSetting(i, a)
    \/ \E i \in Interfaces : ClaimInterface(i) \/ ReleaseInterface(i)
    \/ \E e \in Endpoints : BulkRead(e) \/ BulkWrite(e)
    \/ \E e \in Endpoints \cup {EndpointZero} : GetPipeInfo(e)
    \/ OpenDevice
    \/ ResetDevice
    \/ Close

Spec == Init /\ [][Next]_vars

-----------------------------------------------------------------------------
(* Properties                                                              *)

\* Every variable holds a value of its kind; there is a cache while the device
\* is open.
TypeOK ==
    /\ file \in {"none", "open"}
    /\ claimed \subseteq Interfaces
    /\ alt \in [Interfaces -> Alts]
    /\ toggle \in [Endpoints -> {0, 1}]
    /\ halted \subseteq Endpoints
    /\ DOMAIN cache \subseteq IF Open THEN Endpoints \cup {EndpointZero} ELSE {}
    /\ Range(cache) \subseteq Infos \cup {CutInfo}
    /\ filled \in {"none", "full", "short"}
    /\ refresh \in {"none", "full", "short", "failed"}

\* The descriptors of e.
Described(e) == {i \in DOMAIN Descriptor : Descriptor[i].endpoint = e}

\* Endpoints whose entry has zeros that no descriptor has.
MadeUp == {e \in DOMAIN cache : cache[e] = CutInfo}

\* An endpoint that one alternate setting has is cached with its descriptor's
\* values, whatever reads failed or fell short before; but a read that fell
\* short leaves the values of the one endpoint it ended in made up.
SingleSettingExact ==
    /\ \A e \in DOMAIN cache \ MadeUp, i \in DOMAIN Descriptor :
           Described(e) = {i} => cache[e] = Descriptor[i].info
    /\ \A e, f \in MadeUp : e = f
    /\ MadeUp # {} => filled = "short"

\* get_pipe_info says an endpoint of the configuration is not there only after
\* a descriptor read that failed or fell short in that very call: a cache that
\* an earlier read left incomplete is not the reason.
MissIsUnread ==
    \A e \in Endpoints :
        GetPipeInfo(e) /\ Described(e) # {} /\ e \notin DOMAIN cache' =>
            refresh' \in {"short", "failed"}
=============================================================================
