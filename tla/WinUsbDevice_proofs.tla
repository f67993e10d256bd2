------------------------ MODULE WinUsbDevice_proofs ------------------------
(***************************************************************************)
(* The handle bookkeeping of WinUsbDevice is right for every device: any   *)
(* interfaces, endpoints, settings, associated order and handle values.    *)
(***************************************************************************)
EXTENDS WinUsbDevice, TLAPS

LEMMA InitInv == Init => Inv
<1> SUFFICES ASSUME Init PROVE Inv
  OBVIOUS
<1> USE DeviceAssumption DEF Init, NoEntries
<1>1. TypeOK
  BY DEF TypeOK
<1>2. Lifecycle
  BY DEF Lifecycle
<1>3. NoLeak /\ NoDangling /\ NoAlias /\ CacheSound
  BY DEF NoLeak, NoDangling, NoAlias, CacheSound, Live, Values
<1> QED
  BY <1>1, <1>2, <1>3 DEF Inv

\* A new entry with a new value keeps a table of entries free of aliases.
LEMMA WithNewEntry ==
  ASSUME NEW f, NEW x, NEW v,
         x \notin DOMAIN f, v \notin Values(f),
         \A i, j \in DOMAIN f : f[i] = f[j] => i = j
  PROVE  LET g == With(f, {x}, v)
         IN  /\ Values(g) = Values(f) \cup {v}
             /\ \A i, j \in DOMAIN g : g[i] = g[j] => i = j
<1> DEFINE g == With(f, {x}, v)
<1>1. /\ DOMAIN g = DOMAIN f \cup {x}
      /\ g[x] = v
      /\ \A i \in DOMAIN f : g[i] = f[i]
  BY DEF With
<1>2. \A i \in DOMAIN f : f[i] # v
  BY DEF Values
<1> HIDE DEF g
<1>3. Values(g) = Values(f) \cup {v}
  BY <1>1 DEF Values
<1>4. \A i, j \in DOMAIN g : g[i] = g[j] => i = j
  <2> SUFFICES ASSUME NEW i \in DOMAIN g, NEW j \in DOMAIN g, g[i] = g[j] PROVE i = j
    OBVIOUS
  <2> QED BY <1>1, <1>2
<1> QED BY <1>3, <1>4 DEF g

LEMMA StepInv == Inv /\ [Next]_vars => Inv'
<1> SUFFICES ASSUME Inv, [Next]_vars PROVE Inv'
  OBVIOUS
<1> USE DeviceAssumption DEF Inv, device, scan, driver
<1>1. ASSUME NEW access \in {"rw", "ro"}, CreateFile(access) PROVE Inv'
  <2>1. TypeOK' BY <1>1 DEF CreateFile, TypeOK
  <2>2. Lifecycle' BY <1>1 DEF CreateFile, Lifecycle
  <2>3. (NoLeak /\ NoDangling /\ NoAlias /\ CacheSound)'
    BY <1>1 DEF CreateFile, NoLeak, NoDangling, NoAlias, CacheSound, Live, Held, Kept, Values
  <2> QED BY <2>1, <2>2, <2>3
<1>2. ASSUME NEW h \in Handles, Initialize(h) PROVE Inv'
  <2>1. TypeOK' BY <1>2 DEF Initialize, TypeOK, OpenHandle, NoEntries
  <2>2. Lifecycle' BY <1>2 DEF Initialize, Lifecycle, NoEntries
  <2>3. NoLeak' BY <1>2 DEF Initialize, NoLeak, Live, Held, Kept, Values, OpenHandle, NoEntries, TypeOK, Lifecycle
  <2>4. NoDangling' BY <1>2 DEF Initialize, NoDangling, OpenHandle, NoEntries, TypeOK, Lifecycle
  <2>5. NoAlias' BY <1>2 DEF Initialize, NoAlias, NoEntries, Values, Lifecycle, TypeOK
  <2>6. CacheSound' BY <1>2 DEF Initialize, CacheSound, NoEntries
  <2> QED BY <2>1, <2>2, <2>3, <2>4, <2>5, <2>6
<1>3. ASSUME InitializeFails PROVE Inv'
  <2>1. TypeOK' BY <1>3 DEF InitializeFails, TypeOK
  <2>2. Lifecycle' BY <1>3 DEF InitializeFails, Lifecycle, TypeOK
  <2>3. (NoLeak /\ NoDangling /\ NoAlias /\ CacheSound)'
    BY <1>3 DEF InitializeFails, NoLeak, NoDangling, NoAlias, CacheSound, Live, Held, Kept, Values
  <2> QED BY <2>1, <2>2, <2>3
<1>4. ASSUME ClaimPrimary PROVE Inv'
  <2>0. PICK found \in SUBSET QueryPipes(usb, Alt0) : cache' = With(cache, found, usb)
    BY <1>4 DEF ClaimPrimary, BuildEndpointCache
  <2>1. TypeOK' BY <1>4, <2>0 DEF ClaimPrimary, TypeOK, Lifecycle, With, QueryPipes
  <2>2. Lifecycle' BY <1>4 DEF ClaimPrimary, Lifecycle
  <2>3. (NoLeak /\ NoDangling /\ NoAlias)'
    BY <1>4 DEF ClaimPrimary, NoLeak, NoDangling, NoAlias, Live, Held, Kept, Values
  <2>4. CacheSound'
    BY <1>4, <2>0 DEF ClaimPrimary, CacheSound, With, QueryPipes, Kept, Values
  <2> QED BY <2>1, <2>2, <2>3, <2>4
<1>5. ASSUME NEW i \in Interfaces, ClaimAgain(i) PROVE Inv'
  <2>1. TypeOK' BY <1>5 DEF ClaimAgain, TypeOK
  <2>2. Lifecycle' BY <1>5 DEF ClaimAgain, Lifecycle
  <2>3. (NoLeak /\ NoDangling /\ NoAlias /\ CacheSound)'
    BY <1>5 DEF ClaimAgain, NoLeak, NoDangling, NoAlias, CacheSound, Live, Held, Kept, Values
  <2> QED BY <2>1, <2>2, <2>3
<1>6. ASSUME NEW i \in Interfaces, BeginClaim(i) PROVE Inv'
  <2>1. TypeOK' BY <1>6 DEF BeginClaim, TypeOK
  <2>2. Lifecycle' BY <1>6 DEF BeginClaim, Lifecycle
  <2>3. (NoLeak /\ NoDangling /\ NoAlias /\ CacheSound)'
    BY <1>6 DEF BeginClaim, NoLeak, NoDangling, NoAlias, CacheSound, Live, Held, Kept, Values
  <2> QED BY <2>1, <2>2, <2>3
<1>7. ASSUME NEW h \in Handles, GetAssociatedInterface(h) PROVE Inv'
  <2> USE <1>7 DEF GetAssociatedInterface, OpenHandle
  <2>0. idx + 1 \in 1 .. Len(AssocOrder) /\ AssocOrder[idx + 1] \in Interfaces
    BY DEF TypeOK
  <2>1. TypeOK' BY <2>0 DEF TypeOK
  <2>2. Lifecycle' BY DEF Lifecycle, TypeOK
  <2>3. NoLeak' BY <2>0 DEF NoLeak, Live, Held, Kept, Values, TypeOK, Lifecycle
  <2>4. NoDangling' BY <2>0 DEF NoDangling, TypeOK
  <2>5. NoAlias' BY DEF NoAlias, NoDangling, Values, TypeOK
  <2>6. CacheSound' BY DEF CacheSound, NoDangling, Kept, Values, TypeOK
  <2> QED BY <2>1, <2>2, <2>3, <2>4, <2>5, <2>6
<1>8. ASSUME ScanEnds PROVE Inv'
  <2>1. TypeOK' BY <1>8 DEF ScanEnds, TypeOK
  <2>2. Lifecycle' BY <1>8 DEF ScanEnds, Lifecycle
  <2>3. (NoLeak /\ NoDangling /\ NoAlias /\ CacheSound)'
    BY <1>8 DEF ScanEnds, NoLeak, NoDangling, NoAlias, CacheSound, Live, Held, Kept, Values
  <2> QED BY <2>1, <2>2, <2>3
<1>9. ASSUME InterfaceFound PROVE Inv'
  <2> USE <1>9 DEF InterfaceFound
  <2>0. PICK found \in SUBSET QueryPipes(probe, Alt0) : cache' = With(cache, found, probe)
    BY DEF BuildEndpointCache
  <2>1. TypeOK' BY <2>0 DEF TypeOK, Lifecycle, With, QueryPipes
  <2>2. Lifecycle' BY DEF Lifecycle, With
  <2>3. NoLeak' BY DEF NoLeak, Live, Held, Kept, Values, With, Lifecycle
  <2>4. NoDangling' BY DEF NoDangling, With
  <2>5. NoAlias'
    <3>1. want \notin DOMAIN assoc /\ probe # None /\ probe \notin Values(assoc) /\ usb # probe
      BY DEF NoAlias, Lifecycle
    <3>2. /\ Values(assoc') = Values(assoc) \cup {probe}
          /\ \A i, j \in DOMAIN assoc' : assoc'[i] = assoc'[j] => i = j
      <4>1. \A i, j \in DOMAIN assoc : assoc[i] = assoc[j] => i = j
        BY DEF NoAlias
      <4>2. assoc' = With(assoc, {want}, probe)
        OBVIOUS
      <4> QED BY <3>1, <4>1, <4>2, WithNewEntry
    <3> QED BY <3>1, <3>2 DEF NoAlias
  <2>6. CacheSound' BY <2>0 DEF CacheSound, With, QueryPipes, Kept, Values, Lifecycle
  <2> QED BY <2>1, <2>2, <2>3, <2>4, <2>5, <2>6
<1>10. ASSUME NotTheInterface PROVE Inv'
  <2> USE <1>10 DEF NotTheInterface, WinUsbFree
  <2>1. TypeOK' BY DEF TypeOK, Lifecycle
  <2>2. Lifecycle' BY DEF Lifecycle
  <2>3. NoLeak' BY DEF NoLeak, Live, Held, Kept, Values, TypeOK
  <2>4. NoDangling' BY DEF NoDangling, NoAlias, Values, Lifecycle, TypeOK
  <2>5. NoAlias' BY DEF NoAlias, Values
  <2>6. CacheSound' BY DEF CacheSound, NoAlias, Kept, Values, Lifecycle, TypeOK
  <2> QED BY <2>1, <2>2, <2>3, <2>4, <2>5, <2>6
<1>11. ASSUME NEW i \in Interfaces, Release(i) PROVE Inv'
  <2> USE <1>11 DEF Release, WinUsbFree
  <2>1. TypeOK' BY DEF TypeOK, Drop
  <2>2. Lifecycle' BY DEF Lifecycle, Drop
  <2>3. NoLeak' BY DEF NoLeak, Live, Held, Kept, Values, Drop, TypeOK
  <2>4. NoDangling' BY DEF NoDangling, NoAlias, Values, Drop, TypeOK, Lifecycle
  <2>5. NoAlias' BY DEF NoAlias, Values, Drop
  <2>6. CacheSound' BY DEF CacheSound, Kept, Values, Drop, TypeOK
  <2> QED BY <2>1, <2>2, <2>3, <2>4, <2>5, <2>6
<1>12. ASSUME Operate PROVE Inv'
  <2>1. /\ UNCHANGED <<pc, file, usb, assoc, cache, want, idx, probe, kernel>>
        /\ result' \in {"none", "ok", "err"}
        /\ alt' \in [Interfaces -> Alts]
        /\ timeoutMs' \in [Endpoints -> Timeouts]
    BY <1>12 DEF Operate, SetAlternateSetting, ResetDevice, Transfer, SetPipePolicy,
                 SetTimeoutPolicy, Outcomes, TypeOK
  <2> QED
    BY <2>1 DEF TypeOK, Lifecycle, NoLeak, NoDangling, NoAlias, CacheSound, Live, Held, Kept, Values
<1>13. ASSUME BeginDrop PROVE Inv'
  <2>1. TypeOK' BY <1>13 DEF BeginDrop, TypeOK
  <2>2. Lifecycle' BY <1>13 DEF BeginDrop, Lifecycle
  <2>3. (NoLeak /\ NoDangling /\ NoAlias /\ CacheSound)'
    BY <1>13 DEF BeginDrop, NoLeak, NoDangling, NoAlias, CacheSound, Live, Held, Kept, Values
  <2> QED BY <2>1, <2>2, <2>3
<1>14. ASSUME NEW i \in Interfaces, FreeAssociated(i) PROVE Inv'
  <2> USE <1>14 DEF FreeAssociated, WinUsbFree
  <2>1. TypeOK' BY DEF TypeOK, Drop
  <2>2. Lifecycle' BY DEF Lifecycle, Drop
  <2>3. NoLeak' BY DEF NoLeak, Live, Held, Kept, Values, Drop, TypeOK
  <2>4. NoDangling' BY DEF NoDangling, NoAlias, Values, Drop, TypeOK, Lifecycle
  <2>5. NoAlias' BY DEF NoAlias, Values, Drop
  <2>6. CacheSound' BY DEF CacheSound
  <2> QED BY <2>1, <2>2, <2>3, <2>4, <2>5, <2>6
<1>15. ASSUME FreePrimary PROVE Inv'
  <2> USE <1>15 DEF FreePrimary, WinUsbFree
  <2>1. TypeOK' BY DEF TypeOK
  <2>2. Lifecycle' BY DEF Lifecycle
  <2>3. NoLeak' BY DEF NoLeak, Live, Held, Kept, Values, TypeOK
  <2>4. NoDangling' BY DEF NoDangling, NoAlias, TypeOK
  <2>5. NoAlias' BY DEF NoAlias, Values
  <2>6. CacheSound' BY DEF CacheSound
  <2> QED BY <2>1, <2>2, <2>3, <2>4, <2>5, <2>6
<1>16. ASSUME CloseFile PROVE Inv'
  <2> USE <1>16 DEF CloseFile, NoEntries
  <2>1. TypeOK' BY DEF TypeOK
  <2>2. Lifecycle' BY DEF Lifecycle
  <2>3. (NoLeak /\ NoDangling /\ NoAlias)' BY DEF NoLeak, NoDangling, NoAlias, Live, Held, Kept, Values
  <2>4. CacheSound' BY DEF CacheSound
  <2> QED BY <2>1, <2>2, <2>3, <2>4
<1>17. ASSUME UNCHANGED vars PROVE Inv'
  BY <1>17 DEF vars, TypeOK, Lifecycle, NoLeak, NoDangling, NoAlias, CacheSound, Live, Held, Kept, Values
<1> QED
  BY <1>1, <1>2, <1>3, <1>4, <1>5, <1>6, <1>7, <1>8, <1>9, <1>10, <1>11, <1>12, <1>13,
     <1>14, <1>15, <1>16, <1>17 DEF Next, Open, Claim, ScanStep, DropStep

\* The inductive invariant of the device object.
THEOREM InvHolds == Spec => []Inv
<1> QED
  BY InitInv, StepInv, PTL DEF Spec

\* Every variable keeps a value of its kind.
THEOREM TypeCorrect == Spec => []TypeOK
<1>1. Inv => TypeOK
  BY DEF Inv
<1> QED
  BY <1>1, InvHolds, PTL

\* claim, release and drop neither lose a WinUSB handle nor keep a freed one,
\* whichever driver call fails.
THEOREM HandlesStayAccounted == Spec => []HandlesAccounted
<1>1. Inv => HandlesAccounted
  BY DEF Inv, HandlesAccounted
<1> QED
  BY <1>1, InvHolds, PTL

\* The endpoint cache never leads to a freed or a foreign handle.
THEOREM CacheIsSound == Spec => []CacheSound
<1>1. Inv => CacheSound
  BY DEF Inv
<1> QED
  BY <1>1, InvHolds, PTL

\* Endpoints of setting 0 are routed to the interface that owns them.
THEOREM RoutesToOwner == Spec => []RouteToOwner
<1>1. Inv => RouteToOwner
  <2> SUFFICES ASSUME Inv, pc = "idle", NEW e \in Endpoints,
                      Owner[e] \in Claimed, Alt0 \in EpAlts[e]
               PROVE  HandleForEndpoint(e) = InterfaceHandle(Owner[e])
    BY DEF RouteToOwner
  <2> DEFINE own == InterfaceHandle(Owner[e])
             hits == {h \in Kept : e \in QueryPipes(h, Alt0)}
  <2>1. usb # None /\ own \in Kept /\ kernel[own] = Owner[e]
    BY DEF Inv, Lifecycle, NoDangling, InterfaceHandle, Kept, Values, Claimed
  <2>2. \A h \in Kept : kernel[h] = Owner[e] => h = own
    <3> SUFFICES ASSUME NEW h \in Kept, kernel[h] = Owner[e] PROVE h = own
      OBVIOUS
    <3>1. CASE h = usb
      BY <3>1, <2>1, DeviceAssumption DEF Inv, TypeOK, NoDangling, InterfaceHandle
    <3>2. CASE h \in Values(assoc)
      <4>1. PICK i \in DOMAIN assoc : h = assoc[i]
        BY <3>2 DEF Values
      <4>2. kernel[h] = i /\ i # Primary
        BY <4>1 DEF Inv, TypeOK, NoDangling
      <4> QED BY <4>1, <4>2 DEF InterfaceHandle
    <3> QED BY <3>1, <3>2 DEF Kept
  <2>3. CASE e \in DOMAIN cache
    <3>1. cache[e] = own
      BY <2>3, <2>2 DEF Inv, CacheSound
    <3> QED BY <3>1, <2>3 DEF HandleForEndpoint
  <2>4. CASE e \notin DOMAIN cache /\ DOMAIN assoc = {}
    <3>1. Owner[e] = Primary
      BY <2>4 DEF Claimed
    <3> QED BY <3>1, <2>4 DEF HandleForEndpoint, InterfaceHandle
  <2>5. CASE e \notin DOMAIN cache /\ DOMAIN assoc # {}
    <3>1. hits = {own}
      BY <2>1, <2>2 DEF QueryPipes
    <3>2. HandleForEndpoint(e) = CHOOSE h \in hits : TRUE
      BY <3>1, <2>5 DEF HandleForEndpoint
    <3> QED BY <3>1, <3>2
  <2> QED BY <2>3, <2>4, <2>5
<1> QED
  BY <1>1, InvHolds, PTL

\* Handles go in the order associated, primary, file.
THEOREM TearsDownInOrder == Spec => []TeardownOrder
<1>1. Inv => TeardownOrder
  BY DeviceAssumption
     DEF Inv, TypeOK, Lifecycle, NoLeak, NoDangling, TeardownOrder, Live, Held, Kept, Values
<1> QED
  BY <1>1, InvHolds, PTL

\* claim_interface says Ok exactly when the interface is held.
THEOREM ClaimOutcomeHolds == Spec => ClaimOutcome
<1>1. Inv /\ [Next]_vars =>
        [(pc \in {"scan", "query"} /\ pc' = "idle") =>
            (result' = "ok" <=> want \in Claimed')]_vars
  <2> SUFFICES ASSUME Inv, Next, pc \in {"scan", "query"}, pc' = "idle"
               PROVE  result' = "ok" <=> want \in Claimed'
    BY DEF vars
  <2>1. CASE ScanEnds
    BY <2>1 DEF ScanEnds, Claimed, device, Inv, Lifecycle
  <2>2. CASE InterfaceFound
    BY <2>2 DEF InterfaceFound, Claimed, With
  <2> QED
    BY <2>1, <2>2 DEF Next, Open, Claim, ScanStep, Operate, DropStep, CreateFile, Initialize,
      InitializeFails, ClaimPrimary, ClaimAgain, BeginClaim, GetAssociatedInterface,
      NotTheInterface, Release, SetAlternateSetting, ResetDevice, Transfer, SetPipePolicy,
      BeginDrop, FreeAssociated, FreePrimary, CloseFile
<1> QED
  BY <1>1, InvHolds, PTL DEF Spec, ClaimOutcome

\* A handle an endpoint is looked up to, when it serves the endpoint, is the one
\* kept for the interface of the endpoint.
LEMMA ServedIsClaimed ==
    ASSUME Inv, pc = "idle", NEW e \in Endpoints, Serves(HandleForEndpoint(e), e)
    PROVE  Owner[e] \in Claimed
<1> DEFINE h == HandleForEndpoint(e)
<1>1. h \in Kept
  <2> DEFINE hits == {k \in Kept : e \in QueryPipes(k, Alt0)}
  <2>1. e \in DOMAIN cache => cache[e] \in Kept
    BY DEF Inv, CacheSound
  <2>2. hits # {} => (CHOOSE k \in hits : TRUE) \in hits
    OBVIOUS
  <2>3. usb \in Kept
    BY DEF Kept
  <2>4. h \in {cache[e], CHOOSE k \in hits : TRUE, usb} /\ hits \subseteq Kept
    BY DEF HandleForEndpoint
  <2>5. CASE e \in DOMAIN cache
    BY <2>1, <2>5 DEF HandleForEndpoint
  <2>6. CASE e \notin DOMAIN cache
    BY <2>2, <2>3, <2>6 DEF HandleForEndpoint
  <2> QED
    BY <2>5, <2>6
<1>2. kernel[h] = Owner[e]
  BY DEF Serves
<1>3. CASE h = usb
  BY <1>2, <1>3 DEF Inv, Lifecycle, NoDangling, Claimed
<1>4. CASE h \in Values(assoc)
  <2>1. PICK i \in DOMAIN assoc : assoc[i] = h
    BY <1>4 DEF Values
  <2>2. kernel[h] = i
    BY <2>1 DEF Inv, NoDangling
  <2> QED
    BY <1>2, <2>1, <2>2 DEF Claimed
<1> QED
  BY <1>1, <1>3, <1>4 DEF Kept

\* Neither a transfer that succeeds nor a timeout policy reaches an endpoint of
\* an interface that is not claimed.
THEOREM ClaimedOnlyReached == Spec => ReachesClaimedOnly
<1> USE DEF device, scan, driver
<1>1. Inv /\ [Next]_vars =>
        [\A e \in Endpoints :
            (\/ timeoutMs'[e] # timeoutMs[e]
             \/ \E ms \in Timeouts : Transfer(e, ms) /\ result' = "ok")
                => Owner[e] \in Claimed]_vars
  <2> SUFFICES ASSUME Inv, [Next]_vars, NEW e \in Endpoints,
                      \/ timeoutMs'[e] # timeoutMs[e]
                      \/ \E ms \in Timeouts : Transfer(e, ms) /\ result' = "ok"
               PROVE  Owner[e] \in Claimed
    OBVIOUS
  <2>1. CASE \E ms \in Timeouts : Transfer(e, ms) /\ result' = "ok"
    BY <2>1, ServedIsClaimed DEF Transfer, Outcomes
  <2>2. CASE timeoutMs'[e] # timeoutMs[e]
    <3>1. PICK d \in Endpoints, ms \in Timeouts : Transfer(d, ms) \/ SetPipePolicy(d, ms)
      BY <2>2 DEF vars, Next, Open, Claim, ScanStep, Operate, DropStep, CreateFile,
        Initialize, InitializeFails, ClaimPrimary, ClaimAgain, BeginClaim,
        GetAssociatedInterface, ScanEnds, InterfaceFound, NotTheInterface, Release,
        SetAlternateSetting, ResetDevice, BeginDrop, FreeAssociated, FreePrimary, CloseFile
    <3>2. pc = "idle" /\ SetTimeoutPolicy(HandleForEndpoint(d), d, ms)
      BY <2>2, <3>1 DEF Transfer, SetPipePolicy
    <3>3. Serves(HandleForEndpoint(d), d) /\ timeoutMs' = [timeoutMs EXCEPT ![d] = ms]
      BY <2>2, <3>2 DEF SetTimeoutPolicy
    <3>4. d = e
      BY <2>2, <3>3 DEF Inv, TypeOK
    <3> QED
      BY <3>2, <3>3, <3>4, ServedIsClaimed
  <2> QED
    BY <2>1, <2>2
<1> QED
  BY <1>1, InvHolds, PTL DEF Spec, ReachesClaimedOnly

-----------------------------------------------------------------------------
\* The device implements the ownership contract of the trait.
THEOREM ClaimsRefined == Spec => ImplementsClaims
<1>1. Init => Contract!Init
  BY DEF Init, Contract!Init, Claimed, NoEntries
<1>2. Inv /\ [Next]_vars => [Contract!Next]_(Contract!vars)
  <2> SUFFICES ASSUME Inv, [Next]_vars
               PROVE  Contract!Next \/ UNCHANGED <<usb # None, Claimed>>
    BY DEF Contract!vars
  <2> USE DEF device, scan, driver
  <2>1. CASE UNCHANGED <<usb, assoc>>
    BY <2>1 DEF Claimed
  <2>2. ASSUME NEW h \in Handles, Initialize(h) PROVE Contract!Open
    BY <2>2, DeviceAssumption
       DEF Initialize, Contract!Open, Claimed, NoEntries, Inv, Lifecycle
  <2>3. ASSUME InterfaceFound PROVE Contract!Claim(want)
    BY <2>3 DEF InterfaceFound, Contract!Claim, Claimed, With, Inv, Lifecycle
  <2>4. ASSUME NEW i \in Interfaces, Release(i) \/ FreeAssociated(i)
        PROVE  Contract!Release(i)
    BY <2>4 DEF Release, FreeAssociated, Contract!Release, Claimed, Drop, Inv, Lifecycle, TypeOK
  <2>5. ASSUME FreePrimary PROVE Contract!Close
    BY <2>5 DEF FreePrimary, Contract!Close, Claimed
  <2>6. InterfaceFound => want \in Interfaces
    BY DEF InterfaceFound, Inv, Lifecycle
  <2>7. [Next]_vars => \/ UNCHANGED <<usb, assoc>>
                       \/ \E h \in Handles : Initialize(h)
                       \/ InterfaceFound
                       \/ \E i \in Interfaces : Release(i) \/ FreeAssociated(i)
                       \/ FreePrimary
    BY DEF Next, vars, Open, Claim, ScanStep, Operate, DropStep, CreateFile,
      InitializeFails, ClaimPrimary, ClaimAgain, BeginClaim, GetAssociatedInterface, ScanEnds,
      NotTheInterface, SetAlternateSetting, ResetDevice, Transfer, SetPipePolicy,
      BeginDrop, CloseFile
  <2> QED
    BY <2>1, <2>2, <2>3, <2>4, <2>5, <2>6, <2>7 DEF Contract!Next
<1> QED
  BY <1>1, <1>2, InvHolds, PTL DEF Spec, ImplementsClaims, Contract!Spec
=============================================================================
