------------------------- MODULE UnixDevices_proofs -------------------------
(***************************************************************************)
(* For every device, in whatever settings and whatever its configuration   *)
(* descriptor says: both backends keep the ownership contract of the       *)
(* trait, the cache of the Linux backend says of an endpoint what its      *)
(* descriptor says, and the walk of the macOS backend leaves nothing       *)
(* behind and uses the pipe it was asked for.                              *)
(***************************************************************************)
EXTENDS UnixDevices, FiniteSetTheorems, WellFoundedInduction, SequenceTheorems, TLAPS

\* The platform that is not built stays as it was.
PlatformInv ==
    /\ platform \in {"linux", "macos"}
    /\ platform = "linux" => Linux!TypeOK /\ NoMacOs
    /\ platform = "macos" => MacOs!TypeOK /\ NoLinux

\* Nothing is claimed by a device that is not open.
ClaimInv ==
    /\ platform = "linux" /\ ~Linux!Open => claimed = {}
    /\ platform = "macos" /\ pc = "closed" => claimed = {}

\* macOS: what a call holds is known from where it stands in the walk, and past
\* the first service the iterator is at an interface.
HeldInv ==
    /\ held = CASE pc \in {"closed", "idle"} -> {}
                [] pc = "next" -> {"iter"}
                [] pc = "plugin" -> {"iter", "service"}
                [] pc = "query" -> {"iter", "plugin"}
                [] pc \in {"open", "inspect"} -> {"iter", "interface"}
                [] OTHER -> {"interface"}
    /\ pc \in {"plugin", "query", "open", "inspect", "use"} => pos \in DOMAIN Order

MacOsInv == platform = "macos" => HeldInv /\ MacOs!PipeIsTheEndpoints

Inv == PlatformInv /\ ClaimInv /\ SingleSettingExact /\ MacOsInv

-----------------------------------------------------------------------------
(* The cache that is built from descriptors                                *)

\* The induction over finite sets: of the sets with a property, if there are
\* any, one has no other of them inside it.
LEMMA SmallestSet ==
  ASSUME NEW S, IsFiniteSet(S), NEW T, T \subseteq SUBSET S, T # {}
  PROVE  \E x \in T : \A y \in T : y \subseteq x => y = x
<1>1. T \subseteq FiniteSubsetsOf(S)
  BY FS_FiniteSubsetsOfFinite
<1>2. PICK x \in T : \A y \in T : ~(<<y, x>> \in StrictSubsetOrdering(S))
  BY <1>1, FS_StrictSubsetOrderingWellFounded, WFMin
<1> QED
  BY <1>2 DEF StrictSubsetOrdering

\* Among some of the first n indices there is a last one.
LEMMA LastIndex ==
  ASSUME NEW n \in Nat, NEW P \in SUBSET (1 .. n), P # {}
  PROVE  \E m \in P : \A j \in m + 1 .. n : j \notin P
<1> DEFINE S == 1 .. n
           T == {i + 1 .. n : i \in P}
<1>1. PICK x \in T : \A y \in T : y \subseteq x => y = x
  <2>1. IsFiniteSet(S)
    BY FS_Interval
  <2>2. T \subseteq SUBSET S
    <3> SUFFICES ASSUME NEW i \in P PROVE i + 1 .. n \subseteq 1 .. n
      OBVIOUS
    <3> QED
      OBVIOUS
  <2>3. T # {}
    OBVIOUS
  <2> HIDE DEF S, T
  <2> QED
    BY <2>1, <2>2, <2>3, SmallestSet
<1>2. PICK m \in P : x = m + 1 .. n
  BY <1>1
<1>3. ASSUME NEW j \in m + 1 .. n, j \in P PROVE FALSE
  <2>1. j + 1 .. n \subseteq x /\ j + 1 .. n \in T
    BY <1>2, <1>3
  <2>2. j + 1 .. n = x
    BY <1>1, <2>1
  <2>3. j \in x /\ j \notin j + 1 .. n
    BY <1>2, <1>3
  <2> QED
    BY <2>2, <2>3
<1> QED
  BY <1>3

\* The map of the first n descriptors has their endpoints, each with the info of
\* one of its descriptors among them.
LEMMA CacheOfIs ==
  ASSUME NEW n \in 0 .. Len(Descriptor)
  PROVE  /\ DOMAIN Linux!CacheOf(n) = {Descriptor[i].endpoint : i \in 1 .. n}
         /\ \A e \in DOMAIN Linux!CacheOf(n) : \E i \in 1 .. n :
                /\ Descriptor[i].endpoint = e
                /\ Linux!CacheOf(n)[e] = Descriptor[i].info
<1> USE UnixAssumption
<1> DEFINE found == {Descriptor[i].endpoint : i \in 1 .. n}
           IsLast(e, i) == /\ Descriptor[i].endpoint = e
                           /\ \A j \in i + 1 .. n : Descriptor[j].endpoint # e
           last(e) == CHOOSE i \in 1 .. n : IsLast(e, i)
<1>1. Linux!CacheOf(n) = [e \in found |-> Descriptor[last(e)].info]
  BY DEF Linux!CacheOf
<1>2. ASSUME NEW e \in found PROVE last(e) \in 1 .. n /\ IsLast(e, last(e))
  <2> DEFINE P == {i \in 1 .. n : Descriptor[i].endpoint = e}
  <2>1. \E m \in P : \A j \in m + 1 .. n : j \notin P
    <3>1. P \in SUBSET (1 .. n) /\ n \in Nat
      OBVIOUS
    <3>2. PICK i \in 1 .. n : Descriptor[i].endpoint = e
      BY <1>2
    <3>3. P # {}
      BY <3>2
    <3> HIDE DEF P
    <3> QED
      BY <3>1, <3>3, LastIndex
  <2>2. PICK m \in P : \A j \in m + 1 .. n : j \notin P
    BY <2>1
  <2>3. m \in 1 .. n /\ \A j \in m + 1 .. n : j \in 1 .. n
    OBVIOUS
  <2>4. IsLast(e, m)
    BY <2>2, <2>3
  <2> HIDE DEF IsLast
  <2> QED
    BY <2>3, <2>4
<1> HIDE DEF last
<1>3. \A e \in found : Linux!CacheOf(n)[e] = Descriptor[last(e)].info
  BY <1>1
<1> QED
  BY <1>1, <1>2, <1>3

\* i is the only descriptor of e.
OnlyOf(e, i) == Linux!Described(e) = {i}

\* So every entry is a descriptor's, and the only one there is for an endpoint
\* that has one descriptor.
LEMMA CacheOfExact ==
  ASSUME NEW n \in 0 .. Len(Descriptor)
  PROVE  /\ DOMAIN Linux!CacheOf(n) \subseteq Endpoints
         /\ \A e \in DOMAIN Linux!CacheOf(n) :
                /\ Linux!CacheOf(n)[e] \in Linux!Infos
                /\ Linux!CacheOf(n)[e] # CutInfo
                /\ \A i \in DOMAIN Descriptor :
                       OnlyOf(e, i) => Linux!CacheOf(n)[e] = Descriptor[i].info
<1> USE UnixAssumption
<1>1. \A i \in 1 .. n : i \in DOMAIN Descriptor
  OBVIOUS
<1>2. ASSUME NEW e \in DOMAIN Linux!CacheOf(n) PROVE e \in Endpoints
  <2>1. PICK k \in 1 .. n : Descriptor[k].endpoint = e
    <3>1. DOMAIN Linux!CacheOf(n) = {Descriptor[i].endpoint : i \in 1 .. n}
      BY CacheOfIs
    <3> QED
      BY <1>2, <3>1
  <2> QED
    BY <1>1, <2>1
<1>3. ASSUME NEW e \in DOMAIN Linux!CacheOf(n)
      PROVE  /\ Linux!CacheOf(n)[e] \in Linux!Infos
             /\ Linux!CacheOf(n)[e] # CutInfo
             /\ \A i \in DOMAIN Descriptor :
                    OnlyOf(e, i) => Linux!CacheOf(n)[e] = Descriptor[i].info
  <2>1. PICK k \in 1 .. n : Descriptor[k].endpoint = e /\ Linux!CacheOf(n)[e] = Descriptor[k].info
    BY CacheOfIs
  <2>2. k \in DOMAIN Descriptor /\ k \in Linux!Described(e)
    BY <1>1, <2>1 DEF Linux!Described
  <2> QED
    BY <2>1, <2>2 DEF OnlyOf, Linux!Infos
<1> QED
  BY <1>2, <1>3

\* What a read of the descriptors leaves in the cache is exact but for the
\* endpoint in which it ended.
LEMMA ReadIsExact ==
  ASSUME Linux!ReadEndpoints
  PROVE  /\ Linux!SingleSettingExact'
         /\ DOMAIN cache' \subseteq Endpoints \cup {EndpointZero}
         /\ \A e \in DOMAIN cache' : cache'[e] \in Linux!Infos \cup {CutInfo}
         /\ filled' \in {"full", "short"} /\ refresh' = filled'
<1> USE UnixAssumption
<1>1. /\ \A e \in DOMAIN cache' \ Linux!MadeUp', i \in DOMAIN Descriptor :
             OnlyOf(e, i) => cache'[e] = Descriptor[i].info
      /\ \A e, f \in Linux!MadeUp' : e = f
      /\ Linux!MadeUp' # {} => filled' = "short"
      => Linux!SingleSettingExact'
  <2>1. \A e : Linux!Described(e)' = Linux!Described(e)
    BY DEF Linux!Described
  <2> QED
    BY <2>1 DEF OnlyOf, Linux!SingleSettingExact
<1>2. CASE refresh' = "full" /\ filled' = "full" /\ cache' = Linux!CacheOf(Len(Descriptor))
  <2>1. Len(Descriptor) \in 0 .. Len(Descriptor)
    OBVIOUS
  <2>2. Linux!MadeUp' = {}
    BY <1>2, <2>1, CacheOfExact DEF Linux!MadeUp
  <2>3. Linux!SingleSettingExact'
    BY <1>1, <1>2, <2>1, <2>2, CacheOfExact
  <2>4. /\ DOMAIN cache' \subseteq Endpoints
        /\ \A e \in DOMAIN cache' : cache'[e] \in Linux!Infos
    BY <1>2, <2>1, CacheOfExact
  <2> QED
    BY <1>2, <2>3, <2>4
<1>3. ASSUME refresh' = "short", filled' = "short",
             NEW n \in 0 .. Len(Descriptor) - 1, NEW cut \in Linux!CutAfter(n),
             cache' = Linux!CutCacheOf(n, cut)
      PROVE  /\ Linux!SingleSettingExact'
             /\ DOMAIN cache' \subseteq Endpoints \cup {EndpointZero}
             /\ \A e \in DOMAIN cache' : cache'[e] \in Linux!Infos \cup {CutInfo}
  <2>1. n \in 0 .. Len(Descriptor) /\ n + 1 \in DOMAIN Descriptor
    OBVIOUS
  <2>2. cut \subseteq Endpoints \cup {EndpointZero} /\ \A e, f \in cut : e = f
    BY <2>1 DEF Linux!CutAfter
  <2>3. /\ DOMAIN cache' = cut \cup DOMAIN Linux!CacheOf(n)
        /\ \A e \in DOMAIN cache' :
               cache'[e] = IF e \in cut THEN CutInfo ELSE Linux!CacheOf(n)[e]
    BY <1>3 DEF Linux!CutCacheOf
  <2>4. Linux!MadeUp' = cut
    BY <2>1, <2>3, CacheOfExact DEF Linux!MadeUp
  <2>5. Linux!SingleSettingExact'
    <3>1. \A e \in DOMAIN cache' \ cut :
             e \in DOMAIN Linux!CacheOf(n) /\ cache'[e] = Linux!CacheOf(n)[e]
      BY <2>3
    <3>2. \A e \in DOMAIN cache' \ cut, i \in DOMAIN Descriptor :
             OnlyOf(e, i) => cache'[e] = Descriptor[i].info
      BY <2>1, <3>1, CacheOfExact
    <3> QED
      BY <1>1, <1>3, <2>2, <2>4, <3>2
  <2>6. DOMAIN cache' \subseteq Endpoints \cup {EndpointZero}
    BY <2>1, <2>2, <2>3, CacheOfExact
  <2>7. \A e \in DOMAIN cache' : cache'[e] \in Linux!Infos \cup {CutInfo}
    BY <2>1, <2>3, CacheOfExact
  <2> QED
    BY <2>5, <2>6, <2>7
<1> QED
  BY <1>2, <1>3 DEF Linux!ReadEndpoints

\* A cache that is left alone, or emptied, stays exact.
LEMMA KeptIsExact ==
  ASSUME Linux!SingleSettingExact, UNCHANGED <<cache, filled>>
  PROVE  Linux!SingleSettingExact'
  BY DEF Linux!SingleSettingExact, Linux!MadeUp, Linux!Described

LEMMA EmptyIsExact ==
  ASSUME cache' = Linux!NoEntries
  PROVE  Linux!SingleSettingExact' /\ DOMAIN cache' = {} /\ Linux!Range(cache') = {}
  BY DEF Linux!SingleSettingExact, Linux!MadeUp, Linux!NoEntries, Linux!Range

-----------------------------------------------------------------------------
(* The first states                                                        *)

LEMMA InitInv == Init => Inv
<1> SUFFICES ASSUME Init PROVE Inv
  OBVIOUS
<1> USE UnixAssumption
<1>1. CASE platform = "linux" /\ Linux!Init /\ NoMacOs
  <2>1. DOMAIN cache = {} /\ Linux!Range(cache) = {} /\ Linux!SingleSettingExact
    BY <1>1 DEF Linux!Init, Linux!NoEntries, Linux!Range, Linux!SingleSettingExact, Linux!MadeUp
  <2>2. Linux!TypeOK
    BY <1>1, <2>1 DEF Linux!Init, Linux!TypeOK, Linux!Open
  <2> QED
    BY <1>1, <2>1, <2>2
       DEF Inv, PlatformInv, ClaimInv, MacOsInv, SingleSettingExact, Linux!Init
<1>2. CASE platform = "macos" /\ MacOs!Init /\ NoLinux
  <2>1. call \in MacOs!Calls /\ DOMAIN cache = {}
    BY <1>2 DEF MacOs!Init, MacOs!Calls, MacOs!NoPipes
  <2>2. Len(Order) \in Nat
    OBVIOUS
  <2>3. MacOs!TypeOK
    BY <1>2, <2>1, <2>2 DEF MacOs!Init, MacOs!TypeOK
  <2>4. HeldInv /\ MacOs!PipeIsTheEndpoints
    BY <1>2 DEF MacOs!Init, HeldInv, MacOs!PipeIsTheEndpoints
  <2> QED
    BY <1>2, <2>3, <2>4
       DEF Inv, PlatformInv, ClaimInv, MacOsInv, SingleSettingExact, MacOs!Init
<1> QED
  BY <1>1, <1>2 DEF Init

-----------------------------------------------------------------------------
(* The steps of the Linux backend                                          *)

LEMMA LinuxStep ==
  ASSUME Inv, platform = "linux", Linux!Next, UNCHANGED <<platform, ofMacOs>>
  PROVE  Inv'
<1> USE UnixAssumption
<1> DEFINE Claims == ~Linux!Open => claimed = {}
           Infos == Linux!Infos \cup {CutInfo}
<1>1. SUFFICES Linux!TypeOK' /\ Claims' /\ Linux!SingleSettingExact'
  <2>1. NoMacOs'
    BY DEF Inv, PlatformInv, NoMacOs, ofMacOs
  <2> QED
    BY <2>1 DEF Inv, PlatformInv, ClaimInv, MacOsInv, SingleSettingExact
<1>2. Linux!TypeOK /\ Claims /\ Linux!SingleSettingExact
  BY DEF Inv, PlatformInv, ClaimInv, SingleSettingExact
<1>3. \A r : r \in {"full", "short"} => r \in {"none", "full", "short", "failed"}
  OBVIOUS
<1>4. UNCHANGED <<cache, filled>> => Linux!SingleSettingExact'
  BY <1>2, KeptIsExact
\* A refresh leaves a cache that is exact, and keeps its type.
<1>5. Linux!RefreshEndpointCache =>
        /\ Linux!SingleSettingExact'
        /\ DOMAIN cache \subseteq Endpoints \cup {EndpointZero} =>
               DOMAIN cache' \subseteq Endpoints \cup {EndpointZero}
        /\ Linux!Range(cache') \subseteq Infos
        /\ filled' \in {"none", "full", "short"}
        /\ refresh' \in {"none", "full", "short", "failed"}
  <2>1. CASE Linux!ReadEndpoints
    BY <2>1, ReadIsExact DEF Linux!Range
  <2>2. CASE refresh' = "failed" /\ UNCHANGED Linux!kept
    BY <1>2, <1>4, <2>2 DEF Linux!kept, Linux!TypeOK
  <2> QED
    BY <2>1, <2>2 DEF Linux!RefreshEndpointCache
<1> HIDE DEF Infos
<1>6. CASE Linux!OpenDevice
  <2>1. CASE Linux!ReadEndpoints
    <3>1. Linux!SingleSettingExact' /\ Linux!Range(cache') \subseteq Infos
      BY <1>5, <2>1 DEF Linux!RefreshEndpointCache
    <3> QED
      BY <1>2, <1>6, <2>1, <3>1, ReadIsExact
         DEF Linux!OpenDevice, Linux!TypeOK, Linux!Open, Linux!pipes, Infos
  <2>2. CASE refresh' = "failed" /\ cache' = Linux!NoEntries /\ filled' = "none"
    BY <1>2, <1>6, <2>2, EmptyIsExact
       DEF Linux!OpenDevice, Linux!TypeOK, Linux!Open, Linux!pipes
  <2> QED
    BY <1>6, <2>1, <2>2 DEF Linux!OpenDevice
<1>7. CASE Linux!Close
  BY <1>2, <1>7, EmptyIsExact DEF Linux!Close, Linux!TypeOK, Linux!Open, Linux!pipes
<1>8. ASSUME NEW i \in Interfaces, Linux!ClaimInterface(i) \/ Linux!ReleaseInterface(i)
      PROVE  Linux!TypeOK' /\ Claims' /\ Linux!SingleSettingExact'
  BY <1>2, <1>4, <1>8
     DEF Linux!ClaimInterface, Linux!ReleaseInterface, Linux!TypeOK, Linux!Open, Linux!pipes,
         Linux!kept
<1>9. ASSUME NEW i \in Interfaces, NEW a \in Alts, Linux!SetAlternateSetting(i, a)
      PROVE  Linux!TypeOK' /\ Claims' /\ Linux!SingleSettingExact'
  BY <1>2, <1>5, <1>9 DEF Linux!SetAlternateSetting, Linux!TypeOK, Linux!Open, Infos
<1>10. CASE Linux!ResetDevice
  BY <1>2, <1>4, <1>10 DEF Linux!ResetDevice, Linux!TypeOK, Linux!Open, Linux!kept
<1>11. ASSUME NEW e \in Endpoints, Linux!BulkRead(e) \/ Linux!BulkWrite(e)
       PROVE  Linux!TypeOK' /\ Claims' /\ Linux!SingleSettingExact'
  BY <1>2, <1>4, <1>11
     DEF Linux!BulkRead, Linux!BulkWrite, Linux!RawBulk, Linux!TypeOK, Linux!Open, Linux!kept
<1>12. ASSUME NEW e \in Endpoints, Linux!AbortPipe(e) \/ Linux!ResetPipe(e)
       PROVE  Linux!TypeOK' /\ Claims' /\ Linux!SingleSettingExact'
  BY <1>2, <1>4, <1>12
     DEF Linux!AbortPipe, Linux!ResetPipe, Linux!TypeOK, Linux!Open, Linux!kept
<1>13. ASSUME NEW e \in Endpoints \cup {EndpointZero}, Linux!GetPipeInfo(e)
       PROVE  Linux!TypeOK' /\ Claims' /\ Linux!SingleSettingExact'
  <2>1. CASE e \in DOMAIN cache
    BY <1>2, <1>4, <1>13, <2>1
       DEF Linux!GetPipeInfo, Linux!TypeOK, Linux!Open, Linux!kept, Linux!pipes
  <2>2. CASE e \notin DOMAIN cache
    BY <1>2, <1>5, <1>13, <2>2
       DEF Linux!GetPipeInfo, Linux!TypeOK, Linux!Open, Linux!pipes, Infos
  <2> QED
    BY <2>1, <2>2
<1> QED
  BY <1>6, <1>7, <1>8, <1>9, <1>10, <1>11, <1>12, <1>13 DEF Linux!Next

-----------------------------------------------------------------------------
(* The steps of the macOS backend                                          *)

\* The pipes of an interface the iterator is at.
LEMMA CurrentPipesType ==
  ASSUME MacOs!TypeOK, pos \in DOMAIN Order
  PROVE  MacOs!Current \in Interfaces /\ MacOs!CurrentPipes \in Seq(Endpoints)
<1>1. Order[pos] \in Interfaces
  BY UnixAssumption, ElementOfSeq
<1>2. alt[Order[pos]] \in Alts
  BY <1>1 DEF MacOs!TypeOK
<1> QED
  BY <1>1, <1>2, UnixAssumption DEF MacOs!Current, MacOs!CurrentPipes

\* A discovery caches, of an endpoint of the current interface, its pipe number.
LEMMA DiscoveredIs ==
  ASSUME MacOs!TypeOK, pos \in DOMAIN Order
  PROVE  /\ DOMAIN MacOs!Discovered = DOMAIN cache \cup MacOs!Range(MacOs!CurrentPipes)
         /\ DOMAIN MacOs!Discovered \subseteq Endpoints
         /\ \A e \in DOMAIN MacOs!Discovered : MacOs!Discovered[e] \in Nat \ {0}
         /\ \A e \in MacOs!Range(MacOs!CurrentPipes) :
                /\ MacOs!Discovered[e] \in DOMAIN MacOs!CurrentPipes
                /\ MacOs!CurrentPipes[MacOs!Discovered[e]] = e
<1> DEFINE pipes == MacOs!CurrentPipes
           pipe(e) == CHOOSE k \in DOMAIN pipes : pipes[k] = e
           all == DOMAIN cache \cup MacOs!Range(pipes)
<1>1. MacOs!Discovered = [e \in all |-> IF e \in MacOs!Range(pipes) THEN pipe(e) ELSE cache[e]]
  BY DEF MacOs!Discovered
<1>2. ASSUME NEW e \in MacOs!Range(pipes) PROVE pipe(e) \in DOMAIN pipes /\ pipes[pipe(e)] = e
  BY DEF MacOs!Range
<1>3. pipes \in Seq(Endpoints) /\ DOMAIN pipes \subseteq Nat \ {0}
  BY CurrentPipesType
<1>4. MacOs!Range(pipes) \subseteq Endpoints
  <2>1. \A k \in DOMAIN pipes : pipes[k] \in Endpoints
    BY <1>3, ElementOfSeq
  <2> QED
    BY <2>1 DEF MacOs!Range
<1> HIDE DEF pipes, pipe
<1>5. /\ DOMAIN MacOs!Discovered = all
      /\ \A e \in all :
             MacOs!Discovered[e] = IF e \in MacOs!Range(pipes) THEN pipe(e) ELSE cache[e]
  BY <1>1
<1>6. DOMAIN cache \subseteq Endpoints /\ \A e \in DOMAIN cache : cache[e] \in Nat \ {0}
  BY DEF MacOs!TypeOK
<1> QED
  BY <1>2, <1>3, <1>4, <1>5, <1>6 DEF pipes

\* The setting a running set_alternate_setting asks for.
LEMMA SelectedSetting ==
  ASSUME call \in MacOs!Calls, call.op = "select"
  PROVE  call.alt \in Alts
  BY DEF MacOs!Calls

LEMMA MacOsStep ==
  ASSUME Inv, platform = "macos", MacOs!Next, UNCHANGED <<platform, ofLinux>>
  PROVE  Inv'
<1> USE UnixAssumption
<1> DEFINE Claims == pc = "closed" => claimed = {}
           P == MacOs!TypeOK /\ Claims /\ HeldInv /\ MacOs!PipeIsTheEndpoints
<1>1. SUFFICES P'
  <2>1. NoLinux'
    BY DEF Inv, PlatformInv, NoLinux, ofLinux
  <2> QED
    BY <2>1 DEF Inv, PlatformInv, ClaimInv, MacOsInv, SingleSettingExact
<1>2. P
  BY DEF Inv, PlatformInv, ClaimInv, MacOsInv
<1>3. Len(Order) \in Nat /\ DOMAIN Order = 1 .. Len(Order)
  OBVIOUS
\* Outside its last state a call has no pipe to be wrong about.
<1>4. pc' # "use" => MacOs!PipeIsTheEndpoints'
  BY DEF MacOs!PipeIsTheEndpoints
<1> USE <1>2, <1>3, <1>4 DEF MacOs!TypeOK, HeldInv, MacOs!Return, MacOs!walk, MacOs!Objects
<1>5. CASE MacOs!OpenDevice
  BY <1>5 DEF MacOs!OpenDevice, MacOs!NoPipes
<1>6. CASE MacOs!OpenFails
  BY <1>6 DEF MacOs!OpenFails
<1>7. CASE MacOs!DropDevice
  BY <1>7 DEF MacOs!DropDevice
<1>8. ASSUME NEW i \in Interfaces, MacOs!ClaimInterface(i) \/ MacOs!ReleaseInterface(i) PROVE P'
  BY <1>8 DEF MacOs!ClaimInterface, MacOs!ReleaseInterface
<1>9. ASSUME NEW c \in MacOs!Calls, MacOs!BeginCall(c) PROVE P'
  BY <1>9 DEF MacOs!BeginCall
<1>10. CASE MacOs!NextService
  <2>1. /\ pc = "next" /\ pc' = "plugin" /\ held' = held \cup {"service"}
        /\ pos' = pos + 1 /\ pos < Len(Order)
        /\ UNCHANGED <<claimed, cache, alt, call, result, leaked>>
    BY <1>10 DEF MacOs!NextService
  <2>2. pos' \in DOMAIN Order /\ pos' \in 0 .. Len(Order)
    <3>1. pos \in 0 .. Len(Order)
      OBVIOUS
    <3> HIDE <1>2, <1>4
    <3> QED
      BY <1>3, <2>1, <3>1
  <2>3. held' = {"iter", "service"}
    BY <2>1
  <2>4. HeldInv' /\ (MacOs!TypeOK /\ Claims)'
    <3>1. HeldInv'
      BY <2>1, <2>2, <2>3
    <3>2. MacOs!TypeOK'
      BY <2>1, <2>2, <2>3
    <3> QED
      BY <2>1, <3>1, <3>2
  <2> QED
    BY <2>1, <2>4
<1>11. CASE MacOs!IteratorEnds
  BY <1>11 DEF MacOs!IteratorEnds
<1>12. CASE MacOs!CreatePlugIn
  BY <1>12 DEF MacOs!CreatePlugIn
<1>13. CASE MacOs!QueryInterface
  BY <1>13 DEF MacOs!QueryInterface
<1>14. CASE MacOs!InterfaceOpen
  BY <1>14 DEF MacOs!InterfaceOpen
<1>15. CASE MacOs!WalkFails
  <2>1. HeldInv'
    <3>1. pc \in {"plugin", "query", "open", "inspect"} /\ held' = held \ MacOs!Cleanup[pc] /\ pc' = "idle"
      BY <1>15 DEF MacOs!WalkFails, MacOs!Cleanup
    <3>2. held = CASE pc = "plugin" -> {"iter", "service"}
                   [] pc = "query" -> {"iter", "plugin"}
                   [] OTHER -> {"iter", "interface"}
      BY <3>1
    <3>3. held \ MacOs!Cleanup[pc] = {}
      <4> HIDE <1>2, <1>4 DEF HeldInv
      <4> QED
        BY <3>1, <3>2 DEF MacOs!Cleanup
    <3> QED
      BY <3>1, <3>3
  <2>2. (MacOs!TypeOK /\ Claims)' /\ pc' # "use"
    BY <1>15 DEF MacOs!WalkFails, MacOs!Cleanup
  <2> QED
    BY <2>1, <2>2
<1>16. CASE MacOs!Inspect
  <2>1. /\ DOMAIN cache' \subseteq Endpoints
        /\ \A e \in DOMAIN cache' : cache'[e] \in Nat \ {0}
    BY <1>16, DiscoveredIs DEF MacOs!Inspect
  <2>2. MacOs!CurrentPipes' = MacOs!CurrentPipes
    BY <1>16 DEF MacOs!Inspect, MacOs!CurrentPipes, MacOs!Current
  <2>3. MacOs!PipeIsTheEndpoints'
    BY <1>16, <2>2, DiscoveredIs DEF MacOs!Inspect, MacOs!IsTarget, MacOs!PipeIsTheEndpoints
  <2> QED
    BY <1>16, <2>1, <2>3 DEF MacOs!Inspect
<1>17. ASSUME NEW r \in {"ok", "err"}, MacOs!PipeCompletes(r) \/ MacOs!PipeProperties(r) PROVE P'
  BY <1>17 DEF MacOs!PipeCompletes, MacOs!PipeProperties
<1>18. CASE MacOs!SetAlternateInterface
  <2>1. call.alt \in Alts
    BY <1>18, SelectedSetting DEF MacOs!SetAlternateInterface
  <2>2. alt' \in [Interfaces -> Alts]
    BY <1>18, <2>1 DEF MacOs!SetAlternateInterface
  <2>3. DOMAIN cache' = {}
    BY <1>18 DEF MacOs!SetAlternateInterface, MacOs!NoPipes
  <2> QED
    BY <1>18, <2>2, <2>3 DEF MacOs!SetAlternateInterface
<1>19. CASE MacOs!SetAlternateFails
  BY <1>19 DEF MacOs!SetAlternateFails
<1> QED
  BY <1>5, <1>6, <1>7, <1>8, <1>9, <1>10, <1>11, <1>12, <1>13, <1>14, <1>15, <1>16, <1>17,
     <1>18, <1>19
     DEF MacOs!Next, MacOs!Walk, MacOs!Use

-----------------------------------------------------------------------------
LEMMA StepInv == Inv /\ [Next]_vars => Inv'
<1> SUFFICES ASSUME Inv, [Next]_vars PROVE Inv'
  OBVIOUS
<1>1. CASE UNCHANGED vars
  <2>1. UNCHANGED <<platform, claimed, cache, alt, file, toggle, halted, filled, refresh>>
    BY <1>1 DEF vars, ofLinux
  <2>2. UNCHANGED <<pc, call, pos, held, result, leaked>>
    BY <1>1 DEF vars, ofMacOs
  <2>3. PlatformInv' /\ ClaimInv'
    BY <2>1, <2>2
       DEF Inv, PlatformInv, ClaimInv, NoLinux, NoMacOs, Linux!Open, Linux!TypeOK, MacOs!TypeOK
  <2>4. SingleSettingExact'
    BY <2>1, KeptIsExact DEF Inv, SingleSettingExact
  <2>5. MacOsInv'
    BY <2>1, <2>2
       DEF Inv, MacOsInv, HeldInv, MacOs!PipeIsTheEndpoints, MacOs!CurrentPipes, MacOs!Current
  <2> QED
    BY <2>3, <2>4, <2>5 DEF Inv
<1>2. CASE Next
  BY <1>2, LinuxStep, MacOsStep DEF Next
<1> QED
  BY <1>1, <1>2

\* The invariants of the Linux and the macOS device hold side by side.
THEOREM InvHolds == Spec => []Inv
  BY InitInv, StepInv, PTL DEF Spec

\* Every variable keeps a value of its kind, those of the platform that is not
\* built their first one.
THEOREM TypeCorrect == Spec => []PlatformInv
<1>1. Inv => PlatformInv
  BY DEF Inv
<1> QED
  BY <1>1, InvHolds, PTL

\* An endpoint that one setting has is cached with the values of its
\* descriptor.
THEOREM CacheIsExact == Spec => []SingleSettingExact
<1>1. Inv => SingleSettingExact
  BY DEF Inv
<1> QED
  BY <1>1, InvHolds, PTL

\* No exit from the walk over the interfaces forgets an IOKit object.
THEOREM NothingIsHeld == Spec => []NothingHeldBetweenCalls
<1>1. Inv => NothingHeldBetweenCalls
  BY DEF Inv, MacOsInv, HeldInv, NothingHeldBetweenCalls, MacOs!NothingHeldBetweenCalls
<1> QED
  BY <1>1, InvHolds, PTL

\* A pipe number that is used is that of the endpoint that was asked for.
THEOREM PipeIsRight == Spec => []PipeIsTheEndpoints
<1>1. Inv => PipeIsTheEndpoints
  BY DEF Inv, MacOsInv, PipeIsTheEndpoints
<1> QED
  BY <1>1, InvHolds, PTL

\* An endpoint that has a descriptor is missed only by a read that did not get
\* to it.
THEOREM MissIsUnreadHolds == Spec => MissingMeansUnread
<1>1. [Next]_vars => [platform = "linux" => Linux!MissIsUnread]_vars
  <2> SUFFICES ASSUME NEW e \in Endpoints, Linux!GetPipeInfo(e), Linux!Described(e) # {},
                      e \notin DOMAIN cache'
               PROVE  refresh' \in {"short", "failed"}
    BY DEF Linux!MissIsUnread
  <2>1. e \notin DOMAIN cache
    BY DEF Linux!GetPipeInfo, Linux!kept
  <2>2. Linux!RefreshEndpointCache
    BY <2>1 DEF Linux!GetPipeInfo
  <2>3. cache' # Linux!CacheOf(Len(Descriptor))
    <3>1. PICK i \in DOMAIN Descriptor : Descriptor[i].endpoint = e
      BY DEF Linux!Described
    <3>2. i \in 1 .. Len(Descriptor) /\ Len(Descriptor) \in 0 .. Len(Descriptor)
      BY UnixAssumption
    <3>3. e \in DOMAIN Linux!CacheOf(Len(Descriptor))
      BY <3>1, <3>2, CacheOfIs
    <3> QED
      BY <3>3
  <2> QED
    BY <2>2, <2>3 DEF Linux!RefreshEndpointCache, Linux!ReadEndpoints
<1> QED
  BY <1>1, PTL DEF Spec, MissingMeansUnread

-----------------------------------------------------------------------------
(* The ownership contract                                                  *)

Opened == Linux!Open \/ pc # "closed"

\* A step of either backend takes or gives back one interface, opens or closes
\* the session, or does nothing to the contract.
LEMMA LinuxStepContract ==
  ASSUME Inv, platform = "linux", Linux!Next, UNCHANGED ofMacOs
  PROVE  Contract!Next \/ UNCHANGED <<Opened, claimed>>
<1>1. pc = "closed" /\ pc' = "closed" /\ (~Linux!Open => claimed = {})
  BY DEF Inv, PlatformInv, ClaimInv, NoMacOs, ofMacOs
<1> USE <1>1 DEF Opened, Linux!Open
<1>2. CASE Linux!OpenDevice
  BY <1>2 DEF Linux!OpenDevice, Contract!Next, Contract!Open
<1>3. CASE Linux!Close
  BY <1>3 DEF Linux!Close, Contract!Next, Contract!Close
<1>4. ASSUME NEW i \in Interfaces, Linux!ClaimInterface(i)
      PROVE  Contract!Next
  BY <1>4 DEF Linux!ClaimInterface, Contract!Next, Contract!Claim
<1>5. ASSUME NEW i \in Interfaces, Linux!ReleaseInterface(i)
      PROVE  Contract!Next
  BY <1>5 DEF Linux!ReleaseInterface, Contract!Next, Contract!Release
<1>6. ASSUME \/ \E i \in Interfaces, a \in Alts : Linux!SetAlternateSetting(i, a)
             \/ Linux!ResetDevice
             \/ \E e \in Endpoints : \/ Linux!AbortPipe(e) \/ Linux!ResetPipe(e)
                                     \/ Linux!BulkRead(e) \/ Linux!BulkWrite(e)
             \/ \E e \in Endpoints \cup {EndpointZero} : Linux!GetPipeInfo(e)
      PROVE  UNCHANGED <<Opened, claimed>>
  BY <1>6
     DEF Linux!SetAlternateSetting, Linux!ResetDevice, Linux!AbortPipe, Linux!ResetPipe,
         Linux!BulkRead, Linux!BulkWrite, Linux!RawBulk, Linux!GetPipeInfo
<1> QED
  BY <1>2, <1>3, <1>4, <1>5, <1>6 DEF Linux!Next

LEMMA MacOsStepContract ==
  ASSUME Inv, platform = "macos", MacOs!Next, UNCHANGED ofLinux
  PROVE  Contract!Next \/ UNCHANGED <<Opened, claimed>>
<1>1. file = "none" /\ file' = "none" /\ (pc = "closed" => claimed = {})
  BY DEF Inv, PlatformInv, ClaimInv, NoLinux, ofLinux
<1> USE <1>1 DEF Opened, Linux!Open, MacOs!Return
<1>2. CASE MacOs!OpenDevice
  BY <1>2 DEF MacOs!OpenDevice, Contract!Next, Contract!Open
<1>3. CASE MacOs!DropDevice
  BY <1>3 DEF MacOs!DropDevice, Contract!Next, Contract!Close
<1>4. ASSUME NEW i \in Interfaces, MacOs!ClaimInterface(i)
      PROVE  Contract!Next \/ UNCHANGED <<Opened, claimed>>
  BY <1>4 DEF MacOs!ClaimInterface, Contract!Next, Contract!Claim
<1>5. ASSUME NEW i \in Interfaces, MacOs!ReleaseInterface(i)
      PROVE  Contract!Next \/ UNCHANGED <<Opened, claimed>>
  BY <1>5 DEF MacOs!ReleaseInterface, Contract!Next, Contract!Release
<1>6. ASSUME MacOs!OpenFails \/ (\E c \in MacOs!Calls : MacOs!BeginCall(c)) \/ MacOs!Walk
      PROVE  UNCHANGED <<Opened, claimed>>
  BY <1>6
     DEF MacOs!OpenFails, MacOs!BeginCall, MacOs!Walk, MacOs!NextService, MacOs!IteratorEnds,
         MacOs!CreatePlugIn, MacOs!QueryInterface, MacOs!InterfaceOpen, MacOs!WalkFails,
         MacOs!Cleanup, MacOs!Inspect
<1>7. ASSUME (\E r \in {"ok", "err"} : MacOs!PipeCompletes(r)) \/ MacOs!Use
      PROVE  UNCHANGED <<Opened, claimed>>
  BY <1>7
     DEF MacOs!PipeCompletes, MacOs!Use, MacOs!PipeProperties, MacOs!SetAlternateInterface,
         MacOs!SetAlternateFails
<1> QED
  BY <1>2, <1>3, <1>4, <1>5, <1>6, <1>7 DEF MacOs!Next

\* Both backends implement the contract of the trait.
THEOREM ClaimsImplemented == Spec => ImplementsClaims
<1>1. Init => Contract!Init
  BY DEF Init, Linux!Init, MacOs!Init, NoLinux, NoMacOs, Linux!Open, Contract!Init
<1>2. Inv /\ [Next]_vars => [Contract!Next]_Contract!vars
  <2> SUFFICES ASSUME Inv, [Next]_vars PROVE Contract!Next \/ UNCHANGED <<Opened, claimed>>
    BY DEF Contract!vars, Opened
  <2>1. CASE Next
    BY <2>1, LinuxStepContract, MacOsStepContract DEF Next, Inv, PlatformInv
  <2>2. CASE UNCHANGED vars
    BY <2>2 DEF vars, ofLinux, ofMacOs, Opened, Linux!Open
  <2> QED
    BY <2>1, <2>2
<1> QED
  BY <1>1, <1>2, InvHolds, PTL DEF Spec, ImplementsClaims, Contract!Spec
=============================================================================
