--------------------------- MODULE Discovery_proofs ---------------------------
(***************************************************************************)
(* Discovery, its two halves one after the other.  Descriptor reads, for   *)
(* every device, every sequence of answers and every length a descriptor   *)
(* claims: the parsers stay inside what they were given, and what is       *)
(* returned as read was sent.  Enumeration: see below.                     *)
(***************************************************************************)
EXTENDS Discovery, SequenceTheorems, FiniteSetTheorems, WellFoundedInduction, TLAPS

\* Replacing the last element of a sequence that is not empty.
LEMMA SetLastType ==
  ASSUME NEW S, NEW s \in Seq(S), NEW v \in S, s # <<>>
  PROVE  Config!SetLast(s, v) \in Seq(S) /\ Len(s) \in DOMAIN s /\ s[Len(s)] \in S
<1>1. Len(s) \in DOMAIN s /\ s[Len(s)] \in S
  BY EmptySeq, ElementOfSeq
<1>2. Config!SetLast(s, v) \in Seq(S)
  BY <1>1, ExceptSeq DEF Config!SetLast
<1> QED
  BY <1>1, <1>2

\* Attaching a descriptor gives a sequence of interfaces again.
LEMMA AttachType ==
  ASSUME NEW s \in Seq(Config!Interfaces), NEW at \in Nat, NEW l \in Nat, NEW t \in Config!Types
  PROVE  Config!Attach(s, at, l, t) \in Seq(Config!Interfaces)
<1>1. Append(s, Config!NewInterface(at)) \in Seq(Config!Interfaces)
  BY DEF Config!NewInterface, Config!Interfaces
<1>2. s # <<>> => s[Len(s)] \in Config!Interfaces
  BY EmptySeq, ElementOfSeq
<1>3. Config!AttachEndpoint(s, at) \in Seq(Config!Interfaces)
  <2> SUFFICES ASSUME s # <<>> PROVE Config!AttachEndpoint(s, at) \in Seq(Config!Interfaces)
    BY DEF Config!AttachEndpoint
  <2> DEFINE i == [s[Len(s)] EXCEPT !.endpoints = Append(@, Config!NewEndpoint(at))]
  <2>1. i \in Config!Interfaces
    <3>1. Config!NewEndpoint(at) \in Config!Endpoints
      BY DEF Config!NewEndpoint, Config!Endpoints
    <3>2. s[Len(s)].endpoints \in Seq(Config!Endpoints)
      BY <1>2 DEF Config!Interfaces
    <3>3. Append(s[Len(s)].endpoints, Config!NewEndpoint(at)) \in Seq(Config!Endpoints)
      BY <3>1, <3>2
    <3> QED
      BY <1>2, <3>3 DEF Config!Interfaces
  <2> QED
    BY <2>1, SetLastType DEF Config!AttachEndpoint
<1>4. Config!AttachHid(s, at) \in Seq(Config!Interfaces)
  <2> SUFFICES ASSUME s # <<>> PROVE Config!AttachHid(s, at) \in Seq(Config!Interfaces)
    BY DEF Config!AttachHid
  <2> DEFINE i == [s[Len(s)] EXCEPT !.hid = at]
  <2>1. i \in Config!Interfaces
    BY <1>2 DEF Config!Interfaces
  <2> QED
    BY <2>1, SetLastType DEF Config!AttachHid
<1>5. Config!AttachCompanion(s, at) \in Seq(Config!Interfaces)
  <2> DEFINE eps == s[Len(s)].endpoints
             e == [eps[Len(eps)] EXCEPT !.companion = at]
             i == [s[Len(s)] EXCEPT !.endpoints = Config!SetLast(eps, e)]
  <2> SUFFICES ASSUME s # <<>>, eps # <<>> PROVE Config!AttachCompanion(s, at) \in Seq(Config!Interfaces)
    BY DEF Config!AttachCompanion
  <2>1. eps \in Seq(Config!Endpoints)
    BY <1>2 DEF Config!Interfaces
  <2>2. e \in Config!Endpoints
    <3>1. eps[Len(eps)] \in Config!Endpoints
      BY <2>1, EmptySeq, ElementOfSeq
    <3> QED
      BY <3>1 DEF Config!Endpoints
  <2>3. Config!SetLast(eps, e) \in Seq(Config!Endpoints)
    BY <2>1, <2>2, SetLastType
  <2>4. i \in Config!Interfaces
    BY <1>2, <2>3 DEF Config!Interfaces
  <2> HIDE DEF i
  <2>5. Config!AttachCompanion(s, at) = Config!SetLast(s, i)
    BY DEF Config!AttachCompanion, i
  <2> QED
    BY <2>4, <2>5, SetLastType
<1> QED
  BY <1>1, <1>3, <1>4, <1>5 DEF Config!Attach, Config!Types, Config!Minimum

-----------------------------------------------------------------------------
(* Sequences of descriptors                                                 *)

\* What a walk does to its chain, told by the position of an element.
LEMMA AppendFacts ==
  ASSUME NEW S, NEW s \in Seq(S), NEW d \in S
  PROVE  /\ Append(s, d) \in Seq(S)
         /\ Len(s) \in Nat
         /\ DOMAIN s = 1 .. Len(s)
         /\ Len(Append(s, d)) = Len(s) + 1
         /\ DOMAIN Append(s, d) = 1 .. Len(s) + 1
         /\ \A k \in 1 .. Len(s) : Append(s, d)[k] = s[k] /\ s[k] \in S
         /\ Append(s, d)[Len(s) + 1] = d
  OBVIOUS

-----------------------------------------------------------------------------
(* What a configuration means                                              *)

\* The definitions of ConfigDescriptor for a chain c that is given.
IsKept(d, t) == d.type = t /\ d.length >= Config!Minimum[t]
Kept(c, t) == {k \in DOMAIN c : IsKept(c[k], t)}
Pos(c, k) == IF k = 0 THEN 0 ELSE c[k].at
Newest(c, S) == Pos(c, Config!Last(S, Len(c) + 1))
LastIf(c, k) == Config!Last(Kept(c, "interface"), k)
LastEp(c, k) == Config!Last(Kept(c, "endpoint"), k)
OwnerOf(c, k) == Pos(c, LastIf(c, k))
TargetOf(c, k) == IF LastEp(c, k) < LastIf(c, k) THEN 0 ELSE Pos(c, LastEp(c, k))
OwnedBy(c, t, a) == {k \in Kept(c, t) : OwnerOf(c, k) = a}
CompanionsOf(c, a) == {k \in Kept(c, "companion") : TargetOf(c, k) = a}

\* Of finitely many sets one has no other of them in it.
LEMMA SmallestSet ==
  ASSUME NEW S, IsFiniteSet(S), NEW T, T \subseteq SUBSET S, T # {}
  PROVE  \E x \in T : \A y \in T : y \subseteq x => y = x
<1>1. T \subseteq FiniteSubsetsOf(S)
  BY FS_FiniteSubsetsOfFinite
<1>2. PICK x \in T : \A y \in T : ~(<<y, x>> \in StrictSubsetOrdering(S))
  BY <1>1, FS_StrictSubsetOrderingWellFounded, WFMin
<1> QED
  BY <1>2 DEF StrictSubsetOrdering

\* Last is the greatest element before k, if there is one.
LEMMA LastIs ==
  ASSUME NEW S \in SUBSET Nat, NEW k \in Nat
  PROVE  /\ (\A m \in S : m >= k) => Config!Last(S, k) = 0
         /\ (\E m \in S : m < k) =>
                /\ Config!Last(S, k) \in S
                /\ Config!Last(S, k) < k
                /\ \A n \in S : n < k => n <= Config!Last(S, k)
<1>1. ASSUME \A m \in S : m >= k PROVE Config!Last(S, k) = 0
  <2>1. ~ \E m \in S : m < k
    BY <1>1
  <2> QED
    BY <2>1 DEF Config!Last
<1>2. ASSUME \E m \in S : m < k
      PROVE  \E m \in S : m < k /\ \A n \in S : n < k => n <= m
  <2> DEFINE U == {x \in S : x < k}
             F == 0 .. k
             T == {x .. k : x \in U}
  <2>1. IsFiniteSet(F)
    BY FS_Interval
  <2>2. T \subseteq SUBSET F /\ T # {}
    BY <1>2
  <2> HIDE DEF F, T
  <2>3. PICK a \in T : \A b \in T : b \subseteq a => b = a
    BY <2>1, <2>2, SmallestSet
  <2>4. PICK m \in U : a = m .. k
    BY DEF T
  <2>5. ASSUME NEW n \in U PROVE n <= m
    <3> SUFFICES ASSUME n > m PROVE FALSE
      OBVIOUS
    <3>1. n .. k \subseteq m .. k /\ m \in m .. k /\ m \notin n .. k
      OBVIOUS
    <3>2. n .. k \in T
      BY DEF T
    <3> QED
      BY <2>3, <2>4, <3>1, <3>2
  <2> QED
    BY <2>5
<1>3. ASSUME \E m \in S : m < k
      PROVE  /\ Config!Last(S, k) \in S
             /\ Config!Last(S, k) < k
             /\ \A n \in S : n < k => n <= Config!Last(S, k)
  BY <1>2, <1>3 DEF Config!Last
<1> QED
  BY <1>1, <1>3

\* There is only one such element.
LEMMA LastOnly ==
  ASSUME NEW S \in SUBSET Nat, NEW k \in Nat, NEW m \in S, m < k,
         \A n \in S : n < k => n <= m
  PROVE  Config!Last(S, k) = m
<1> DEFINE x == Config!Last(S, k)
<1>1. x \in S /\ x < k /\ m <= x
  BY LastIs
<1> HIDE DEF x
<1>2. x <= m /\ x \in Nat /\ m \in Nat
  BY <1>1
<1>3. x = m
  BY <1>1, <1>2
<1> QED
  BY <1>3 DEF x

\* Last when the set grows at its end.
LEMMA LastGrows ==
  ASSUME NEW n \in Nat, NEW S \in SUBSET (1 .. n)
  PROVE  /\ \A k \in 0 .. n + 1 :
               /\ Config!Last(S, k) \in 0 .. n
               /\ Config!Last(S, k) < k \/ Config!Last(S, k) = 0
               /\ Config!Last(S \cup {n + 1}, k) = Config!Last(S, k)
         /\ Config!Last(S, n + 2) = Config!Last(S, n + 1)
         /\ Config!Last(S \cup {n + 1}, n + 2) = n + 1
<1> DEFINE R == S \cup {n + 1}
<1>1. S \in SUBSET Nat /\ R \in SUBSET Nat
  OBVIOUS
<1>2. ASSUME NEW k \in 0 .. n + 1
      PROVE  /\ Config!Last(S, k) \in 0 .. n
             /\ Config!Last(S, k) < k \/ Config!Last(S, k) = 0
             /\ Config!Last(R, k) = Config!Last(S, k)
  <2>1. CASE \E m \in S : m < k
    <3> DEFINE m == Config!Last(S, k)
    <3>1. m \in S /\ m < k /\ \A x \in S : x < k => x <= m
      BY <1>1, <2>1, LastIs
    <3> HIDE DEF m
    <3>2. \A x \in R : x < k => x <= m
      BY <3>1
    <3>3. m \in R
      BY <3>1
    <3> HIDE DEF R
    <3>4. Config!Last(R, k) = m
      BY <1>1, <3>1, <3>2, <3>3, LastOnly
    <3>5. m \in 0 .. n
      BY <3>1
    <3> QED
      BY <3>1, <3>4, <3>5 DEF m
  <2>2. CASE \A m \in S : m >= k
    <3>1. \A m \in R : m >= k
      BY <2>2
    <3> HIDE DEF R
    <3>2. Config!Last(S, k) = 0 /\ Config!Last(R, k) = 0
      BY <1>1, <2>2, <3>1, LastIs
    <3> QED
      BY <3>2
  <2> QED
    BY <2>1, <2>2
<1>3. Config!Last(S, n + 2) = Config!Last(S, n + 1)
  <2>1. CASE S = {}
    <3>1. Config!Last(S, n + 2) = 0 /\ Config!Last(S, n + 1) = 0
      BY <2>1, LastIs
    <3> QED
      BY <3>1
  <2>2. CASE S # {}
    <3> DEFINE m == Config!Last(S, n + 1)
    <3>1. m \in S /\ m < n + 1 /\ \A x \in S : x < n + 1 => x <= m
      <4>1. PICK x \in S : TRUE
        BY <2>2
      <4>2. x < n + 1 /\ n + 1 \in Nat
        BY <4>1
      <4> QED
        BY <1>1, <4>2, LastIs
    <3> HIDE DEF m
    <3>2. m < n + 2 /\ \A x \in S : x < n + 2 => x <= m
      BY <3>1
    <3>3. Config!Last(S, n + 2) = m
      BY <1>1, <3>1, <3>2, LastOnly
    <3> QED
      BY <3>3 DEF m
  <2> QED
    BY <2>1, <2>2
<1>4. Config!Last(R, n + 2) = n + 1
  <2>1. n + 1 \in R /\ \A x \in R : x <= n + 1
    OBVIOUS
  <2> HIDE DEF R
  <2> QED
    BY <1>1, <2>1, LastOnly
<1> QED
  BY <1>2, <1>3, <1>4

\* What one more descriptor changes in a chain, and what it leaves.
LEMMA KeptGrows ==
  ASSUME NEW c \in Seq(Config!Descriptors), NEW d \in Config!Descriptors
  PROVE  /\ \A t : Kept(c, t) \subseteq 1 .. Len(c)
         /\ \A t : Kept(Append(c, d), t) =
                  IF IsKept(d, t) THEN Kept(c, t) \cup {Len(c) + 1} ELSE Kept(c, t)
         /\ \A k \in 0 .. Len(c) : Pos(Append(c, d), k) = Pos(c, k)
         /\ Pos(Append(c, d), Len(c) + 1) = d.at
<1> DEFINE b == Append(c, d)
           n == Len(c)
<1>1. /\ n \in Nat /\ DOMAIN c = 1 .. n /\ DOMAIN b = 1 .. n + 1
      /\ \A k \in 1 .. n : b[k] = c[k]
      /\ b[n + 1] = d
  BY AppendFacts
<1> HIDE DEF b, n
<1>2. \A t : Kept(c, t) \subseteq 1 .. n
  BY <1>1 DEF Kept
<1>3. ASSUME NEW t PROVE Kept(b, t) = IF IsKept(d, t) THEN Kept(c, t) \cup {n + 1} ELSE Kept(c, t)
  BY <1>1 DEF Kept
<1>4. \A k \in 0 .. n : Pos(b, k) = Pos(c, k)
  BY <1>1 DEF Pos
<1>5. Pos(b, n + 1) = d.at
  BY <1>1 DEF Pos
<1> QED
  BY <1>2, <1>3, <1>4, <1>5 DEF b, n

LEMMA ChainGrows ==
  ASSUME NEW c \in Seq(Config!Descriptors), NEW d \in Config!Descriptors
  PROVE  /\ \A k \in 1 .. Len(c) + 1 : /\ LastIf(Append(c, d), k) = LastIf(c, k)
                                       /\ LastEp(Append(c, d), k) = LastEp(c, k)
                                       /\ LastIf(c, k) \in 0 .. k - 1
                                       /\ LastEp(c, k) \in 0 .. k - 1
                                       /\ OwnerOf(Append(c, d), k) = OwnerOf(c, k)
                                       /\ TargetOf(Append(c, d), k) = TargetOf(c, k)
         /\ LastIf(Append(c, d), Len(c) + 2) =
                IF IsKept(d, "interface") THEN Len(c) + 1 ELSE LastIf(c, Len(c) + 1)
         /\ LastEp(Append(c, d), Len(c) + 2) =
                IF IsKept(d, "endpoint") THEN Len(c) + 1 ELSE LastEp(c, Len(c) + 1)
<1> DEFINE b == Append(c, d)
           n == Len(c)
           I == Kept(c, "interface")
           E == Kept(c, "endpoint")
<1>1. n \in Nat
  BY AppendFacts
<1>2. /\ I \in SUBSET (1 .. n) /\ E \in SUBSET (1 .. n)
      /\ Kept(b, "interface") = IF IsKept(d, "interface") THEN I \cup {n + 1} ELSE I
      /\ Kept(b, "endpoint") = IF IsKept(d, "endpoint") THEN E \cup {n + 1} ELSE E
      /\ \A k \in 0 .. n : Pos(b, k) = Pos(c, k)
  BY KeptGrows
<1> HIDE DEF b, n
<1>3. ASSUME NEW k \in 1 .. n + 1
      PROVE  /\ LastIf(b, k) = LastIf(c, k) /\ LastEp(b, k) = LastEp(c, k)
             /\ LastIf(c, k) \in 0 .. k - 1 /\ LastEp(c, k) \in 0 .. k - 1
             /\ k - 1 \in 0 .. n
  <2> HIDE DEF I, E
  <2>1. k \in 0 .. n + 1 /\ k - 1 \in 0 .. n
    BY <1>1
  <2>2. /\ Config!Last(I, k) \in 0 .. n /\ (Config!Last(I, k) < k \/ Config!Last(I, k) = 0)
        /\ Config!Last(I \cup {n + 1}, k) = Config!Last(I, k)
    BY <1>1, <1>2, <2>1, LastGrows
  <2>3. /\ Config!Last(E, k) \in 0 .. n /\ (Config!Last(E, k) < k \/ Config!Last(E, k) = 0)
        /\ Config!Last(E \cup {n + 1}, k) = Config!Last(E, k)
    BY <1>1, <1>2, <2>1, LastGrows
  <2>4. LastIf(c, k) = Config!Last(I, k) /\ LastEp(c, k) = Config!Last(E, k)
    BY DEF LastIf, LastEp, I, E
  <2>5. LastIf(b, k) = Config!Last(I, k) /\ LastEp(b, k) = Config!Last(E, k)
    BY <1>2, <2>2, <2>3 DEF LastIf, LastEp
  <2> QED
    BY <1>1, <2>1, <2>2, <2>3, <2>4, <2>5
<1>4. ASSUME NEW k \in 1 .. n + 1
      PROVE  OwnerOf(b, k) = OwnerOf(c, k) /\ TargetOf(b, k) = TargetOf(c, k)
  <2>1. LastIf(c, k) \in 0 .. n /\ LastEp(c, k) \in 0 .. n
    BY <1>1, <1>3
  <2> QED
    BY <1>2, <1>3, <2>1 DEF OwnerOf, TargetOf
<1>5. /\ LastIf(b, n + 2) = IF IsKept(d, "interface") THEN n + 1 ELSE LastIf(c, n + 1)
      /\ LastEp(b, n + 2) = IF IsKept(d, "endpoint") THEN n + 1 ELSE LastEp(c, n + 1)
  BY <1>1, <1>2, LastGrows DEF LastIf, LastEp
<1> QED
  BY <1>3, <1>4, <1>5 DEF b, n

\* What is attached to what, after one more descriptor.
LEMMA OwnedGrows ==
  ASSUME NEW c \in Seq(Config!Descriptors), NEW d \in Config!Descriptors
  PROVE  /\ \A t, a : OwnedBy(c, t, a) \subseteq 1 .. Len(c)
         /\ \A a : CompanionsOf(c, a) \subseteq 1 .. Len(c)
         /\ \A t, a : OwnedBy(Append(c, d), t, a) =
                  IF IsKept(d, t) /\ OwnerOf(c, Len(c) + 1) = a
                  THEN OwnedBy(c, t, a) \cup {Len(c) + 1} ELSE OwnedBy(c, t, a)
         /\ \A a : CompanionsOf(Append(c, d), a) =
                  IF IsKept(d, "companion") /\ TargetOf(c, Len(c) + 1) = a
                  THEN CompanionsOf(c, a) \cup {Len(c) + 1} ELSE CompanionsOf(c, a)
         /\ \A S \in SUBSET (1 .. Len(c)) :
                /\ Newest(Append(c, d), S) = Newest(c, S)
                /\ Newest(Append(c, d), S \cup {Len(c) + 1}) = d.at
<1> DEFINE b == Append(c, d)
           n == Len(c)
<1>1. n \in Nat /\ Len(b) = n + 1
  BY AppendFacts
<1>2. \A k \in 1 .. n + 1 : OwnerOf(b, k) = OwnerOf(c, k) /\ TargetOf(b, k) = TargetOf(c, k)
  BY ChainGrows
<1>3. /\ \A t : Kept(c, t) \subseteq 1 .. n
      /\ \A t : Kept(b, t) = IF IsKept(d, t) THEN Kept(c, t) \cup {n + 1} ELSE Kept(c, t)
      /\ \A k \in 0 .. n : Pos(b, k) = Pos(c, k)
      /\ Pos(b, n + 1) = d.at
  BY KeptGrows
<1> HIDE DEF b, n
<1>4. \A t, a : OwnedBy(c, t, a) \subseteq 1 .. n
  BY <1>3 DEF OwnedBy
<1>5. \A a : CompanionsOf(c, a) \subseteq 1 .. n
  BY <1>3 DEF CompanionsOf
<1>6. ASSUME NEW t, NEW a
      PROVE  OwnedBy(b, t, a) = IF IsKept(d, t) /\ OwnerOf(c, n + 1) = a
                                THEN OwnedBy(c, t, a) \cup {n + 1} ELSE OwnedBy(c, t, a)
  BY <1>1, <1>2, <1>3 DEF OwnedBy
<1>7. ASSUME NEW a
      PROVE  CompanionsOf(b, a) = IF IsKept(d, "companion") /\ TargetOf(c, n + 1) = a
                                  THEN CompanionsOf(c, a) \cup {n + 1} ELSE CompanionsOf(c, a)
  BY <1>1, <1>2, <1>3 DEF CompanionsOf
<1>8. ASSUME NEW S \in SUBSET (1 .. n)
      PROVE  Newest(b, S) = Newest(c, S) /\ Newest(b, S \cup {n + 1}) = d.at
  <2>1. /\ Config!Last(S, n + 1) \in 0 .. n
        /\ Config!Last(S, n + 2) = Config!Last(S, n + 1)
        /\ Config!Last(S \cup {n + 1}, n + 2) = n + 1
    <3>1. n + 1 \in 0 .. n + 1
      BY <1>1
    <3> QED
      BY <1>1, <3>1, LastGrows
  <2>2. (n + 1) + 1 = n + 2
    BY <1>1
  <2> QED
    BY <1>1, <1>3, <2>1, <2>2 DEF Newest, n
<1> QED
  BY <1>4, <1>5, <1>6, <1>7, <1>8 DEF b, n

\* The chain ascends to the position p of the walk.
Ascending(c, p) ==
  /\ \A k \in DOMAIN c : Config!HeaderLength <= c[k].at /\ c[k].at < p
  /\ \A j, k \in DOMAIN c : j < k => c[j].at < c[k].at

\* Interface k of s with its endpoints, in a buffer that was walked up to p.
EndpointsInOrder(s, k, p) ==
  LET eps == s[k].endpoints
  IN  \A j \in DOMAIN eps :
          /\ s[k].at < eps[j].at /\ eps[j].at < p
          /\ \A m \in DOMAIN s : k < m => eps[j].at < s[m].at
          /\ \A m \in DOMAIN eps : j < m => eps[j].at < eps[m].at

InOrder(s, p) ==
  /\ \A k \in DOMAIN s : Config!HeaderLength <= s[k].at /\ s[k].at < p
  /\ \A j, k \in DOMAIN s : j < k => s[j].at < s[k].at
  /\ \A k \in DOMAIN s : EndpointsInOrder(s, k, p)

\* Interface i has what the chain c gives it.
AttachedTo(c, i) ==
  /\ {i.endpoints[j].at : j \in DOMAIN i.endpoints} =
         {Pos(c, e) : e \in OwnedBy(c, "endpoint", i.at)}
  /\ i.hid = Newest(c, OwnedBy(c, "hid", i.at))
  /\ \A j \in DOMAIN i.endpoints :
         i.endpoints[j].companion = Newest(c, CompanionsOf(c, i.endpoints[j].at))

Attached(c, s) ==
  /\ {s[k].at : k \in DOMAIN s} = {Pos(c, k) : k \in Kept(c, "interface")}
  /\ \A k \in DOMAIN s : AttachedTo(c, s[k])

\* The next descriptor would belong to the last interface and to its last
\* endpoint.
Current(c, s) ==
  s # <<>> =>
      LET i == s[Len(s)]
      IN  /\ OwnerOf(c, Len(c) + 1) = i.at
          /\ TargetOf(c, Len(c) + 1) =
                 IF i.endpoints = <<>> THEN 0 ELSE i.endpoints[Len(i.endpoints)].at

Parsed(c, s, p) == Ascending(c, p) /\ InOrder(s, p) /\ Attached(c, s) /\ Current(c, s)

LEMMA AscendingGrows ==
  ASSUME NEW c \in Seq(Config!Descriptors), NEW d \in Config!Descriptors, NEW p \in Nat,
         NEW l \in Nat \ {0}, d.at = p, Config!HeaderLength <= p, Ascending(c, p)
  PROVE  Ascending(Append(c, d), p + l)
<1> DEFINE b == Append(c, d)
           n == Len(c)
<1>1. /\ n \in Nat /\ DOMAIN c = 1 .. n /\ DOMAIN b = 1 .. n + 1
      /\ \A k \in 1 .. n : b[k] = c[k] /\ c[k] \in Config!Descriptors
      /\ b[n + 1] = d
  BY AppendFacts
<1> HIDE DEF b, n
<1>2. \A k \in 1 .. n : c[k].at \in Nat /\ c[k].at < p /\ Config!HeaderLength <= c[k].at
  BY <1>1 DEF Ascending, Config!Descriptors
<1>3. ASSUME NEW k \in DOMAIN b PROVE Config!HeaderLength <= b[k].at /\ b[k].at < p + l
  <2>1. CASE k = n + 1
    BY <1>1, <2>1
  <2>2. CASE k \in 1 .. n
    BY <1>1, <1>2, <2>2
  <2> QED
    BY <1>1, <2>1, <2>2
<1>4. ASSUME NEW j \in DOMAIN b, NEW k \in DOMAIN b, j < k PROVE b[j].at < b[k].at
  <2>1. j \in 1 .. n
    BY <1>1, <1>4
  <2>2. CASE k = n + 1
    BY <1>1, <1>2, <2>1, <2>2
  <2>3. CASE k \in 1 .. n
    BY <1>1, <1>4, <2>1, <2>3 DEF Ascending
  <2> QED
    BY <1>1, <2>2, <2>3
<1> QED
  BY <1>3, <1>4 DEF Ascending, b

\* Nothing before the walk is where the walk is.
LEMMA NothingAhead ==
  ASSUME NEW c \in Seq(Config!Descriptors), NEW p \in Nat, Config!HeaderLength <= p,
         Ascending(c, p)
  PROVE  /\ \A k \in 0 .. Len(c) : Pos(c, k) < p
         /\ \A t : OwnedBy(c, t, p) = {}
         /\ CompanionsOf(c, p) = {}
         /\ Newest(c, {}) = 0
<1> DEFINE n == Len(c)
<1>1. n \in Nat /\ DOMAIN c = 1 .. n
  OBVIOUS
<1>2. \A k \in 0 .. n : Pos(c, k) < p
  BY <1>1 DEF Ascending, Pos, Config!HeaderLength
<1>3. PICK d \in Config!Descriptors : TRUE
  <2>1. [at |-> 0, length |-> 0, type |-> "other"] \in Config!Descriptors
    BY DEF Config!Descriptors, Config!Types, Config!Minimum
  <2> QED
    BY <2>1
<1>4. \A k \in 1 .. n + 1 : LastIf(c, k) \in 0 .. k - 1 /\ LastEp(c, k) \in 0 .. k - 1
  BY <1>3, ChainGrows
<1>5. \A t : Kept(c, t) \subseteq 1 .. n
  BY <1>3, KeptGrows
<1> HIDE DEF n
<1>6. ASSUME NEW k \in 1 .. n PROVE OwnerOf(c, k) # p /\ TargetOf(c, k) # p
  <2>1. LastIf(c, k) \in 0 .. n /\ LastEp(c, k) \in 0 .. n
    BY <1>1, <1>4
  <2>2. Pos(c, LastIf(c, k)) < p /\ Pos(c, LastEp(c, k)) < p /\ 0 < p
    BY <1>2, <2>1 DEF Config!HeaderLength
  <2> QED
    BY <2>2 DEF OwnerOf, TargetOf
<1>7. Newest(c, {}) = 0
  <2>1. n + 1 \in Nat
    BY <1>1
  <2>2. Config!Last({}, n + 1) = 0
    BY <2>1, LastIs
  <2> QED
    BY <2>2 DEF Newest, Pos, n
<1> QED
  BY <1>2, <1>5, <1>6, <1>7 DEF OwnedBy, CompanionsOf, n

\* Who comes next after one more descriptor.
LEMMA NextOwner ==
  ASSUME NEW c \in Seq(Config!Descriptors), NEW d \in Config!Descriptors
  PROVE  /\ OwnerOf(Append(c, d), Len(Append(c, d)) + 1) =
                IF IsKept(d, "interface") THEN d.at ELSE OwnerOf(c, Len(c) + 1)
         /\ TargetOf(Append(c, d), Len(Append(c, d)) + 1) =
                IF IsKept(d, "interface") THEN 0
                ELSE IF IsKept(d, "endpoint") THEN d.at ELSE TargetOf(c, Len(c) + 1)
<1> DEFINE b == Append(c, d)
           n == Len(c)
<1>1. n \in Nat /\ Len(b) = n + 1
  BY AppendFacts
<1>2. (\A k \in 0 .. n : Pos(b, k) = Pos(c, k)) /\ Pos(b, n + 1) = d.at
  BY KeptGrows
<1>3. /\ LastIf(b, n + 2) = IF IsKept(d, "interface") THEN n + 1 ELSE LastIf(c, n + 1)
      /\ LastEp(b, n + 2) = IF IsKept(d, "endpoint") THEN n + 1 ELSE LastEp(c, n + 1)
  BY ChainGrows
<1>4. LastIf(c, n + 1) \in 0 .. n /\ LastEp(c, n + 1) \in 0 .. n
  <2>1. n + 1 \in 1 .. n + 1 /\ (n + 1) - 1 = n
    BY <1>1
  <2> QED
    BY <2>1, ChainGrows
<1>5. ~(IsKept(d, "interface") /\ IsKept(d, "endpoint"))
  BY DEF IsKept
<1> HIDE DEF b, n
<1>6. Len(b) + 1 = n + 2
  BY <1>1
<1>7. OwnerOf(b, n + 2) = IF IsKept(d, "interface") THEN d.at ELSE OwnerOf(c, n + 1)
  BY <1>1, <1>2, <1>3, <1>4 DEF OwnerOf
<1>8. IsKept(d, "interface") => TargetOf(b, n + 2) = 0
  BY <1>1, <1>3, <1>4, <1>5 DEF TargetOf
<1>9. ~IsKept(d, "interface") /\ IsKept(d, "endpoint") => TargetOf(b, n + 2) = d.at
  BY <1>1, <1>2, <1>3, <1>4 DEF TargetOf
<1>10. ~IsKept(d, "interface") /\ ~IsKept(d, "endpoint") =>
            TargetOf(b, n + 2) = TargetOf(c, n + 1)
  BY <1>1, <1>2, <1>3, <1>4 DEF TargetOf
<1>11. TargetOf(b, n + 2) =
           IF IsKept(d, "interface") THEN 0
           ELSE IF IsKept(d, "endpoint") THEN d.at ELSE TargetOf(c, n + 1)
  BY <1>5, <1>8, <1>9, <1>10
<1> QED
  BY <1>6, <1>7, <1>11 DEF b, n

LEMMA Images ==
  ASSUME NEW c \in Seq(Config!Descriptors), NEW d \in Config!Descriptors,
         NEW S \in SUBSET (1 .. Len(c))
  PROVE  /\ {Pos(Append(c, d), k) : k \in S} = {Pos(c, k) : k \in S}
         /\ {Pos(Append(c, d), k) : k \in S \cup {Len(c) + 1}} = {Pos(c, k) : k \in S} \cup {d.at}
<1> DEFINE b == Append(c, d)
           n == Len(c)
<1>1. (\A k \in 0 .. n : Pos(b, k) = Pos(c, k)) /\ Pos(b, n + 1) = d.at
  BY KeptGrows
<1>2. \A k \in S : k \in 0 .. n
  BY AppendFacts
<1> HIDE DEF b, n
<1>3. \A k \in S : Pos(b, k) = Pos(c, k)
  BY <1>1, <1>2
<1>4. {Pos(b, k) : k \in S} = {Pos(c, k) : k \in S}
  BY <1>3
<1>5. {Pos(b, k) : k \in S \cup {n + 1}} = {Pos(c, k) : k \in S} \cup {d.at}
  BY <1>1, <1>3
<1> QED
  BY <1>4, <1>5 DEF b, n

\* An interface that the descriptor does not belong to keeps what it has.
LEMMA StaysAttached ==
  ASSUME NEW c \in Seq(Config!Descriptors), NEW d \in Config!Descriptors,
         NEW i \in Config!Interfaces, AttachedTo(c, i),
         OwnerOf(c, Len(c) + 1) = i.at => ~IsKept(d, "endpoint") /\ ~IsKept(d, "hid"),
         \A j \in DOMAIN i.endpoints :
             TargetOf(c, Len(c) + 1) = i.endpoints[j].at => ~IsKept(d, "companion")
  PROVE  AttachedTo(Append(c, d), i)
<1> DEFINE b == Append(c, d)
           E == OwnedBy(c, "endpoint", i.at)
           H == OwnedBy(c, "hid", i.at)
           C(j) == CompanionsOf(c, i.endpoints[j].at)
<1>1. /\ OwnedBy(b, "endpoint", i.at) = E
      /\ OwnedBy(b, "hid", i.at) = H
      /\ \A j \in DOMAIN i.endpoints : CompanionsOf(b, i.endpoints[j].at) = C(j)
  BY OwnedGrows
<1>2. /\ E \in SUBSET (1 .. Len(c))
      /\ H \in SUBSET (1 .. Len(c))
      /\ \A j \in DOMAIN i.endpoints : C(j) \in SUBSET (1 .. Len(c))
  BY OwnedGrows
<1> HIDE DEF b, E, H, C
<1>3. {Pos(b, e) : e \in E} = {Pos(c, e) : e \in E}
  BY <1>2, Images DEF b
<1>4. Newest(b, H) = Newest(c, H)
  BY <1>2, OwnedGrows DEF b
<1>5. \A j \in DOMAIN i.endpoints : Newest(b, C(j)) = Newest(c, C(j))
  BY <1>2, OwnedGrows DEF b
<1>6. /\ {i.endpoints[j].at : j \in DOMAIN i.endpoints} = {Pos(c, e) : e \in E}
      /\ i.hid = Newest(c, H)
      /\ \A j \in DOMAIN i.endpoints : i.endpoints[j].companion = Newest(c, C(j))
  BY DEF AttachedTo, E, H, C
<1>7. {i.endpoints[j].at : j \in DOMAIN i.endpoints} =
          {Pos(b, e) : e \in OwnedBy(b, "endpoint", i.at)}
  BY <1>1, <1>3, <1>6
<1> QED
  BY <1>1, <1>4, <1>5, <1>6, <1>7 DEF AttachedTo, b

\* The interfaces of the result are those of the chain.
LEMMA InterfacesGrow ==
  ASSUME NEW c \in Seq(Config!Descriptors), NEW d \in Config!Descriptors
  PROVE  {Pos(Append(c, d), k) : k \in Kept(Append(c, d), "interface")} =
             {Pos(c, k) : k \in Kept(c, "interface")}
                 \cup (IF IsKept(d, "interface") THEN {d.at} ELSE {})
<1> DEFINE b == Append(c, d)
           I == Kept(c, "interface")
<1>1. /\ I \in SUBSET (1 .. Len(c))
      /\ Kept(b, "interface") = IF IsKept(d, "interface") THEN I \cup {Len(c) + 1} ELSE I
  BY KeptGrows
<1> HIDE DEF b, I
<1>2. /\ {Pos(b, k) : k \in I} = {Pos(c, k) : k \in I}
      /\ {Pos(b, k) : k \in I \cup {Len(c) + 1}} = {Pos(c, k) : k \in I} \cup {d.at}
  BY <1>1, Images DEF b
<1>3. CASE IsKept(d, "interface")
  BY <1>1, <1>2, <1>3 DEF b, I
<1>4. CASE ~IsKept(d, "interface")
  BY <1>1, <1>2, <1>4 DEF b, I
<1> QED
  BY <1>3, <1>4

\* Interfaces are of their type, and of one position each.
LEMMA InterfaceFacts ==
  ASSUME NEW s \in Seq(Config!Interfaces)
  PROVE  /\ Len(s) \in Nat /\ DOMAIN s = 1 .. Len(s)
         /\ s # <<>> => Len(s) \in DOMAIN s
         /\ \A k \in DOMAIN s :
                LET eps == s[k].endpoints
                IN  /\ s[k] \in Config!Interfaces
                    /\ s[k].at \in Nat
                    /\ eps \in Seq(Config!Endpoints)
                    /\ Len(eps) \in Nat /\ DOMAIN eps = 1 .. Len(eps)
                    /\ eps # <<>> => Len(eps) \in DOMAIN eps
                    /\ \A j \in DOMAIN eps : eps[j] \in Config!Endpoints /\ eps[j].at \in Nat
<1>1. Len(s) \in Nat /\ DOMAIN s = 1 .. Len(s) /\ (s # <<>> => Len(s) \in DOMAIN s)
  BY EmptySeq, LenProperties
<1>2. ASSUME NEW k \in DOMAIN s
      PROVE  LET eps == s[k].endpoints
             IN  /\ s[k] \in Config!Interfaces
                 /\ s[k].at \in Nat
                 /\ eps \in Seq(Config!Endpoints)
                 /\ Len(eps) \in Nat /\ DOMAIN eps = 1 .. Len(eps)
                 /\ eps # <<>> => Len(eps) \in DOMAIN eps
                 /\ \A j \in DOMAIN eps : eps[j] \in Config!Endpoints /\ eps[j].at \in Nat
  <2> DEFINE eps == s[k].endpoints
  <2>1. s[k] \in Config!Interfaces
    BY <1>1
  <2>2. s[k].at \in Nat /\ eps \in Seq(Config!Endpoints)
    BY <2>1 DEF Config!Interfaces
  <2> HIDE DEF eps
  <2>3. Len(eps) \in Nat /\ DOMAIN eps = 1 .. Len(eps) /\ (eps # <<>> => Len(eps) \in DOMAIN eps)
    BY <2>2, EmptySeq, LenProperties
  <2>4. \A j \in DOMAIN eps : eps[j] \in Config!Endpoints
    BY <2>2, <2>3
  <2>5. \A e \in Config!Endpoints : e.at \in Nat
    BY DEF Config!Endpoints
  <2> QED
    BY <2>1, <2>2, <2>3, <2>4, <2>5 DEF eps
<1> QED
  BY <1>1, <1>2

LEMMA VisitOther ==
  ASSUME NEW c \in Seq(Config!Descriptors), NEW s \in Seq(Config!Interfaces), NEW p \in Nat,
         NEW d \in Config!Descriptors, NEW l \in Nat \ {0}, Parsed(c, s, p),
         ~IsKept(d, "interface"),
         s # <<>> => ~IsKept(d, "endpoint") /\ ~IsKept(d, "hid"),
         s # <<>> /\ s[Len(s)].endpoints # <<>> => ~IsKept(d, "companion"),
         Config!HeaderLength <= p
  PROVE  InOrder(s, p + l) /\ Attached(Append(c, d), s) /\ Current(Append(c, d), s)
<1>1. InOrder(s, p + l)
  <2> SUFFICES ASSUME NEW k \in DOMAIN s
               PROVE  s[k].at < p + l /\ EndpointsInOrder(s, k, p + l)
    BY DEF Parsed, InOrder
  <2> USE InterfaceFacts
  <2>1. s[k].at < p + l
    BY DEF Parsed, InOrder
  <2>2. EndpointsInOrder(s, k, p)
    BY DEF Parsed, InOrder
  <2>3. EndpointsInOrder(s, k, p + l)
    BY <2>2 DEF EndpointsInOrder
  <2> QED
    BY <2>1, <2>3
<1>2. Attached(Append(c, d), s)
  <2>1. {s[k].at : k \in DOMAIN s} =
            {Pos(Append(c, d), k) : k \in Kept(Append(c, d), "interface")}
    BY InterfacesGrow DEF Parsed, Attached
  <2>2. ASSUME NEW k \in DOMAIN s PROVE AttachedTo(Append(c, d), s[k])
    <3>1. s # <<>> /\ s[k] \in Config!Interfaces /\ AttachedTo(c, s[k])
      BY InterfaceFacts DEF Parsed, Attached
    <3>2. ASSUME NEW j \in DOMAIN s[k].endpoints, s[Len(s)].endpoints = <<>>
          PROVE  TargetOf(c, Len(c) + 1) # s[k].endpoints[j].at
      <4>1. TargetOf(c, Len(c) + 1) = 0
        BY <3>1, <3>2 DEF Parsed, Current
      <4>2. EndpointsInOrder(s, k, p) /\ s[k].at >= 9
        BY DEF Parsed, InOrder, Config!HeaderLength
      <4>3. s[k].endpoints[j].at > s[k].at /\ s[k].endpoints[j].at \in Nat /\ s[k].at \in Nat
        BY <3>2, <4>2, InterfaceFacts DEF EndpointsInOrder
      <4> QED
        BY <4>1, <4>2, <4>3
    <3> QED
      BY <3>1, <3>2, StaysAttached
  <2> QED
    BY <2>1, <2>2 DEF Attached
<1>3. Current(Append(c, d), s)
  BY NextOwner DEF Parsed, Current
<1> QED
  BY <1>1, <1>2, <1>3

\* A sequence whose last element is replaced.
LEMMA SetLastFacts ==
  ASSUME NEW S, NEW s \in Seq(S), NEW v, s # <<>>
  PROVE  /\ DOMAIN Config!SetLast(s, v) = DOMAIN s
         /\ Len(Config!SetLast(s, v)) = Len(s)
         /\ Len(s) \in DOMAIN s
         /\ Config!SetLast(s, v) # <<>>
         /\ Config!SetLast(s, v)[Len(s)] = v
         /\ \A k \in DOMAIN s : k # Len(s) => Config!SetLast(s, v)[k] = s[k]
<1>1. Len(s) \in DOMAIN s /\ Len(s) \in Nat /\ DOMAIN s = 1 .. Len(s)
  BY EmptySeq, LenProperties
<1>2. /\ DOMAIN Config!SetLast(s, v) = DOMAIN s
      /\ Config!SetLast(s, v)[Len(s)] = v
      /\ \A k \in DOMAIN s : k # Len(s) => Config!SetLast(s, v)[k] = s[k]
  BY <1>1 DEF Config!SetLast
<1>3. Config!SetLast(s, v) \in Seq(S \cup {v})
  <2>1. s \in Seq(S \cup {v})
    OBVIOUS
  <2> QED
    BY <1>1, <2>1, ExceptSeq DEF Config!SetLast
<1>4. Len(Config!SetLast(s, v)) = Len(s)
  BY <1>1, <1>2, <1>3, LenProperties
<1>5. Config!SetLast(s, v) # <<>>
  BY <1>1, <1>2
<1> QED
  BY <1>1, <1>2, <1>4, <1>5

\* A kept interface descriptor begins an interface that has nothing yet.
LEMMA VisitInterface ==
  ASSUME NEW c \in Seq(Config!Descriptors), NEW s \in Seq(Config!Interfaces), NEW p \in Nat,
         NEW d \in Config!Descriptors, NEW l \in Nat \ {0}, Parsed(c, s, p),
         Config!HeaderLength <= p, IsKept(d, "interface"), d.at = p
  PROVE  LET r == Append(s, Config!NewInterface(p))
         IN  InOrder(r, p + l) /\ Attached(Append(c, d), r) /\ Current(Append(c, d), r)
<1> DEFINE r == Append(s, Config!NewInterface(p))
           b == Append(c, d)
           n == Len(s)
           i == Config!NewInterface(p)
<1>1. i.at = p /\ i.endpoints = <<>> /\ i.hid = 0 /\ i \in Config!Interfaces
  BY DEF Config!NewInterface, Config!Interfaces
<1> HIDE DEF i
<1>2. /\ n \in Nat /\ DOMAIN s = 1 .. n /\ DOMAIN r = 1 .. n + 1 /\ Len(r) = n + 1
      /\ \A k \in 1 .. n : r[k] = s[k]
      /\ r[n + 1] = i
  BY <1>1, AppendFacts DEF i
<1> HIDE DEF r, n
<1>3. \A t : ~(t # "interface" /\ IsKept(d, t))
  BY DEF IsKept
<1>4. InOrder(r, p + l)
  <2>1. ASSUME NEW k \in 1 .. n
        PROVE  /\ s[k].at \in Nat /\ Config!HeaderLength <= s[k].at /\ s[k].at < p
               /\ EndpointsInOrder(s, k, p)
               /\ \A j \in DOMAIN s[k].endpoints : s[k].endpoints[j].at \in Nat
    BY <1>2, InterfaceFacts DEF Parsed, InOrder
  <2>2. \A k \in 1 .. n + 1 : Config!HeaderLength <= r[k].at /\ r[k].at < p + l
    <3>1. \A k \in 1 .. n : Config!HeaderLength <= r[k].at /\ r[k].at < p + l
      BY <1>2, <2>1
    <3> QED
      BY <1>1, <1>2, <3>1
  <2>3. \A j, k \in 1 .. n + 1 : j < k => r[j].at < r[k].at
    <3> SUFFICES ASSUME NEW j \in 1 .. n + 1, NEW k \in 1 .. n + 1, j < k
                 PROVE  r[j].at < r[k].at
      OBVIOUS
    <3>1. j \in 1 .. n
      BY <1>2
    <3>2. CASE k = n + 1
      BY <1>1, <1>2, <2>1, <3>1, <3>2
    <3>3. CASE k \in 1 .. n
      BY <1>2, <3>1, <3>3 DEF Parsed, InOrder
    <3> QED
      BY <1>2, <3>2, <3>3
  <2>4. ASSUME NEW k \in 1 .. n + 1 PROVE EndpointsInOrder(r, k, p + l)
    <3>1. CASE k = n + 1
      BY <1>1, <1>2, <3>1 DEF EndpointsInOrder
    <3>2. CASE k \in 1 .. n
      <4>1. r[k] = s[k]
        BY <1>2, <3>2
      <4> SUFFICES ASSUME NEW j \in DOMAIN s[k].endpoints
                   PROVE  LET e == s[k].endpoints[j]
                          IN  /\ s[k].at < e.at /\ e.at < p + l
                              /\ \A m \in DOMAIN r : k < m => e.at < r[m].at
                              /\ \A m \in DOMAIN s[k].endpoints :
                                     j < m => e.at < s[k].endpoints[m].at
        BY <4>1 DEF EndpointsInOrder
      <4> DEFINE e == s[k].endpoints[j]
      <4>2. /\ s[k].at < e.at /\ e.at < p /\ e.at \in Nat
            /\ \A m \in DOMAIN s : k < m => e.at < s[m].at
            /\ \A m \in DOMAIN s[k].endpoints : j < m => e.at < s[k].endpoints[m].at
        BY <2>1, <3>2 DEF EndpointsInOrder
      <4> HIDE DEF e
      <4>3. ASSUME NEW m \in DOMAIN r, k < m PROVE e.at < r[m].at
        <5>1. CASE m = n + 1
          BY <1>1, <1>2, <4>2, <5>1
        <5>2. CASE m \in 1 .. n
          BY <1>2, <4>2, <4>3, <5>2
        <5> QED
          BY <1>2, <5>1, <5>2
      <4>4. e.at < p + l
        BY <4>2
      <4> QED
        BY <4>2, <4>3, <4>4 DEF e
    <3> QED
      BY <1>2, <3>1, <3>2
  <2> QED
    BY <1>2, <2>2, <2>3, <2>4 DEF InOrder
<1>5. Attached(b, r)
  <2>1. {r[k].at : k \in DOMAIN r} = {s[k].at : k \in DOMAIN s} \cup {p}
    BY <1>1, <1>2
  <2>2. {Pos(b, k) : k \in Kept(b, "interface")} = {Pos(c, k) : k \in Kept(c, "interface")} \cup {p}
    BY InterfacesGrow
  <2>3. {s[k].at : k \in DOMAIN s} = {Pos(c, k) : k \in Kept(c, "interface")}
    BY DEF Parsed, Attached
  <2>4. ASSUME NEW k \in 1 .. n PROVE AttachedTo(b, r[k])
    <3>1. s[k] \in Config!Interfaces /\ AttachedTo(c, s[k]) /\ r[k] = s[k]
      BY <1>2, InterfaceFacts DEF Parsed, Attached
    <3>2. AttachedTo(b, s[k])
      BY <1>3, <3>1, StaysAttached
    <3> QED
      BY <3>1, <3>2
  <2>5. AttachedTo(b, i)
    <3>1. /\ \A t : OwnedBy(c, t, p) = {}
          /\ Newest(c, {}) = 0
      BY NothingAhead DEF Parsed
    <3>2. OwnedBy(b, "endpoint", p) = {} /\ OwnedBy(b, "hid", p) = {}
      BY <1>3, <3>1, OwnedGrows
    <3>3. Newest(b, {}) = 0
      <4>1. {} \in SUBSET (1 .. Len(c))
        OBVIOUS
      <4> QED
        BY <3>1, <4>1, OwnedGrows
    <3>4. DOMAIN i.endpoints = {}
      BY <1>1
    <3> QED
      BY <1>1, <3>2, <3>3, <3>4 DEF AttachedTo
  <2>6. \A k \in DOMAIN r : AttachedTo(b, r[k])
    BY <1>2, <2>4, <2>5
  <2>7. {r[k].at : k \in DOMAIN r} = {Pos(b, k) : k \in Kept(b, "interface")}
    BY <2>1, <2>2, <2>3
  <2> QED
    BY <2>6, <2>7 DEF Attached
<1>6. Current(b, r)
  BY <1>1, <1>2, NextOwner DEF Current
<1> QED
  BY <1>4, <1>5, <1>6 DEF r, b, i, n

\* What is attached to the last interface of s leaves the others as they are.
LEMMA VisitLast ==
  ASSUME NEW c \in Seq(Config!Descriptors), NEW s \in Seq(Config!Interfaces), NEW p \in Nat,
         NEW d \in Config!Descriptors, NEW l \in Nat \ {0}, Parsed(c, s, p),
         Config!HeaderLength <= p, ~IsKept(d, "interface"), s # <<>>,
         IsKept(d, "companion") => s[Len(s)].endpoints # <<>>,
         NEW i, i.at = s[Len(s)].at,
         \A j \in DOMAIN i.endpoints :
             /\ i.at < i.endpoints[j].at /\ i.endpoints[j].at < p + l
             /\ \A m \in DOMAIN i.endpoints : j < m => i.endpoints[j].at < i.endpoints[m].at,
         AttachedTo(Append(c, d), i)
  PROVE  InOrder(Config!SetLast(s, i), p + l) /\ Attached(Append(c, d), Config!SetLast(s, i))
<1> DEFINE r == Config!SetLast(s, i)
           b == Append(c, d)
           n == Len(s)
<1>1. /\ DOMAIN r = DOMAIN s /\ Len(r) = n /\ n \in DOMAIN s /\ r[n] = i
      /\ \A k \in DOMAIN s : k # n => r[k] = s[k]
      /\ n \in Nat /\ DOMAIN s = 1 .. n
  BY SetLastFacts, InterfaceFacts
<1> HIDE DEF r, n
<1>2. \A k \in DOMAIN s : r[k].at = s[k].at
  BY <1>1 DEF n
<1>3. ASSUME NEW k \in DOMAIN s
      PROVE  /\ s[k].at \in Nat /\ Config!HeaderLength <= s[k].at /\ s[k].at < p
             /\ EndpointsInOrder(s, k, p)
             /\ \A j \in DOMAIN s[k].endpoints : s[k].endpoints[j].at \in Nat
  BY InterfaceFacts DEF Parsed, InOrder
<1>4. \A j, k \in DOMAIN s : j < k => s[j].at < s[k].at
  BY DEF Parsed, InOrder
<1>5. InOrder(r, p + l)
  <2>1. \A k \in DOMAIN r : Config!HeaderLength <= r[k].at /\ r[k].at < p + l
    <3> SUFFICES ASSUME NEW k \in DOMAIN s PROVE Config!HeaderLength <= r[k].at /\ r[k].at < p + l
      BY <1>1
    <3> QED
      BY <1>2, <1>3
  <2>2. \A j, k \in DOMAIN r : j < k => r[j].at < r[k].at
    BY <1>1, <1>2, <1>4
  <2>3. ASSUME NEW k \in DOMAIN s PROVE EndpointsInOrder(r, k, p + l)
    <3>1. CASE k = n
      <4>1. \A m \in DOMAIN r : ~(k < m)
        BY <1>1, <3>1
      <4> QED
        BY <1>1, <3>1, <4>1 DEF EndpointsInOrder
    <3>2. CASE k # n
      <4>1. r[k] = s[k]
        BY <1>1, <3>2
      <4> SUFFICES ASSUME NEW j \in DOMAIN s[k].endpoints
                   PROVE  LET e == s[k].endpoints[j]
                          IN  /\ s[k].at < e.at /\ e.at < p + l
                              /\ \A m \in DOMAIN r : k < m => e.at < r[m].at
                              /\ \A m \in DOMAIN s[k].endpoints :
                                     j < m => e.at < s[k].endpoints[m].at
        BY <4>1 DEF EndpointsInOrder
      <4> DEFINE e == s[k].endpoints[j]
      <4>2. /\ s[k].at < e.at /\ e.at < p /\ e.at \in Nat
            /\ \A m \in DOMAIN s : k < m => e.at < s[m].at
            /\ \A m \in DOMAIN s[k].endpoints : j < m => e.at < s[k].endpoints[m].at
        BY <1>3 DEF EndpointsInOrder
      <4> HIDE DEF e
      <4>3. e.at < p + l /\ \A m \in DOMAIN r : k < m => e.at < r[m].at
        BY <1>1, <1>2, <4>2
      <4> QED
        BY <4>2, <4>3 DEF e
    <3> QED
      BY <3>1, <3>2
  <2> QED
    BY <1>1, <2>1, <2>2, <2>3 DEF InOrder
<1>6. Attached(b, r)
  <2>1. {r[k].at : k \in DOMAIN r} = {s[k].at : k \in DOMAIN s}
    BY <1>1, <1>2
  <2>2. {Pos(b, k) : k \in Kept(b, "interface")} = {Pos(c, k) : k \in Kept(c, "interface")}
    BY InterfacesGrow
  <2>3. {s[k].at : k \in DOMAIN s} = {Pos(c, k) : k \in Kept(c, "interface")}
    BY DEF Parsed, Attached
  <2>4. {r[k].at : k \in DOMAIN r} = {Pos(b, k) : k \in Kept(b, "interface")}
    BY <2>1, <2>2, <2>3
  <2>5. ASSUME NEW k \in DOMAIN s, k # n PROVE AttachedTo(b, r[k])
    <3>1. s[k] \in Config!Interfaces /\ AttachedTo(c, s[k]) /\ r[k] = s[k]
      BY <1>1, <2>5, InterfaceFacts DEF Parsed, Attached
    <3>2. k < n /\ s[k].at < s[n].at
      <4>1. k < n
        BY <1>1, <2>5
      <4> QED
        BY <1>1, <1>4, <4>1
    <3>3. OwnerOf(c, Len(c) + 1) # s[k].at
      <4>1. OwnerOf(c, Len(c) + 1) = s[n].at
        BY DEF Parsed, Current, n
      <4> QED
        BY <1>1, <1>3, <3>2, <4>1
    <3>4. ASSUME IsKept(d, "companion"), NEW j \in DOMAIN s[k].endpoints
          PROVE  TargetOf(c, Len(c) + 1) # s[k].endpoints[j].at
      <4> DEFINE eps == s[n].endpoints
      <4>1. TargetOf(c, Len(c) + 1) = eps[Len(eps)].at /\ eps # <<>>
        BY <3>4 DEF Parsed, Current, n
      <4>2. Len(eps) \in DOMAIN eps
        BY <1>1, <4>1, InterfaceFacts
      <4>3. s[n].at < eps[Len(eps)].at /\ eps[Len(eps)].at \in Nat /\ s[n].at \in Nat
        BY <1>1, <1>3, <4>2 DEF EndpointsInOrder
      <4>4. s[k].endpoints[j].at < s[n].at /\ s[k].endpoints[j].at \in Nat
        BY <1>1, <1>3, <3>2 DEF EndpointsInOrder
      <4> QED
        BY <4>1, <4>3, <4>4
    <3>5. AttachedTo(b, s[k])
      BY <3>1, <3>3, <3>4, StaysAttached
    <3> QED
      BY <3>1, <3>5
  <2>6. \A k \in DOMAIN r : AttachedTo(b, r[k])
    BY <1>1, <2>5
  <2> QED
    BY <2>4, <2>6 DEF Attached
<1> QED
  BY <1>5, <1>6 DEF r, b

\* The last interface and what is known of it.
LEMMA LastInterface ==
  ASSUME NEW c \in Seq(Config!Descriptors), NEW s \in Seq(Config!Interfaces), NEW p \in Nat,
         Parsed(c, s, p), Config!HeaderLength <= p, s # <<>>
  PROVE  LET i == s[Len(s)]
         IN  /\ i \in Config!Interfaces /\ AttachedTo(c, i)
             /\ i.at \in Nat /\ 0 < i.at /\ i.at < p
             /\ i.endpoints \in Seq(Config!Endpoints)
             /\ OwnerOf(c, Len(c) + 1) = i.at
             /\ TargetOf(c, Len(c) + 1) =
                    IF i.endpoints = <<>> THEN 0 ELSE i.endpoints[Len(i.endpoints)].at
             /\ \A j \in DOMAIN i.endpoints :
                    /\ i.endpoints[j] \in Config!Endpoints /\ i.endpoints[j].at \in Nat
                    /\ i.at < i.endpoints[j].at /\ i.endpoints[j].at < p
                    /\ \A m \in DOMAIN i.endpoints :
                           j < m => i.endpoints[j].at < i.endpoints[m].at
<1> DEFINE i == s[Len(s)]
<1>1. Len(s) \in DOMAIN s
  BY InterfaceFacts
<1>2. /\ i \in Config!Interfaces /\ i.at \in Nat /\ i.endpoints \in Seq(Config!Endpoints)
      /\ \A j \in DOMAIN i.endpoints :
             i.endpoints[j] \in Config!Endpoints /\ i.endpoints[j].at \in Nat
  BY <1>1, InterfaceFacts
<1>3. Config!HeaderLength <= i.at /\ i.at < p /\ EndpointsInOrder(s, Len(s), p)
  BY <1>1 DEF Parsed, InOrder
<1>4. AttachedTo(c, i)
  BY <1>1 DEF Parsed, Attached
<1>5. /\ OwnerOf(c, Len(c) + 1) = i.at
      /\ TargetOf(c, Len(c) + 1) =
             IF i.endpoints = <<>> THEN 0 ELSE i.endpoints[Len(i.endpoints)].at
  BY DEF Parsed, Current
<1>6. \A j \in DOMAIN i.endpoints :
          /\ i.at < i.endpoints[j].at /\ i.endpoints[j].at < p
          /\ \A m \in DOMAIN i.endpoints : j < m => i.endpoints[j].at < i.endpoints[m].at
  BY <1>3 DEF EndpointsInOrder
<1>7. 0 < i.at
  BY <1>2, <1>3 DEF Config!HeaderLength
<1> HIDE DEF i
<1>8. /\ i \in Config!Interfaces /\ AttachedTo(c, i)
      /\ i.at \in Nat /\ 0 < i.at /\ i.at < p
      /\ i.endpoints \in Seq(Config!Endpoints)
      /\ OwnerOf(c, Len(c) + 1) = i.at
      /\ TargetOf(c, Len(c) + 1) =
             IF i.endpoints = <<>> THEN 0 ELSE i.endpoints[Len(i.endpoints)].at
      /\ \A j \in DOMAIN i.endpoints :
             /\ i.endpoints[j] \in Config!Endpoints /\ i.endpoints[j].at \in Nat
             /\ i.at < i.endpoints[j].at /\ i.endpoints[j].at < p
             /\ \A m \in DOMAIN i.endpoints : j < m => i.endpoints[j].at < i.endpoints[m].at
  BY <1>2, <1>3, <1>4, <1>5, <1>6, <1>7
<1> QED
  BY <1>8 DEF i

\* A kept HID descriptor replaces the one the last interface had.
LEMMA VisitHid ==
  ASSUME NEW c \in Seq(Config!Descriptors), NEW s \in Seq(Config!Interfaces), NEW p \in Nat,
         NEW d \in Config!Descriptors, NEW l \in Nat \ {0}, Parsed(c, s, p),
         Config!HeaderLength <= p, IsKept(d, "hid"), d.at = p, s # <<>>
  PROVE  LET r == Config!AttachHid(s, p)
         IN  InOrder(r, p + l) /\ Attached(Append(c, d), r) /\ Current(Append(c, d), r)
<1> DEFINE q == s[Len(s)]
           i == [q EXCEPT !.hid = p]
           b == Append(c, d)
           H == OwnedBy(c, "hid", q.at)
<1>1. /\ q \in Config!Interfaces /\ AttachedTo(c, q)
      /\ OwnerOf(c, Len(c) + 1) = q.at
      /\ TargetOf(c, Len(c) + 1) =
             IF q.endpoints = <<>> THEN 0 ELSE q.endpoints[Len(q.endpoints)].at
      /\ \A j \in DOMAIN q.endpoints :
             /\ q.endpoints[j].at \in Nat
             /\ q.at < q.endpoints[j].at /\ q.endpoints[j].at < p
             /\ \A m \in DOMAIN q.endpoints : j < m => q.endpoints[j].at < q.endpoints[m].at
  BY LastInterface
<1> HIDE DEF q
<1>2. i.at = q.at /\ i.endpoints = q.endpoints /\ i.hid = p
  BY <1>1 DEF Config!Interfaces
<1>3. Config!AttachHid(s, p) = Config!SetLast(s, i)
  BY DEF Config!AttachHid, q
<1> HIDE DEF i, b, H
<1>4. ~IsKept(d, "interface") /\ ~IsKept(d, "endpoint") /\ ~IsKept(d, "companion")
  BY DEF IsKept
<1>5. AttachedTo(b, i)
  <2> DEFINE E == OwnedBy(c, "endpoint", q.at)
             C(j) == CompanionsOf(c, q.endpoints[j].at)
  <2>1. /\ OwnedBy(b, "endpoint", q.at) = E
        /\ OwnedBy(b, "hid", q.at) = H \cup {Len(c) + 1}
        /\ \A j \in DOMAIN q.endpoints : CompanionsOf(b, q.endpoints[j].at) = C(j)
    BY <1>1, <1>4, OwnedGrows DEF b, H
  <2>2. /\ E \in SUBSET (1 .. Len(c)) /\ H \in SUBSET (1 .. Len(c))
        /\ \A j \in DOMAIN q.endpoints : C(j) \in SUBSET (1 .. Len(c))
    BY OwnedGrows DEF H
  <2> HIDE DEF E, C
  <2>3. {Pos(b, e) : e \in E} = {Pos(c, e) : e \in E}
    BY <2>2, Images DEF b
  <2>4. Newest(b, H \cup {Len(c) + 1}) = p
    BY <2>2, OwnedGrows DEF b
  <2>5. \A j \in DOMAIN q.endpoints : Newest(b, C(j)) = Newest(c, C(j))
    BY <2>2, OwnedGrows DEF b
  <2>6. /\ {q.endpoints[j].at : j \in DOMAIN q.endpoints} = {Pos(c, e) : e \in E}
        /\ \A j \in DOMAIN q.endpoints : q.endpoints[j].companion = Newest(c, C(j))
    BY <1>1 DEF AttachedTo, E, C
  <2>7. {q.endpoints[j].at : j \in DOMAIN q.endpoints} =
            {Pos(b, e) : e \in OwnedBy(b, "endpoint", q.at)}
    BY <2>1, <2>3, <2>6
  <2> QED
    BY <1>2, <2>1, <2>4, <2>5, <2>6, <2>7 DEF AttachedTo
<1>6. InOrder(Config!SetLast(s, i), p + l) /\ Attached(b, Config!SetLast(s, i))
  <2>1. \A j \in DOMAIN i.endpoints :
            /\ i.at < i.endpoints[j].at /\ i.endpoints[j].at < p + l
            /\ \A m \in DOMAIN i.endpoints : j < m => i.endpoints[j].at < i.endpoints[m].at
    BY <1>1, <1>2
  <2> QED
    BY <1>2, <1>4, <1>5, <2>1, VisitLast DEF b, q
<1>7. Current(b, Config!SetLast(s, i))
  BY <1>1, <1>2, <1>4, NextOwner, SetLastFacts DEF Current, b
<1> QED
  BY <1>3, <1>6, <1>7 DEF b

\* A kept endpoint descriptor is the last endpoint of the last interface.
LEMMA VisitEndpoint ==
  ASSUME NEW c \in Seq(Config!Descriptors), NEW s \in Seq(Config!Interfaces), NEW p \in Nat,
         NEW d \in Config!Descriptors, NEW l \in Nat \ {0}, Parsed(c, s, p),
         Config!HeaderLength <= p, IsKept(d, "endpoint"), d.at = p, s # <<>>
  PROVE  LET r == Config!AttachEndpoint(s, p)
         IN  InOrder(r, p + l) /\ Attached(Append(c, d), r) /\ Current(Append(c, d), r)
<1> DEFINE q == s[Len(s)]
           e == Config!NewEndpoint(p)
           eps == Append(q.endpoints, e)
           n == Len(q.endpoints)
           i == [q EXCEPT !.endpoints = eps]
           b == Append(c, d)
<1>1. /\ q \in Config!Interfaces /\ AttachedTo(c, q)
      /\ q.at \in Nat /\ q.at < p
      /\ q.endpoints \in Seq(Config!Endpoints)
      /\ OwnerOf(c, Len(c) + 1) = q.at
      /\ \A j \in DOMAIN q.endpoints :
             /\ q.endpoints[j].at \in Nat
             /\ q.at < q.endpoints[j].at /\ q.endpoints[j].at < p
             /\ \A m \in DOMAIN q.endpoints : j < m => q.endpoints[j].at < q.endpoints[m].at
  BY LastInterface
<1> HIDE DEF q
<1>2. e \in Config!Endpoints /\ e.at = p /\ e.companion = 0
  BY DEF Config!NewEndpoint, Config!Endpoints
<1>3. Config!AttachEndpoint(s, p) = Config!SetLast(s, i)
  BY DEF Config!AttachEndpoint, q
<1> HIDE DEF e
<1>4. /\ n \in Nat /\ DOMAIN q.endpoints = 1 .. n /\ DOMAIN eps = 1 .. n + 1
      /\ Len(eps) = n + 1 /\ eps # <<>>
      /\ \A j \in 1 .. n : eps[j] = q.endpoints[j]
      /\ eps[n + 1] = e
  <2>1. /\ n \in Nat /\ DOMAIN q.endpoints = 1 .. n /\ DOMAIN eps = 1 .. n + 1
        /\ Len(eps) = n + 1
        /\ \A j \in 1 .. n : eps[j] = q.endpoints[j]
        /\ eps[n + 1] = e
    BY <1>1, <1>2, AppendFacts
  <2> HIDE DEF eps, n
  <2> QED
    BY <2>1
<1> HIDE DEF eps
<1>5. i.at = q.at /\ i.endpoints = eps /\ i.hid = q.hid
  BY <1>1 DEF Config!Interfaces
<1> HIDE DEF i, b, n
<1>6. ~IsKept(d, "interface") /\ ~IsKept(d, "hid") /\ ~IsKept(d, "companion")
  BY DEF IsKept
<1>7. AttachedTo(b, i)
  <2> DEFINE E == OwnedBy(c, "endpoint", q.at)
             H == OwnedBy(c, "hid", q.at)
             C(j) == CompanionsOf(c, q.endpoints[j].at)
  <2>1. /\ OwnedBy(b, "endpoint", q.at) = E \cup {Len(c) + 1}
        /\ OwnedBy(b, "hid", q.at) = H
        /\ \A j \in 1 .. n : CompanionsOf(b, q.endpoints[j].at) = C(j)
        /\ CompanionsOf(b, p) = CompanionsOf(c, p)
    BY <1>1, <1>6, OwnedGrows DEF b
  <2>2. /\ E \in SUBSET (1 .. Len(c)) /\ H \in SUBSET (1 .. Len(c))
        /\ \A j \in 1 .. n : C(j) \in SUBSET (1 .. Len(c))
    BY OwnedGrows
  <2> HIDE DEF E, C, H
  <2>3. {Pos(b, k) : k \in E \cup {Len(c) + 1}} = {Pos(c, k) : k \in E} \cup {p}
    BY <2>2, Images DEF b
  <2>4. Newest(b, H) = Newest(c, H)
    BY <2>2, OwnedGrows DEF b
  <2>5. \A j \in 1 .. n : Newest(b, C(j)) = Newest(c, C(j))
    BY <2>2, OwnedGrows DEF b
  <2>6. /\ {q.endpoints[j].at : j \in 1 .. n} = {Pos(c, k) : k \in E}
        /\ q.hid = Newest(c, H)
        /\ \A j \in 1 .. n : q.endpoints[j].companion = Newest(c, C(j))
    BY <1>1, <1>4 DEF AttachedTo, E, C, H
  <2>7. {eps[j].at : j \in 1 .. n + 1} = {q.endpoints[j].at : j \in 1 .. n} \cup {p}
    <3>1. /\ 1 .. n + 1 = (1 .. n) \cup {n + 1}
          /\ \A j \in 1 .. n : eps[j].at = q.endpoints[j].at
          /\ eps[n + 1].at = p
      BY <1>2, <1>4
    <3> QED
      BY <3>1
  <2>8. {i.endpoints[j].at : j \in DOMAIN i.endpoints} =
            {Pos(b, k) : k \in OwnedBy(b, "endpoint", i.at)}
    <3>1. /\ OwnedBy(b, "endpoint", i.at) = E \cup {Len(c) + 1}
          /\ i.endpoints = eps /\ DOMAIN eps = 1 .. n + 1
      BY <1>4, <1>5, <2>1
    <3>2. {eps[j].at : j \in DOMAIN eps} = {Pos(c, k) : k \in E} \cup {p}
      BY <2>6, <2>7, <3>1
    <3>3. {Pos(b, k) : k \in OwnedBy(b, "endpoint", i.at)} = {Pos(c, k) : k \in E} \cup {p}
      BY <2>3, <3>1
    <3> QED
      BY <3>1, <3>2, <3>3
  <2>9. CompanionsOf(b, p) = {} /\ Newest(b, {}) = 0
    <3>1. CompanionsOf(c, p) = {} /\ Newest(c, {}) = 0
      BY NothingAhead DEF Parsed
    <3>2. {} \in SUBSET (1 .. Len(c))
      OBVIOUS
    <3> QED
      BY <2>1, <3>1, <3>2, OwnedGrows DEF b
  <2>10. ASSUME NEW j \in 1 .. n + 1
         PROVE  eps[j].companion = Newest(b, CompanionsOf(b, eps[j].at))
    <3>1. CASE j = n + 1
      BY <1>2, <1>4, <2>9, <3>1
    <3>2. CASE j \in 1 .. n
      BY <1>4, <2>1, <2>5, <2>6, <3>2
    <3> QED
      BY <1>4, <3>1, <3>2
  <2> QED
    BY <1>4, <1>5, <2>1, <2>4, <2>6, <2>8, <2>10 DEF AttachedTo
<1>8. InOrder(Config!SetLast(s, i), p + l) /\ Attached(b, Config!SetLast(s, i))
  <2>1. ASSUME NEW j \in 1 .. n + 1
        PROVE  /\ q.at < eps[j].at /\ eps[j].at < p + l
               /\ \A m \in 1 .. n + 1 : j < m => eps[j].at < eps[m].at
    <3>1. CASE j = n + 1
      BY <1>1, <1>2, <1>4, <3>1
    <3>2. CASE j \in 1 .. n
      <4>1. q.at < eps[j].at /\ eps[j].at < p /\ eps[j].at \in Nat
        BY <1>1, <1>4, <3>2
      <4>2. ASSUME NEW m \in 1 .. n + 1, j < m PROVE eps[j].at < eps[m].at
        <5>1. CASE m = n + 1
          BY <1>2, <1>4, <4>1, <5>1
        <5>2. CASE m \in 1 .. n
          BY <1>1, <1>4, <3>2, <4>2, <5>2
        <5> QED
          BY <1>4, <5>1, <5>2
      <4> QED
        BY <4>1, <4>2
    <3> QED
      BY <1>4, <3>1, <3>2
  <2>2. \A j \in DOMAIN i.endpoints :
            /\ i.at < i.endpoints[j].at /\ i.endpoints[j].at < p + l
            /\ \A m \in DOMAIN i.endpoints : j < m => i.endpoints[j].at < i.endpoints[m].at
    BY <1>4, <1>5, <2>1
  <2> QED
    BY <1>5, <1>6, <1>7, <2>2, VisitLast DEF b, q
<1>9. Current(b, Config!SetLast(s, i))
  <2>1. /\ OwnerOf(b, Len(b) + 1) = q.at
        /\ TargetOf(b, Len(b) + 1) = p
    BY <1>1, <1>6, NextOwner DEF b
  <2>2. Config!SetLast(s, i)[Len(Config!SetLast(s, i))] = i
    BY SetLastFacts
  <2> QED
    BY <1>2, <1>4, <1>5, <2>1, <2>2 DEF Current
<1> QED
  BY <1>3, <1>8, <1>9 DEF b

\* A kept companion replaces the one the last endpoint had.
LEMMA VisitCompanion ==
  ASSUME NEW c \in Seq(Config!Descriptors), NEW s \in Seq(Config!Interfaces), NEW p \in Nat,
         NEW d \in Config!Descriptors, NEW l \in Nat \ {0}, Parsed(c, s, p),
         Config!HeaderLength <= p, IsKept(d, "companion"), d.at = p, s # <<>>,
         s[Len(s)].endpoints # <<>>
  PROVE  LET r == Config!AttachCompanion(s, p)
         IN  InOrder(r, p + l) /\ Attached(Append(c, d), r) /\ Current(Append(c, d), r)
<1> DEFINE q == s[Len(s)]
           eps == q.endpoints
           n == Len(eps)
           e == [eps[n] EXCEPT !.companion = p]
           new == Config!SetLast(eps, e)
           i == [q EXCEPT !.endpoints = new]
           b == Append(c, d)
<1>1. /\ q \in Config!Interfaces /\ AttachedTo(c, q) /\ eps # <<>>
      /\ eps \in Seq(Config!Endpoints)
      /\ OwnerOf(c, Len(c) + 1) = q.at
      /\ TargetOf(c, Len(c) + 1) = eps[n].at
      /\ \A j \in DOMAIN eps :
             /\ eps[j] \in Config!Endpoints /\ eps[j].at \in Nat
             /\ q.at < eps[j].at /\ eps[j].at < p
             /\ \A m \in DOMAIN eps : j < m => eps[j].at < eps[m].at
  BY LastInterface
<1>2. Config!AttachCompanion(s, p) = Config!SetLast(s, i)
  BY DEF Config!AttachCompanion
<1> HIDE DEF q
<1>3. n \in Nat /\ n \in DOMAIN eps /\ DOMAIN eps = 1 .. n
  BY <1>1, EmptySeq, LenProperties
<1>4. e.at = eps[n].at /\ e.companion = p
  BY <1>1, <1>3 DEF Config!Endpoints
<1> HIDE DEF e
<1>5. /\ DOMAIN new = DOMAIN eps /\ Len(new) = n /\ new # <<>> /\ new[n] = e
      /\ \A j \in DOMAIN eps : j # n => new[j] = eps[j]
  BY <1>1, SetLastFacts
<1> HIDE DEF new
<1>6. i.at = q.at /\ i.endpoints = new /\ i.hid = q.hid
  BY <1>1 DEF Config!Interfaces
<1>7. \A j \in DOMAIN eps : new[j].at = eps[j].at
  BY <1>4, <1>5
<1> HIDE DEF i, b
<1>8. ~IsKept(d, "interface") /\ ~IsKept(d, "hid") /\ ~IsKept(d, "endpoint")
  BY DEF IsKept
<1>9. AttachedTo(b, i)
  <2> DEFINE E == OwnedBy(c, "endpoint", q.at)
             H == OwnedBy(c, "hid", q.at)
             C(j) == CompanionsOf(c, eps[j].at)
  <2>1. /\ OwnedBy(b, "endpoint", q.at) = E
        /\ OwnedBy(b, "hid", q.at) = H
    BY <1>8, OwnedGrows DEF b
  <2>2. CompanionsOf(b, eps[n].at) = C(n) \cup {Len(c) + 1}
    BY <1>1, OwnedGrows DEF b
  <2>3. ASSUME NEW j \in DOMAIN eps, j # n PROVE CompanionsOf(b, eps[j].at) = C(j)
    <3>1. j < n
      BY <1>3, <2>3
    <3>2. eps[j].at \in Nat /\ eps[j].at < eps[n].at /\ eps[n].at \in Nat
      BY <1>1, <1>3, <3>1
    <3>3. TargetOf(c, Len(c) + 1) # eps[j].at
      BY <1>1, <3>2
    <3> QED
      BY <3>3, OwnedGrows DEF b
  <2>4. /\ E \in SUBSET (1 .. Len(c)) /\ H \in SUBSET (1 .. Len(c))
        /\ \A j \in DOMAIN eps : C(j) \in SUBSET (1 .. Len(c))
    BY OwnedGrows
  <2> HIDE DEF E, C, H
  <2>5. {Pos(b, k) : k \in E} = {Pos(c, k) : k \in E}
    BY <2>4, Images DEF b
  <2>6. Newest(b, H) = Newest(c, H)
    BY <2>4, OwnedGrows DEF b
  <2>7. \A j \in DOMAIN eps : Newest(b, C(j)) = Newest(c, C(j))
    BY <2>4, OwnedGrows DEF b
  <2>8. Newest(b, C(n) \cup {Len(c) + 1}) = p
    BY <1>3, <2>4, OwnedGrows DEF b
  <2>9. /\ {eps[j].at : j \in DOMAIN eps} = {Pos(c, k) : k \in E}
        /\ q.hid = Newest(c, H)
        /\ \A j \in DOMAIN eps : eps[j].companion = Newest(c, C(j))
    BY <1>1 DEF AttachedTo, E, C, H
  <2>10. {i.endpoints[j].at : j \in DOMAIN i.endpoints} =
             {Pos(b, k) : k \in OwnedBy(b, "endpoint", i.at)}
    <3>1. {new[j].at : j \in DOMAIN new} = {eps[j].at : j \in DOMAIN eps}
      BY <1>5, <1>7
    <3>2. OwnedBy(b, "endpoint", i.at) = E /\ DOMAIN i.endpoints = DOMAIN new
      BY <1>6, <2>1
    <3> QED
      BY <1>6, <2>5, <2>9, <3>1, <3>2
  <2>11. ASSUME NEW j \in DOMAIN eps
         PROVE  new[j].companion = Newest(b, CompanionsOf(b, new[j].at))
    <3>1. CASE j = n
      BY <1>4, <1>5, <1>7, <2>2, <2>8, <3>1
    <3>2. CASE j # n
      BY <1>5, <2>3, <2>7, <2>9, <3>2
    <3> QED
      BY <3>1, <3>2
  <2> QED
    BY <1>5, <1>6, <2>1, <2>6, <2>9, <2>10, <2>11 DEF AttachedTo
<1>10. InOrder(Config!SetLast(s, i), p + l) /\ Attached(b, Config!SetLast(s, i))
  <2>1. \A j \in DOMAIN i.endpoints :
            /\ i.at < i.endpoints[j].at /\ i.endpoints[j].at < p + l
            /\ \A m \in DOMAIN i.endpoints : j < m => i.endpoints[j].at < i.endpoints[m].at
    BY <1>1, <1>5, <1>6, <1>7
  <2> QED
    BY <1>1, <1>6, <1>8, <1>9, <2>1, VisitLast DEF b, q
<1>11. Current(b, Config!SetLast(s, i))
  <2>1. /\ OwnerOf(b, Len(b) + 1) = q.at
        /\ TargetOf(b, Len(b) + 1) = eps[n].at
    BY <1>1, <1>8, NextOwner DEF b
  <2>2. Config!SetLast(s, i)[Len(Config!SetLast(s, i))] = i
    BY SetLastFacts
  <2> QED
    BY <1>4, <1>5, <1>6, <2>1, <2>2 DEF Current
<1> QED
  BY <1>2, <1>10, <1>11 DEF b

\* Whatever the walk finds, what it has made of the chain stays what the chain
\* means.
LEMMA VisitParsed ==
  ASSUME NEW c \in Seq(Config!Descriptors), NEW s \in Seq(Config!Interfaces), NEW p \in Nat,
         NEW l \in Nat \ {0}, NEW t \in Config!Types, Parsed(c, s, p),
         Config!HeaderLength <= p
  PROVE  Parsed(Append(c, [at |-> p, length |-> l, type |-> t]), Config!Attach(s, p, l, t), p + l)
<1> DEFINE d == [at |-> p, length |-> l, type |-> t]
           r == Config!Attach(s, p, l, t)
           b == Append(c, d)
           Good(x) == InOrder(x, p + l) /\ Attached(b, x) /\ Current(b, x)
<1>1. d \in Config!Descriptors /\ d.at = p
  BY DEF Config!Descriptors
<1>2. \A u : IsKept(d, u) <=> u = t /\ l >= Config!Minimum[t]
  BY DEF IsKept
<1> HIDE DEF d
<1>3. Ascending(b, p + l)
  BY <1>1, AscendingGrows DEF Parsed
<1>4. ASSUME ~IsKept(d, "interface"),
             s # <<>> => ~IsKept(d, "endpoint") /\ ~IsKept(d, "hid"),
             s # <<>> /\ s[Len(s)].endpoints # <<>> => ~IsKept(d, "companion")
      PROVE  Good(s)
  BY <1>1, <1>4, VisitOther
<1> HIDE DEF b, r
<1>5. CASE l < Config!Minimum[t]
  <2>1. ~(l >= Config!Minimum[t])
    BY <1>5 DEF Config!Minimum, Config!Types
  <2>2. r = s
    BY <1>5, <2>1 DEF r, Config!Attach
  <2>3. \A u : ~IsKept(d, u)
    BY <1>2, <2>1
  <2> QED
    BY <1>3, <1>4, <2>2, <2>3 DEF Parsed, b, r, d
<1>6. CASE l >= Config!Minimum[t] /\ t = "interface"
  <2>1. r = Append(s, Config!NewInterface(p))
    BY <1>6 DEF r, Config!Attach, Config!Minimum
  <2>2. Good(r)
    BY <1>1, <1>2, <1>6, <2>1, VisitInterface DEF b
  <2> QED
    BY <1>3, <2>2 DEF Parsed, b, r, d
<1>7. CASE l >= Config!Minimum[t] /\ t = "endpoint"
  <2>1. r = Config!AttachEndpoint(s, p)
    BY <1>7 DEF r, Config!Attach, Config!Minimum
  <2>2. CASE s = <<>>
    <3>1. r = s
      BY <2>1, <2>2 DEF Config!AttachEndpoint
    <3> QED
      BY <1>2, <1>3, <1>4, <1>7, <2>2, <3>1 DEF Parsed, b, r, d
  <2>3. CASE s # <<>>
    <3>1. Good(r)
      BY <1>1, <1>2, <1>7, <2>1, <2>3, VisitEndpoint DEF b
    <3> QED
      BY <1>3, <3>1 DEF Parsed, b, r, d
  <2> QED
    BY <2>2, <2>3
<1>8. CASE l >= Config!Minimum[t] /\ t = "hid"
  <2>1. r = Config!AttachHid(s, p)
    BY <1>8 DEF r, Config!Attach, Config!Minimum
  <2>2. CASE s = <<>>
    <3>1. r = s
      BY <2>1, <2>2 DEF Config!AttachHid
    <3> QED
      BY <1>2, <1>3, <1>4, <1>8, <2>2, <3>1 DEF Parsed, b, r, d
  <2>3. CASE s # <<>>
    <3>1. Good(r)
      BY <1>1, <1>2, <1>8, <2>1, <2>3, VisitHid DEF b
    <3> QED
      BY <1>3, <3>1 DEF Parsed, b, r, d
  <2> QED
    BY <2>2, <2>3
<1>9. CASE l >= Config!Minimum[t] /\ t = "companion"
  <2>1. r = Config!AttachCompanion(s, p)
    BY <1>9 DEF r, Config!Attach, Config!Minimum
  <2>2. CASE s = <<>> \/ s[Len(s)].endpoints = <<>>
    <3>1. r = s
      BY <2>1, <2>2 DEF Config!AttachCompanion
    <3> QED
      BY <1>2, <1>3, <1>4, <1>9, <2>2, <3>1 DEF Parsed, b, r, d
  <2>3. CASE s # <<>> /\ s[Len(s)].endpoints # <<>>
    <3>1. Good(r)
      BY <1>1, <1>2, <1>9, <2>1, <2>3, VisitCompanion DEF b
    <3> QED
      BY <1>3, <3>1 DEF Parsed, b, r, d
  <2> QED
    BY <2>2, <2>3
<1>10. CASE l >= Config!Minimum[t] /\ t = "other"
  <2>1. r = s
    BY <1>10 DEF r, Config!Attach, Config!Minimum
  <2> QED
    BY <1>2, <1>3, <1>4, <1>10, <2>1 DEF Parsed, b, r, d
<1> QED
  <2>1. t \in {"interface", "endpoint", "hid", "companion", "other"}
    BY DEF Config!Types, Config!Minimum
  <2>2. l \in Int /\ Config!Minimum[t] \in Int
    BY DEF Config!Minimum, Config!Types
  <2> QED
    BY <1>5, <1>6, <1>7, <1>8, <1>9, <1>10, <2>1, <2>2

\* Nothing passed, nothing made of it.
LEMMA ParsedInit == Parsed(<<>>, <<>>, Config!HeaderLength)
  BY DEF Parsed, Ascending, InOrder, Attached, Current, Kept

\* What is parsed so is parsed as ConfigDescriptor defines it.
LEMMA ParsedMeans ==
  ASSUME Config!TypeOK, Parsed(chain, interfaces, pos)
  PROVE  Config!ParsedAsDefined
<1>1. chain \in Seq(Config!Descriptors) /\ interfaces \in Seq(Config!Interfaces) /\ pos \in Nat
  BY DEF Config!TypeOK
<1>2. Config!AttachedAsDefined
  BY DEF Parsed, Attached, AttachedTo, Config!AttachedAsDefined, Config!Taken, Config!At, Kept,
         IsKept, Pos, OwnedBy, OwnerOf, LastIf, LastEp, CompanionsOf, TargetOf, Newest
<1>3. Config!InBufferOrder
  <2> SUFFICES ASSUME NEW k \in DOMAIN interfaces
               PROVE  LET i == interfaces[k]
                          limit == IF k = Len(interfaces) THEN pos ELSE interfaces[k + 1].at
                      IN  /\ i.at < limit
                          /\ \A j \in DOMAIN i.endpoints :
                                 i.at < i.endpoints[j].at /\ i.endpoints[j].at < limit
                          /\ \A j, m \in DOMAIN i.endpoints :
                                 j < m => i.endpoints[j].at < i.endpoints[m].at
    BY DEF Config!InBufferOrder
  <2>1. DOMAIN interfaces = 1 .. Len(interfaces) /\ Len(interfaces) \in Nat
    BY <1>1, LenProperties
  <2>2. k # Len(interfaces) => k + 1 \in DOMAIN interfaces /\ k < k + 1
    BY <2>1
  <2> QED
    BY <2>2 DEF Parsed, InOrder, EndpointsInOrder
<1> QED
  BY <1>2, <1>3 DEF Config!ParsedAsDefined

-----------------------------------------------------------------------------
(* The walk over a configuration                                           *)

\* The bounds hold because the walk stops before `end'; that only the tail is
\* made up, because it passes from one descriptor to the next and stops at a
\* first byte that did not come; what was parsed is what the chain means,
\* because the next descriptor always belongs to the last interface.
ConfigInv ==
  /\ Config!TypeOK
  /\ Config!ReadsInBounds
  /\ Config!Contiguous
  /\ Config!OnlyTheTailIsMadeUp
  /\ Config!HeaderLength <= pos
  /\ Parsed(chain, interfaces, pos)

\* A descriptor that is passed starts where the walk was, at a byte that came.
LEMMA ConfigVisitInv ==
  ASSUME ConfigInv, NEW l \in ByteLengths, NEW t \in Config!Types, Config!Visit(l, t)
  PROVE  ConfigInv'
<1> DEFINE d == [at |-> pos, length |-> l, type |-> t]
<1>1. l \in Nat /\ pos \in Nat /\ end \in Nat /\ length \in Nat /\ sent \in Nat
  BY ReadsAssumption DEF ConfigInv, Config!TypeOK
<1>2. chain \in Seq(Config!Descriptors) /\ d \in Config!Descriptors
  BY <1>1 DEF ConfigInv, Config!TypeOK, Config!Descriptors
<1> HIDE DEF d
<1>3. /\ chain' = Append(chain, d) /\ pos' = pos + l /\ UNCHANGED <<length, sent, end>>
      /\ l >= 2 /\ pos + l <= end /\ pos < sent
  <2>1. pos < sent
    BY <1>1 DEF Config!Visit, Config!Reads
  <2> QED
    BY <2>1 DEF Config!Visit, d
<1>4. d.at = pos /\ d.length = l
  BY DEF d
<1>5. /\ Len(chain') = Len(chain) + 1 /\ DOMAIN chain' = 1 .. Len(chain) + 1
      /\ DOMAIN chain = 1 .. Len(chain) /\ Len(chain) \in Nat
      /\ \A k \in 1 .. Len(chain) : chain'[k] = chain[k] /\ chain[k] \in Config!Descriptors
      /\ chain'[Len(chain) + 1] = d
      /\ chain' \in Seq(Config!Descriptors)
  BY <1>2, <1>3, AppendFacts
<1>6. Config!TypeOK'
  <2>1. interfaces' \in Seq(Config!Interfaces)
    BY <1>1, AttachType DEF Config!Visit, ConfigInv, Config!TypeOK
  <2> QED
    BY <1>1, <1>3, <1>5, <2>1 DEF Config!TypeOK, ConfigInv
<1>7. Config!ReadsInBounds'
  BY <1>1, <1>3, <1>4, <1>5
     DEF ConfigInv, Config!ReadsInBounds, Config!HeaderLength, Config!Descriptors
<1>8. ASSUME NEW k \in 1 .. Len(chain) + 1
      PROVE  /\ chain'[k].at + chain'[k].length =
                   IF k = Len(chain) + 1 THEN pos' ELSE chain'[k + 1].at
             /\ chain'[k].at < sent
             /\ k # Len(chain) + 1 => chain'[k].at + chain'[k].length <= sent
  <2>1. CASE k = Len(chain) + 1
    BY <2>1, <1>1, <1>3, <1>4, <1>5
  <2>2. CASE k = Len(chain)
    BY <2>2, <1>1, <1>3, <1>4, <1>5
       DEF ConfigInv, Config!Contiguous, Config!OnlyTheTailIsMadeUp
  <2>3. CASE k < Len(chain)
    BY <2>3, <1>1, <1>3, <1>5
       DEF ConfigInv, Config!Contiguous, Config!OnlyTheTailIsMadeUp
  <2>4. k = Len(chain) + 1 \/ k = Len(chain) \/ k < Len(chain)
    <3>1. Len(chain) \in Nat
      BY <1>5
    <3> QED
      BY <3>1
  <2> QED
    BY <2>1, <2>2, <2>3, <2>4
<1>9. Config!Contiguous'
  <2>1. chain' # <<>>
    BY <1>5
  <2> QED
    BY <2>1, <1>5, <1>8 DEF Config!Contiguous
<1>10. Config!OnlyTheTailIsMadeUp'
  BY <1>3, <1>5, <1>8 DEF Config!OnlyTheTailIsMadeUp
<1>11. Parsed(chain, interfaces, pos)'
  <2>1. interfaces' = Config!Attach(interfaces, pos, l, t)
    BY DEF Config!Visit
  <2>2. interfaces \in Seq(Config!Interfaces) /\ l \in Nat \ {0}
    BY <1>1, <1>3 DEF ConfigInv, Config!TypeOK
  <2>3. Parsed(Append(chain, d), Config!Attach(interfaces, pos, l, t), pos + l)
    BY <1>1, <1>2, <2>2, VisitParsed DEF ConfigInv, d
  <2> QED
    BY <1>3, <2>1, <2>3
<1> QED
  BY <1>1, <1>3, <1>6, <1>7, <1>9, <1>10, <1>11 DEF ConfigInv, Config!HeaderLength

LEMMA ConfigNextInv ==
  ASSUME ConfigInv, Config!Next, pc = "start" => chain = <<>>
  PROVE  ConfigInv'
<1> USE DEF ConfigInv, Config!TypeOK, Config!ReadsInBounds, Config!Contiguous,
            Config!OnlyTheTailIsMadeUp
<1>1. CASE Config!HeaderFails
  BY <1>1 DEF Config!HeaderFails
<1>2. ASSUME NEW total \in TotalLengths, Config!Header(total) PROVE ConfigInv'
  <2>1. end' \in Nat /\ end' <= length
    BY <1>2, ReadsAssumption DEF Config!Header, Config!Smaller
  <2>2. chain = <<>> /\ UNCHANGED <<length, sent, pos, chain, interfaces>>
    BY <1>2 DEF Config!Header
  <2> QED
    BY <2>1, <2>2
<1>3. ASSUME NEW l \in ByteLengths, Config!Finish(l) PROVE ConfigInv'
  BY <1>3 DEF Config!Finish
<1>4. ASSUME NEW l \in ByteLengths, NEW t \in Config!Types, Config!Visit(l, t) PROVE ConfigInv'
  BY <1>4, ConfigVisitInv
<1> QED
  BY <1>1, <1>2, <1>3, <1>4 DEF Config!Next, Config!Walk

-----------------------------------------------------------------------------
(* The walk over a Binary Object Store                                     *)

\* The capabilities ascend because each is of a descriptor the walk has passed.
BosInv ==
  /\ Bos!TypeOK
  /\ Bos!ReadsInBounds
  /\ Bos!HeaderLength <= pos
  /\ Bos!ParsedAsDefined
  /\ \A m \in DOMAIN chain : chain[m].at < pos

\* Decoding takes no more bytes than the descriptor has.
LEMMA DecodeBounds ==
  ASSUME NEW at \in Nat, NEW l \in Nat, NEW t \in Bos!Types
  PROVE  /\ Bos!Decode(at, l, t) \in Bos!Capabilities
         /\ Bos!Decode(at, l, t).at = at
         /\ Bos!Decode(at, l, t).bytes <= l
         /\ t # "other" =>
                Bos!DecodedFrom(Bos!Decode(at, l, t), [at |-> at, length |-> l, type |-> t])
  BY DEF Bos!Decode, Bos!DecodedFrom, Bos!Capabilities, Bos!Types, Bos!Minimum

LEMMA BosVisitInv ==
  ASSUME BosInv, NEW l \in CapLengths, NEW t \in Bos!Types, Bos!Visit(l, t)
  PROVE  BosInv'
<1> DEFINE d == [at |-> pos, length |-> l, type |-> t]
           c == Bos!Decode(pos, l, t)
<1>1. l \in Nat /\ pos \in Nat /\ end \in Nat /\ length \in Nat
  BY ReadsAssumption DEF BosInv, Bos!TypeOK
<1>2. /\ chain \in Seq(Bos!Descriptors) /\ d \in Bos!Descriptors
      /\ capabilities \in Seq(Bos!Capabilities) /\ c \in Bos!Capabilities
      /\ c.at = pos /\ c.bytes <= l
      /\ d.type # "other" => Bos!DecodedFrom(c, d)
  BY <1>1, DecodeBounds DEF BosInv, Bos!TypeOK, Bos!Descriptors
<1> HIDE DEF d, c
<1>3. /\ chain' = Append(chain, d) /\ pos' = pos + l /\ UNCHANGED <<length, end>>
      /\ IF d.type = "other" THEN capabilities' = capabilities
                              ELSE capabilities' = Append(capabilities, c)
      /\ pos + l <= end /\ 3 <= l
  BY DEF Bos!Visit, d, c
<1>4. d.at = pos /\ d.length = l
  BY DEF d
<1>5. /\ chain' \in Seq(Bos!Descriptors)
      /\ DOMAIN chain' = 1 .. Len(chain) + 1 /\ DOMAIN chain = 1 .. Len(chain)
      /\ Len(chain) \in Nat
      /\ \A k \in 1 .. Len(chain) : chain'[k] = chain[k] /\ chain[k] \in Bos!Descriptors
      /\ chain'[Len(chain) + 1] = d
  BY <1>2, <1>3, AppendFacts
<1>6. /\ capabilities' \in Seq(Bos!Capabilities)
      /\ \A k \in DOMAIN capabilities' : capabilities'[k].at + capabilities'[k].bytes <= end
  <2>1. CASE capabilities' = capabilities
    BY <2>1, <1>2 DEF BosInv, Bos!ReadsInBounds
  <2>2. CASE capabilities' = Append(capabilities, c)
    <3>1. /\ capabilities' \in Seq(Bos!Capabilities)
          /\ DOMAIN capabilities' = 1 .. Len(capabilities) + 1
          /\ DOMAIN capabilities = 1 .. Len(capabilities) /\ Len(capabilities) \in Nat
          /\ \A k \in 1 .. Len(capabilities) : capabilities'[k] = capabilities[k]
          /\ capabilities'[Len(capabilities) + 1] = c
      BY <2>2, <1>2, AppendFacts
    <3>2. c.at + c.bytes <= end
      BY <1>1, <1>2, <1>3 DEF Bos!Capabilities
    <3> QED
      BY <3>1, <3>2 DEF BosInv, Bos!ReadsInBounds
  <2> QED
    BY <2>1, <2>2, <1>3
<1>7. Bos!TypeOK'
  BY <1>1, <1>3, <1>5, <1>6 DEF Bos!TypeOK
<1>8. Bos!ReadsInBounds'
  BY <1>1, <1>3, <1>4, <1>5, <1>6
     DEF BosInv, Bos!ReadsInBounds, Bos!HeaderLength, Bos!Descriptors
<1>9. \A m \in DOMAIN chain' : chain'[m].at < pos'
  <2>1. \A m \in 1 .. Len(chain) : chain[m].at < pos /\ chain[m].at \in Nat
    BY <1>5 DEF BosInv, Bos!Descriptors
  <2> QED
    BY <1>1, <1>3, <1>4, <1>5, <2>1
<1>10. Bos!Contiguous'
  <2>1. ASSUME NEW k \in 1 .. Len(chain) + 1
        PROVE  chain'[k].at + chain'[k].length =
                   IF k = Len(chain) + 1 THEN pos' ELSE chain'[k + 1].at
    <3>1. CASE k = Len(chain) + 1
      BY <3>1, <1>1, <1>3, <1>4, <1>5
    <3>2. CASE k = Len(chain)
      BY <3>2, <1>1, <1>3, <1>4, <1>5 DEF BosInv, Bos!ParsedAsDefined, Bos!Contiguous
    <3>3. CASE k < Len(chain)
      BY <3>3, <1>1, <1>3, <1>5 DEF BosInv, Bos!ParsedAsDefined, Bos!Contiguous
    <3>4. k = Len(chain) + 1 \/ k = Len(chain) \/ k < Len(chain)
      <4>1. Len(chain) \in Nat
        BY <1>5
      <4> QED
        BY <4>1
    <3> QED
      BY <3>1, <3>2, <3>3, <3>4
  <2>2. chain' # <<>> /\ Len(chain') = Len(chain) + 1
    BY <1>2, <1>3, <1>5, AppendFacts
  <2> QED
    BY <1>5, <2>1, <2>2 DEF Bos!Contiguous
<1>11. Bos!ParsedAsDefined'
  <2> DEFINE n == Len(chain)
             o == Len(capabilities)
             Gives(m, k) == Bos!DecodedFrom(capabilities[k], chain[m])
             Gave(m, k) == Bos!DecodedFrom(capabilities'[k], chain'[m])
  <2>1. /\ o \in Nat /\ DOMAIN capabilities = 1 .. o
        /\ \A k \in 1 .. o : capabilities'[k] = capabilities[k]
        /\ IF d.type = "other" THEN DOMAIN capabilities' = 1 .. o
           ELSE DOMAIN capabilities' = 1 .. o + 1 /\ capabilities'[o + 1] = c
    <3>1. CASE d.type = "other"
      BY <1>2, <1>3, <3>1, AppendFacts
    <3>2. CASE d.type # "other"
      BY <1>2, <1>3, <3>2, AppendFacts
    <3> QED
      BY <3>1, <3>2
  <2>2. /\ \A m \in 1 .. n : chain[m].type # "other" => \E k \in 1 .. o : Gives(m, k)
        /\ \A k \in 1 .. o : \E m \in 1 .. n : chain[m].type # "other" /\ Gives(m, k)
        /\ \A j, k \in 1 .. o : j < k => capabilities[j].at < capabilities[k].at
    BY <1>5, <2>1 DEF BosInv, Bos!ParsedAsDefined
  <2>3. \A m \in 1 .. n, k \in 1 .. o : Gave(m, k) <=> Gives(m, k)
    BY <1>5, <2>1
  <2>4. \A k \in 1 .. o : capabilities[k].at < pos
    BY <1>5, <2>2 DEF BosInv, Bos!DecodedFrom
  <2> HIDE DEF Gives
  <2>5. n \in Nat
    BY <1>5
  <2>6. ASSUME NEW m \in DOMAIN chain', chain'[m].type # "other"
        PROVE  \E k \in DOMAIN capabilities' : Gave(m, k)
    <3>1. CASE m = n + 1
      <4>1. d.type # "other"
        BY <1>5, <2>6, <3>1
      <4>2. o + 1 \in DOMAIN capabilities' /\ Gave(n + 1, o + 1)
        BY <1>2, <1>5, <2>1, <4>1
      <4> QED
        BY <3>1, <4>2
    <3>2. CASE m \in 1 .. n
      <4>1. PICK k \in 1 .. o : Gives(m, k)
        BY <1>5, <2>2, <2>6, <3>2
      <4>2. k \in DOMAIN capabilities'
        BY <2>1
      <4>3. Gave(m, k)
        BY <2>3, <3>2, <4>1
      <4> QED
        BY <4>2, <4>3
    <3> QED
      BY <1>5, <2>5, <3>1, <3>2
  <2>7. ASSUME NEW k \in DOMAIN capabilities'
        PROVE  \E m \in DOMAIN chain' : chain'[m].type # "other" /\ Gave(m, k)
    <3>1. CASE k \in 1 .. o
      <4>1. PICK m \in 1 .. n : chain[m].type # "other" /\ Gives(m, k)
        BY <2>2, <3>1
      <4>2. m \in DOMAIN chain' /\ chain'[m].type # "other"
        BY <1>5, <4>1
      <4>3. Gave(m, k)
        BY <2>3, <3>1, <4>1
      <4> QED
        BY <4>2, <4>3
    <3>2. CASE k \notin 1 .. o
      <4>1. k = o + 1 /\ d.type # "other" /\ capabilities'[k] = c
        BY <2>1, <3>2
      <4>2. n + 1 \in DOMAIN chain' /\ chain'[n + 1] = d
        BY <1>5, <2>5
      <4>3. Gave(n + 1, k)
        BY <1>2, <4>1, <4>2
      <4> QED
        BY <4>1, <4>2, <4>3
    <3> QED
      BY <3>1, <3>2
  <2>8. ASSUME NEW j \in DOMAIN capabilities', NEW k \in DOMAIN capabilities', j < k
        PROVE  capabilities'[j].at < capabilities'[k].at
    <3>1. j \in 1 .. o
      BY <2>1, <2>8
    <3>2. CASE k \in 1 .. o
      BY <2>1, <2>2, <2>8, <3>1, <3>2
    <3>3. CASE k \notin 1 .. o
      <4>1. capabilities'[k] = c
        BY <2>1, <3>3
      <4> QED
        BY <1>2, <2>1, <2>4, <3>1, <4>1
    <3> QED
      BY <3>2, <3>3
  <2> QED
    BY <1>10, <2>6, <2>7, <2>8 DEF Bos!ParsedAsDefined
<1> QED
  BY <1>1, <1>3, <1>7, <1>8, <1>9, <1>11 DEF BosInv, Bos!HeaderLength

LEMMA BosNextInv ==
  ASSUME BosInv, Bos!Next, pc = "start" => chain = <<>> /\ capabilities = <<>>
  PROVE  BosInv'
<1> USE DEF BosInv, Bos!TypeOK, Bos!ReadsInBounds, Bos!ParsedAsDefined, Bos!Contiguous
<1>1. CASE Bos!HeaderFails
  BY <1>1 DEF Bos!HeaderFails
<1>2. ASSUME NEW total \in TotalLengths, Bos!Header(total) PROVE BosInv'
  <2>1. end' \in Nat /\ end' <= length
    BY <1>2, ReadsAssumption DEF Bos!Header, Bos!Smaller
  <2>2. chain = <<>> /\ capabilities = <<>> /\ UNCHANGED <<length, pos, chain, capabilities>>
    BY <1>2 DEF Bos!Header
  <2> QED
    BY <2>1, <2>2
<1>3. ASSUME NEW l \in CapLengths, Bos!Finish(l) PROVE BosInv'
  BY <1>3 DEF Bos!Finish
<1>4. ASSUME NEW l \in CapLengths, NEW t \in Bos!Types, Bos!Visit(l, t) PROVE BosInv'
  BY <1>4, BosVisitInv
<1> QED
  BY <1>1, <1>2, <1>3, <1>4 DEF Bos!Next, Bos!Walk

-----------------------------------------------------------------------------
(* Reading                                                                 *)

Parsing == pc \in {"start", "walk", "ok"}

\* Each parser's invariant holds while its buffer is parsed and after; before,
\* nothing is there.  asked and room fit from the moment of a request.
ReadInv ==
  /\ asked \in Nat /\ room \in Nat /\ sent \in Nat /\ length \in Nat
  /\ platform # "windows" => asked <= room
  /\ pc \notin {"walk", "ok"} => end = 0 /\ chain = <<>> /\ interfaces = <<>> /\ capabilities = <<>>
  /\ pc \in {"second", "start", "walk"} => call \in {"config", "bos"}
  /\ call = "config" /\ Parsing => ConfigInv
  /\ call = "bos" /\ Parsing => BosInv /\ sent = length
  /\ pc = "ok" /\ call \notin {"config", "bos"} =>
        used <= sent \/ (call = "device" /\ platform = "windows")

LEMMA InitReadInv == Init => ReadInv
  BY DEF Init, ReadInit, ReadInv, Parsing

\* A request as long as the call's buffer, or cut to 16 bits, fits the buffer.
LEMMA RequestFits ==
  ASSUME NEW wLength \in Nat, NEW space \in Nat, NEW ms, Request(wLength, space, ms)
  PROVE  /\ asked' \in Nat /\ room' = space
         /\ platform # "windows" => asked' <= room'
  BY DEF Request, Word

LEMMA FirstLengthType == \A c \in DOMAIN FirstLength : FirstLength[c] \in Nat
  BY DEF FirstLength

LEMMA ComesFits ==
  ASSUME ReadInv, NEW n, Comes(n)
  PROVE  n \in Nat /\ n <= room
  BY ReadsAssumption DEF ReadInv, Comes, Smaller

\* Handing a buffer to a parser starts its walk after the header.
LEMMA ParseInv ==
  ASSUME ReadInv, NEW c \in {"config", "bos"}, NEW bytes \in Nat, NEW came \in 0 .. bytes,
         pc \notin {"walk", "ok"}, c = "bos" => came = bytes, Parse(c, bytes, came)
  PROVE  ReadInv'
<1>1. /\ call' = c /\ pc' = "start" /\ length' = bytes /\ sent' = came
      /\ pos' = IF c = "config" THEN Config!HeaderLength ELSE Bos!HeaderLength
      /\ UNCHANGED <<platform, asked, room, end, chain, interfaces, capabilities>>
  BY DEF Parse, requesting
<1>2. end = 0 /\ chain = <<>> /\ interfaces = <<>> /\ capabilities = <<>>
  BY DEF ReadInv
<1>3. c = "config" => ConfigInv'
  BY <1>1, <1>2, ParsedInit
     DEF ConfigInv, Config!TypeOK, Config!ReadsInBounds, Config!Contiguous,
         Config!OnlyTheTailIsMadeUp, Config!HeaderLength
<1>4. c = "bos" => BosInv'
  BY <1>1, <1>2 DEF BosInv, Bos!TypeOK, Bos!ReadsInBounds, Bos!HeaderLength,
                    Bos!ParsedAsDefined, Bos!Contiguous
<1> QED
  BY <1>1, <1>2, <1>3, <1>4 DEF ReadInv

LEMMA BeginInv == ASSUME ReadInv, Begin PROVE ReadInv'
<1>1. ASSUME NEW c \in Calls(platform), BeginRead(c) PROVE ReadInv'
  <2>1. c \in DOMAIN FirstLength
    BY DEF Calls, FirstLength
  <2>2. asked' \in Nat /\ room' \in Nat /\ (platform # "windows" => asked' <= room')
    BY <1>1, <2>1, FirstLengthType, RequestFits DEF BeginRead
  <2> QED
    BY <1>1, <2>2 DEF BeginRead, parsing, ReadInv, Parsing
<1>2. ASSUME NEW c \in {"config", "bos"}, NEW bytes \in BufferLengths, ParseBytes(c, bytes)
      PROVE ReadInv'
  BY <1>2, ParseInv, ReadsAssumption DEF ParseBytes
<1>3. ASSUME NEW wLength \in Nat, NEW space \in Nat, NEW us \in Nat,
             BeginControl(wLength, space, us)
      PROVE ReadInv'
  <2>1. asked' \in Nat /\ room' \in Nat /\ (platform # "windows" => asked' <= room')
    BY <1>3, RequestFits DEF BeginControl
  <2> QED
    BY <1>3, <2>1 DEF BeginControl, parsing, ReadInv, Parsing
<1>4. ASSUME NEW wLength \in SetupLengths, NEW us \in Timeouts, ControlIn(wLength, us)
      PROVE ReadInv'
  <2>1. CASE platform = "windows"
    BY <1>4, <2>1, <1>3, ReadsAssumption DEF ControlIn
  <2>2. CASE platform # "windows"
    BY <1>4, <2>2 DEF ControlIn, requesting, parsing, ReadInv, Parsing
  <2> QED
    BY <2>1, <2>2
<1>5. ASSUME NEW wLength \in SetupLengths, NEW us \in Timeouts, ControlOut(wLength, us)
      PROVE ReadInv'
  BY <1>5, <1>3, ReadsAssumption DEF ControlOut
<1>6. ASSUME NEW wLength \in SetupLengths, NEW us \in Timeouts, NEW space \in Rooms,
             ControlWithData(wLength, space, us)
      PROVE ReadInv'
  BY <1>6, <1>3, ReadsAssumption DEF ControlWithData
<1> QED
  BY <1>1, <1>2, <1>4, <1>5, <1>6 DEF Begin

\* An answer either ends the call with what came, or leads to a second request
\* or to a parser.
LEMMA AnswerInv == ASSUME ReadInv, NEW n, Answer(n) PROVE ReadInv'
<1>1. ASSUME NEW result \in {"ok", "err"}, Answered(n, result), pc = "first",
             result = "ok" =>
               /\ call \notin {"config", "bos"}
               /\ used' <= n \/ (call = "device" /\ platform = "windows")
      PROVE ReadInv'
  <2>1. n \in Nat
    BY <1>1, ComesFits DEF Answered
  <2> QED
    BY <1>1, <2>1 DEF Answered, requesting, parsing, ReadInv, Parsing
<1>2. CASE Malformed(n)
  BY <1>1, <1>2 DEF Malformed
<1>3. CASE DeviceRead(n)
  <2>1. platform # "windows" => used' <= n
    BY <1>3 DEF DeviceRead, FirstLength
  <2> QED
    BY <1>1, <1>3, <2>1 DEF DeviceRead
<1>4. ASSUME NEW b, StringRead(n, b) PROVE ReadInv'
  BY <1>1, <1>4 DEF StringRead
<1>5. CASE HubRead(n)
  BY <1>1, <1>5 DEF HubRead
<1>6. CASE SettingRead(n)
  BY <1>1, <1>6 DEF SettingRead
<1>7. CASE ControlEnds(n)
  <2>1. n <= n
    BY <1>7, ComesFits DEF ControlEnds, Answered
  <2> QED
    BY <1>1, <1>7, <2>1 DEF ControlEnds
<1>8. ASSUME NEW total \in TotalLengths, ConfigHeader(n, total) PROVE ReadInv'
  <2>1. asked' \in Nat /\ room' \in Nat /\ (platform # "windows" => asked' <= room')
    BY <1>8, RequestFits, ReadsAssumption DEF ConfigHeader
  <2>2. n \in Nat
    BY <1>8, ComesFits DEF ConfigHeader
  <2> QED
    BY <1>8, <2>1, <2>2 DEF ConfigHeader, parsing, ReadInv, Parsing
<1>9. ASSUME NEW total \in TotalLengths, BosHeader(n, total) PROVE ReadInv'
  <2>1. Smaller(total, BosLimit) \in Nat
    BY ReadsAssumption DEF Smaller
  <2>2. asked' \in Nat /\ room' \in Nat /\ (platform # "windows" => asked' <= room')
    BY <1>9, <2>1, RequestFits DEF BosHeader
  <2>3. n \in Nat
    BY <1>9, ComesFits DEF BosHeader
  <2> QED
    BY <1>9, <2>2, <2>3 DEF BosHeader, parsing, ReadInv, Parsing
<1>10. CASE SecondRead(n)
  <2>1. n \in Nat /\ n <= room /\ room \in Nat
    BY <1>10, ComesFits DEF SecondRead, ReadInv
  <2>2. call \in {"config", "bos"}
    BY <1>10 DEF SecondRead, ReadInv
  <2> QED
    BY <1>10, <2>1, <2>2, ParseInv DEF SecondRead
<1> QED
  BY <1>2, <1>3, <1>4, <1>5, <1>6, <1>7, <1>8, <1>9, <1>10 DEF Answer

LEMMA ParserInv == ASSUME ReadInv, ConfigStep \/ BosStep PROVE ReadInv'
<1>1. CASE ConfigStep
  <2>1. /\ pc \in {"start", "walk"} /\ pc' \in {"walk", "ok", "err"}
        /\ pc' = "err" => UNCHANGED <<end, chain, interfaces>>
        /\ pc' = "err" => pc = "start"
        /\ UNCHANGED <<platform, call, asked, room, sent, length, capabilities>>
    BY <1>1 DEF ConfigStep, requesting, Config!Next, Config!Walk, Config!HeaderFails,
                Config!Header, Config!Finish, Config!Visit
  <2>2. ConfigInv'
    BY <1>1, <2>1, ConfigNextInv DEF ConfigStep, ReadInv, Parsing
  <2> QED
    BY <1>1, <2>1, <2>2 DEF ConfigStep, ReadInv, Parsing
<1>2. CASE BosStep
  <2>1. /\ pc \in {"start", "walk"} /\ pc' \in {"walk", "ok", "err"}
        /\ pc' = "err" => UNCHANGED <<end, chain, capabilities>>
        /\ pc' = "err" => pc = "start"
        /\ UNCHANGED <<platform, call, asked, room, sent, length, interfaces>>
    BY <1>2 DEF BosStep, requesting, Bos!Next, Bos!Walk, Bos!HeaderFails,
                Bos!Header, Bos!Finish, Bos!Visit
  <2>2. BosInv'
    BY <1>2, <2>1, BosNextInv DEF BosStep, ReadInv, Parsing
  <2> QED
    BY <1>2, <2>1, <2>2 DEF BosStep, ReadInv, Parsing
<1> QED
  BY <1>1, <1>2

LEMMA StepReadInv == ReadInv /\ [Next]_vars => ReadInv'
<1> SUFFICES ASSUME ReadInv, [Next]_vars PROVE ReadInv'
  OBVIOUS
<1>1. ASSUME UNCHANGED <<platform, reading>> PROVE ReadInv'
  BY <1>1 DEF reading, requesting, parsing, ReadInv, Parsing, ConfigInv, BosInv,
              Config!TypeOK, Config!ReadsInBounds, Config!Contiguous,
              Config!OnlyTheTailIsMadeUp, Bos!TypeOK, Bos!ReadsInBounds, Bos!ParsedAsDefined,
              Bos!Contiguous
<1>2. CASE RequestFails
  BY <1>2 DEF RequestFails, requesting, parsing, ReadInv, Parsing
<1>3. ASSUME NEW us, SetControlTimeout(us) PROVE ReadInv'
  <2>1. UNCHANGED <<platform, call, asked, room, used, sent, pc, parsing>> /\ pc = "idle"
    BY <1>3 DEF SetControlTimeout
  <2> QED
    BY <2>1 DEF parsing, ReadInv, Parsing
<1>4. CASE Return
  BY <1>4 DEF Return, ReadInv, Parsing
<1>5. CASE ReadNext
  BY <1>2, <1>3, <1>4, <1>5, BeginInv, AnswerInv, ParserInv DEF ReadNext, RequestEnds
<1>6. ASSUME Enum!EnumNext, UNCHANGED reading PROVE ReadInv'
  <2>1. UNCHANGED platform
    BY <1>6 DEF Enum!EnumNext, Enum!Plug, Enum!Unplug, Enum!Scan, Enum!ScanFails,
                Enum!ListStep, Enum!TakeLinux, Enum!TakeMacOs, Enum!TakeWindows, Enum!Take,
                Enum!AddLinux, Enum!AddMacOs, Enum!AddWindows, Enum!Add, Enum!ListEnds,
                Enum!OpenLinux, Enum!OpenMacOs, Enum!OpenWindows, Enum!Forget
  <2> QED
    BY <1>1, <1>6, <2>1
<1>7. CASE UNCHANGED vars
  BY <1>1, <1>7 DEF vars
<1> QED
  BY <1>5, <1>6, <1>7 DEF Next

\* The invariant of the reads: what a request may ask for, and what the parsers have
\* made of what they passed.
THEOREM ReadInvHolds == Spec => []ReadInv
<1> QED
  BY InitReadInv, StepReadInv, PTL DEF Spec

\* Neither parser reads outside its buffer or behind what it decodes.
THEOREM ReadsStayInBounds == Spec => []ReadsInBounds
<1>1. ReadInv => ReadsInBounds
  <2> SUFFICES ASSUME ReadInv PROVE ReadsInBounds
    OBVIOUS
  <2>1. ASSUME pc \notin {"start", "walk", "ok"} PROVE Config!ReadsInBounds /\ Bos!ReadsInBounds
    BY <2>1 DEF ReadInv, Config!ReadsInBounds, Bos!ReadsInBounds
  <2> QED
    BY <2>1 DEF ReadInv, Parsing, ConfigInv, BosInv, ReadsInBounds
<1> QED
  BY <1>1, ReadInvHolds, PTL

\* What either parser has made of the descriptors it passed is what they mean, at
\* every step of its walk.
THEOREM ParsedRight == Spec => []ParsedAsDefined
<1>1. ReadInv => ParsedAsDefined
  BY ParsedMeans DEF ReadInv, Parsing, ConfigInv, BosInv, ParsedAsDefined
<1> QED
  BY <1>1, ReadInvHolds, PTL

\* What a call returns was sent by the device, but for the two short answers
\* that are accepted.
THEOREM ReturnedWasSent == Spec => []DecodedWasSent
<1>1. ReadInv => DecodedWasSent
  <2> SUFFICES ASSUME ReadInv PROVE DecodedWasSent
    OBVIOUS
  <2>1. call = "config" => Config!OnlyTheTailIsMadeUp
    BY DEF ReadInv, Parsing, ConfigInv, Config!OnlyTheTailIsMadeUp
  <2>2. pc \in {"walk", "ok"} /\ call = "bos" => end <= sent
    BY DEF ReadInv, Parsing, BosInv, Bos!ReadsInBounds
  <2> QED
    BY <2>1, <2>2 DEF ReadInv, DecodedWasSent
<1> QED
  BY <1>1, ReadInvHolds, PTL

-----------------------------------------------------------------------------
(***************************************************************************)
(* Enumeration, for every number of ports, devices and addresses, and      *)
(* whatever is plugged in and pulled out meanwhile: a listing is exact for *)
(* the ports that did not change, a path opens what it was listed for, and *)
(* nothing is kept of the system's.                                        *)
(***************************************************************************)

Attachments == [device : Devices, address : Addresses]
Paths == Devices \cup Addresses \cup {<<0, a[2]>> : a \in Addresses}
InfoType == [port : Ports, device : Devices \cup {Nothing}, path : Paths,
             address : Paths \cup Ports \cup {Nothing}]
ItemType == [port : Ports, device : Devices, address : Addresses]
AskType == [port : Ports, device : Devices, path : Paths]

\* A port holds one device, under an address no other port has.
BusInv ==
  /\ platform \in Platforms
  /\ port \in [Ports -> Attachments \cup {Nothing}]
  /\ \A p, q \in Enum!Attached :
         port[p].device = port[q].device \/ port[p].address = port[q].address => p = q

TypeInv ==
  /\ stage \in {"idle", "listing", "asking", "listed", "failed"}
  /\ todo \subseteq ItemType
  /\ stage = "asking" => current \in AskType
  /\ listed \in Seq(InfoType)
  /\ stage \in {"idle", "failed"} => listed = <<>> /\ opened = Nothing
  /\ stage \notin {"listing", "asking"} => todo = {}

\* Whatever is known of a port that has not changed is what is attached to it.
KnownInv ==
  \A p \in Ports \ changed :
    /\ \A item \in todo : item.port = p =>
           /\ port[p] # Nothing
           /\ port[p].device = item.device /\ port[p].address = item.address
    /\ stage = "asking" /\ current.port = p =>
           /\ port[p] # Nothing
           /\ port[p].device = current.device /\ current.path = Enum!Path(port[p])
           /\ platform # "macos" => current.device \notin Bare
    /\ \A k \in DOMAIN listed : listed[k].port = p =>
           /\ port[p] # Nothing
           /\ port[p].device \notin Bare
           /\ listed[k] = Enum!Entry(p)

\* Every port is in one place: still to come, asked about, or listed.
OnceInv ==
  /\ \A i, j \in todo : i.port = j.port => i = j
  /\ stage = "asking" => \A i \in todo : i.port # current.port
  /\ \A k \in DOMAIN listed :
         /\ \A i \in todo : i.port # listed[k].port
         /\ stage = "asking" => listed[k].port # current.port
         /\ \A j \in DOMAIN listed : listed[j].port = listed[k].port => j = k

\* No port that did not change is passed over.
CompleteInv ==
  stage \in {"listing", "asking", "listed"} =>
    \A p \in Enum!Steady :
       \/ \E item \in todo : item.port = p
       \/ stage = "asking" /\ current.port = p
       \/ \E k \in DOMAIN listed : listed[k].port = p

\* What is held is known from where the listing stands.
HeldInv ==
  held = CASE stage = "listing" -> {"list"}
           [] stage = "asking" /\ platform = "macos" -> {"list", "service"}
           [] stage = "asking" /\ platform # "macos" -> {"list"}
           [] OTHER -> {}

-----------------------------------------------------------------------------
LEMMA NextCases ==
  ASSUME [Next]_vars
  PROVE  UNCHANGED <<platform, enumerating>> \/ (UNCHANGED platform /\ Enum!EnumNext)
<1>1. ReadNext => UNCHANGED platform
  BY DEF ReadNext, Begin, BeginRead, ParseBytes, Parse, ControlWithData, ControlOut,
         ControlIn, BeginControl, RequestEnds, RequestFails, Answer, Malformed, DeviceRead,
         StringRead, HubRead, SettingRead, ConfigHeader, BosHeader, SecondRead, ControlEnds,
         Answered, ConfigStep, BosStep, SetControlTimeout, Return
<1>2. Enum!EnumNext => UNCHANGED platform
  BY DEF Enum!EnumNext, Enum!Plug, Enum!Unplug, Enum!Scan, Enum!ScanFails,
         Enum!ListStep, Enum!TakeLinux, Enum!TakeMacOs, Enum!TakeWindows, Enum!Take,
         Enum!AddLinux, Enum!AddMacOs, Enum!AddWindows, Enum!Add, Enum!ListEnds,
         Enum!OpenLinux, Enum!OpenMacOs, Enum!OpenWindows, Enum!Forget
<1> QED
  BY <1>1, <1>2 DEF Next, vars, enumerating

LEMMA HeldStep ==
  ASSUME HeldInv, TypeInv, platform \in Platforms, UNCHANGED platform, Enum!EnumNext
  PROVE  HeldInv'
<1> USE DEF HeldInv, TypeInv, Platforms
<1>1. ASSUME UNCHANGED <<stage, held>> PROVE HeldInv'
  BY <1>1
<1>2. ASSUME NEW p \in Ports, NEW d \in Devices, NEW a \in Addresses,
             Enum!Plug(p, d, a) \/ Enum!Unplug(p)
      PROVE HeldInv'
  BY <1>1, <1>2 DEF Enum!Plug, Enum!Unplug, Enum!listing
<1>3. CASE Enum!Scan \/ Enum!ScanFails \/ Enum!Forget
  BY <1>3 DEF Enum!Scan, Enum!ScanFails, Enum!Forget
<1>4. ASSUME NEW item \in todo,
             Enum!TakeLinux(item) \/ Enum!TakeMacOs(item) \/ Enum!TakeWindows(item)
      PROVE HeldInv'
  BY <1>4 DEF Enum!TakeLinux, Enum!TakeMacOs, Enum!TakeWindows, Enum!Take, Enum!Skip, Enum!Ask
<1>5. CASE Enum!AddLinux \/ Enum!AddMacOs \/ Enum!AddWindows \/ Enum!ListEnds
  BY <1>5 DEF Enum!AddLinux, Enum!AddMacOs, Enum!AddWindows, Enum!Add, Enum!ListEnds
<1>6. ASSUME NEW info, NEW p \in Ports,
             Enum!OpenLinux(info, p) \/ Enum!OpenMacOs(info, p) \/ Enum!OpenWindows(info, p)
      PROVE HeldInv'
  BY <1>1, <1>6 DEF Enum!OpenLinux, Enum!OpenMacOs, Enum!OpenWindows, Enum!listing
<1>7. ASSUME NEW p \in Ports, Enum!Unplug(p) PROVE HeldInv'
  BY <1>1, <1>7 DEF Enum!Unplug, Enum!listing
<1> QED
  BY <1>2, <1>3, <1>4, <1>5, <1>6, <1>7 DEF Enum!EnumNext, Enum!ListStep

-----------------------------------------------------------------------------
(* What a listing knows                                                    *)

ListInv == BusInv /\ TypeInv /\ KnownInv /\ OnceInv /\ CompleteInv

LEMMA KeyType ==
  ASSUME NEW x \in Attachments, platform \in Platforms
  PROVE  Enum!Path(x) \in Paths /\ Enum!Key(x) \in Paths
<1>1. Enum!Key(x) \in Paths
  BY DEF Enum!Key, Attachments, Paths
<1> QED
  BY <1>1 DEF Enum!Path, Attachments, Paths

\* A device comes or goes: its port has changed, and what is known of the others
\* still holds.
LEMMA BusStep ==
  ASSUME ListInv, NEW p \in Ports,
         \/ \E d \in Devices, a \in Addresses : Enum!Plug(p, d, a)
         \/ Enum!Unplug(p)
  PROVE  ListInv'
<1>1. /\ UNCHANGED <<platform, stage, todo, current, held, listed, opened>>
      /\ changed' = IF stage = "idle" THEN changed ELSE changed \cup {p}
      /\ \A q \in Ports \ {p} : port'[q] = port[q]
  BY DEF Enum!Plug, Enum!Unplug, Enum!Notice, Enum!listing, ListInv, BusInv
<1>2. BusInv'
  <2>1. ASSUME NEW d \in Devices, NEW a \in Addresses, Enum!Plug(p, d, a) PROVE BusInv'
    <3>1. [device |-> d, address |-> a] \in Attachments
      BY DEF Attachments
    <3>2. port' \in [Ports -> Attachments \cup {Nothing}]
      BY <2>1, <3>1 DEF Enum!Plug, ListInv, BusInv
    <3>3. port'[p] = [device |-> d, address |-> a]
      BY <2>1 DEF Enum!Plug, ListInv, BusInv
    <3>4. \A q \in Enum!Attached : port[q].device # d /\ port[q].address # a
      BY <2>1 DEF Enum!Plug, Enum!InUse
    <3>5. Enum!Attached' \subseteq Enum!Attached \cup {p}
      BY <1>1 DEF Enum!Attached
    <3>6. \A q \in Enum!Attached' : q # p => q \in Enum!Attached /\ port'[q] = port[q]
      BY <1>1, <3>5 DEF Enum!Attached
    <3> QED
      BY <1>1, <3>2, <3>3, <3>4, <3>6 DEF ListInv, BusInv
  <2>2. ASSUME Enum!Unplug(p) PROVE BusInv'
    <3>1. port' \in [Ports -> Attachments \cup {Nothing}] /\ port'[p] = Nothing
      BY <2>2 DEF Enum!Unplug, ListInv, BusInv
    <3>2. \A q \in Enum!Attached' : q \in Enum!Attached /\ port'[q] = port[q]
      BY <1>1, <3>1 DEF Enum!Attached
    <3> QED
      BY <1>1, <3>1, <3>2 DEF ListInv, BusInv
  <2> QED
    BY <2>1, <2>2
<1>3. TypeInv'
  BY <1>1 DEF ListInv, TypeInv
<1>4. CASE stage = "idle"
  BY <1>1, <1>2, <1>3, <1>4
     DEF ListInv, TypeInv, KnownInv, OnceInv, CompleteInv
<1>5. CASE stage # "idle"
  <2>1. changed' = changed \cup {p}
    BY <1>1, <1>5
  <2>2. \A q \in Ports : q \notin changed' =>
            q \notin changed /\ port'[q] = port[q] /\ Enum!Entry(q)' = Enum!Entry(q)
                /\ Enum!Path(port[q])' = Enum!Path(port[q])
    BY <1>1, <2>1 DEF Enum!Entry, Enum!Path, Enum!Key, Enum!Location
  <2>4. KnownInv'
    BY <1>1, <2>2 DEF ListInv, KnownInv
  <2>5. OnceInv'
    BY <1>1 DEF ListInv, OnceInv
  <2>6. CompleteInv'
    <3>1. Enum!Steady' \subseteq Enum!Steady
      BY <2>2 DEF Enum!Steady, Enum!Attached
    <3> QED
      BY <1>1, <3>1 DEF ListInv, CompleteInv
  <2> QED
    BY <1>2, <1>3, <2>4, <2>5, <2>6 DEF ListInv
<1> QED
  BY <1>4, <1>5

\* The snapshot holds every device that is there.
LEMMA ScanStep ==
  ASSUME ListInv, Enum!Scan
  PROVE  ListInv'
<1>1. /\ UNCHANGED <<platform, port, changed, current, listed, opened>>
      /\ stage' = "listing" /\ listed = <<>> /\ stage = "idle"
      /\ todo' = {[port |-> p, device |-> port[p].device, address |-> port[p].address] :
                     p \in Enum!Attached}
  BY DEF Enum!Scan, ListInv, TypeInv
<1>2. \A p \in Enum!Attached : p \in Ports /\ port[p] # Nothing /\ port[p] \in Attachments
  BY DEF Enum!Attached, ListInv, BusInv
<1>3. todo' \subseteq ItemType
  BY <1>1, <1>2 DEF Attachments, ItemType
<1>4. TypeInv'
  BY <1>1, <1>3 DEF ListInv, TypeInv
<1>5. BusInv' /\ KnownInv' /\ OnceInv'
  BY <1>1, <1>2 DEF ListInv, BusInv, KnownInv, OnceInv, Enum!Attached
<1>6. CompleteInv'
  <2>1. \A p \in Enum!Steady' : p \in Enum!Attached
    BY <1>1 DEF Enum!Steady, Enum!Attached
  <2>2. ASSUME NEW p \in Enum!Attached PROVE \E item \in todo' : item.port = p
    <3>1. [port |-> p, device |-> port[p].device, address |-> port[p].address] \in todo'
      BY <1>1
    <3> QED
      BY <3>1
  <2> QED
    BY <2>1, <2>2 DEF CompleteInv
<1> QED
  BY <1>4, <1>5, <1>6 DEF ListInv

\* The loop ends when nothing is left, or was never entered.
LEMMA EndsStep ==
  ASSUME ListInv, Enum!ScanFails \/ Enum!ListEnds
  PROVE  ListInv'
<1>1. /\ UNCHANGED <<platform, port, changed, todo, current, listed, opened>>
      /\ stage # "asking" /\ todo = {}
      /\ (stage = "idle" /\ stage' = "failed") \/ (stage = "listing" /\ stage' = "listed")
  BY DEF Enum!ScanFails, Enum!ListEnds, ListInv, TypeInv
<1>2. BusInv' /\ TypeInv' /\ OnceInv'
  BY <1>1 DEF ListInv, BusInv, TypeInv, OnceInv, Enum!Attached
<1>3. KnownInv' /\ CompleteInv'
  BY <1>1 DEF ListInv, KnownInv, CompleteInv, Enum!Attached, Enum!Steady, Enum!Entry,
              Enum!Path, Enum!Key
<1> QED
  BY <1>2, <1>3 DEF ListInv

\* A list that is dropped leaves nothing known.
LEMMA ForgetStep ==
  ASSUME ListInv, Enum!Forget
  PROVE  ListInv'
<1>1. /\ UNCHANGED <<platform, port>>
      /\ stage' = "idle" /\ todo' = {} /\ listed' = <<>> /\ opened' = Nothing
  BY DEF Enum!Forget, ListInv, TypeInv
<1> QED
  BY <1>1
     DEF ListInv, BusInv, TypeInv, KnownInv, OnceInv, CompleteInv, Enum!Attached

LEMMA OpenStep ==
  ASSUME ListInv, NEW info, NEW p,
         Enum!OpenLinux(info, p) \/ Enum!OpenMacOs(info, p) \/ Enum!OpenWindows(info, p)
  PROVE  ListInv'
<1>1. UNCHANGED <<platform, port, changed, stage, todo, current, held, listed>>
      /\ stage = "listed"
  BY DEF Enum!OpenLinux, Enum!OpenMacOs, Enum!OpenWindows, Enum!OpenBegins, Enum!listing
<1> QED
  BY <1>1
     DEF ListInv, BusInv, TypeInv, KnownInv, OnceInv, CompleteInv, Enum!Attached, Enum!Steady,
         Enum!Entry, Enum!Path, Enum!Key, Enum!Location

\* An entry is asked about as what it was in the snapshot, or skipped because
\* it can tell too little or has changed.
LEMMA TakeStep ==
  ASSUME ListInv, NEW item \in todo,
         Enum!TakeLinux(item) \/ Enum!TakeMacOs(item) \/ Enum!TakeWindows(item)
  PROVE  ListInv'
<1>1. /\ UNCHANGED <<platform, port, changed, opened, listed>>
      /\ stage = "listing"
      /\ todo' = todo \ {item}
  BY DEF Enum!TakeLinux, Enum!TakeMacOs, Enum!TakeWindows, Enum!Take, Enum!Skip, Enum!Ask
<1>2. item \in ItemType /\ item.port \in Ports /\ item.device \in Devices /\ item.address \in Addresses
  BY DEF ListInv, TypeInv, ItemType
<1>3. item.port \notin changed =>
        /\ port[item.port] # Nothing
        /\ port[item.port].device = item.device /\ port[item.port].address = item.address
  BY <1>2 DEF ListInv, KnownInv
<1>4. BusInv'
  BY <1>1 DEF ListInv, BusInv, Enum!Attached
<1>5. Enum!Steady' = Enum!Steady
  BY <1>1 DEF Enum!Steady, Enum!Attached
<1>6. CASE stage' = "listing"
  <2>1. item.port \notin Enum!Steady
    BY <1>1, <1>3, <1>6
       DEF Enum!Steady, Enum!TakeLinux, Enum!TakeMacOs, Enum!TakeWindows, Enum!Take, Enum!Skip,
           Enum!Ask, Enum!Stays
  <2>2. CompleteInv'
    BY <1>1, <1>5, <1>6, <2>1 DEF ListInv, CompleteInv
  <2> QED
    BY <1>1, <1>4, <1>6, <2>2
       DEF ListInv, TypeInv, KnownInv, OnceInv, Enum!Entry, Enum!Path, Enum!Key, Enum!Location
<1>7. CASE stage' # "listing"
  <2>1. \E path \in Paths :
           /\ stage' = "asking"
           /\ current' = [port |-> item.port, device |-> item.device, path |-> path]
           /\ item.port \notin changed =>
                  /\ path = Enum!Path(port[item.port])
                  /\ platform # "macos" => item.device \notin Bare
    <3>1. CASE Enum!TakeLinux(item)
      <4>1. port[item.port] \in Attachments /\ port[item.port].device \notin Bare
        BY <1>2, <1>7, <3>1 DEF Enum!TakeLinux, Enum!Skip, ListInv, BusInv
      <4>2. port[item.port].address \in Paths
        BY <4>1 DEF Attachments, Paths
      <4> QED
        BY <1>3, <1>7, <3>1, <4>1, <4>2 DEF Enum!TakeLinux, Enum!Skip, Enum!Ask, Enum!Path
    <3>2. CASE Enum!TakeMacOs(item)
      <4>1. Enum!Key(item) \in Paths
        BY <1>2 DEF Enum!Key, Paths
      <4>2. item.port \notin changed => Enum!Key(item) = Enum!Path(port[item.port])
        BY <1>3, <3>2 DEF Enum!TakeMacOs, Enum!Key, Enum!Path
      <4> QED
        BY <3>2, <4>1, <4>2 DEF Enum!TakeMacOs, Enum!Ask
    <3>3. CASE Enum!TakeWindows(item)
      <4>1. item.device \in Paths
        BY <1>2 DEF Paths
      <4>2. item.port \notin changed => item.device = Enum!Path(port[item.port])
        BY <1>3, <3>3 DEF Enum!TakeWindows, Enum!Path
      <4> QED
        BY <1>7, <3>3, <4>1, <4>2 DEF Enum!TakeWindows, Enum!Ask, Enum!Skip
    <3> QED
      BY <3>1, <3>2, <3>3
  <2>2. stage' = "asking" /\ current' \in AskType
        /\ current'.port = item.port /\ current'.device = item.device
    BY <1>2, <2>1 DEF AskType
  <2>3. TypeInv'
    BY <1>1, <2>2 DEF ListInv, TypeInv
  <2>4. OnceInv'
    BY <1>1, <2>2 DEF ListInv, OnceInv
  <2>5. CompleteInv'
    BY <1>1, <1>5, <2>2 DEF ListInv, CompleteInv
  <2>6. KnownInv'
    <3>1. \A p \in Ports \ changed : item.port = p =>
             /\ port[p] # Nothing
             /\ port[p].device = current'.device /\ current'.path = Enum!Path(port[p])
             /\ platform # "macos" => current'.device \notin Bare
      BY <1>3, <2>1
    <3>2. \A p \in Ports : /\ Enum!Entry(p)' = Enum!Entry(p)
                           /\ Enum!Path(port[p])' = Enum!Path(port[p])
      BY <1>1 DEF Enum!Entry, Enum!Path, Enum!Key, Enum!Location
    <3> QED
      BY <1>1, <2>2, <3>1, <3>2 DEF ListInv, KnownInv
  <2> QED
    BY <1>4, <2>3, <2>4, <2>5, <2>6 DEF ListInv
<1> QED
  BY <1>6, <1>7

\* What is added for a port that has not changed is what is attached to it.
LEMMA AddStep ==
  ASSUME ListInv, Enum!AddLinux \/ Enum!AddMacOs \/ Enum!AddWindows
  PROVE  ListInv'
<1> DEFINE q == current.port
<1>1. UNCHANGED <<platform, port, changed, todo, opened>> /\ stage = "asking" /\ stage' = "listing"
  BY DEF Enum!AddLinux, Enum!AddMacOs, Enum!AddWindows, Enum!Add
<1>2. q \in Ports /\ current.device \in Devices /\ current.path \in Paths
  BY <1>1 DEF ListInv, TypeInv, AskType
<1>3. q \notin changed =>
        /\ port[q] # Nothing
        /\ port[q].device = current.device /\ current.path = Enum!Path(port[q])
        /\ platform # "macos" => current.device \notin Bare
  BY <1>1, <1>2 DEF ListInv, KnownInv
<1>4. BusInv'
  BY <1>1 DEF ListInv, BusInv, Enum!Attached
<1>5. Enum!Steady' = Enum!Steady
  BY <1>1 DEF Enum!Steady, Enum!Attached
<1>6. \A p \in Ports : Enum!Entry(p)' = Enum!Entry(p) /\ Enum!Path(port[p])' = Enum!Path(port[p])
  BY <1>1 DEF Enum!Entry, Enum!Path, Enum!Key, Enum!Location
<1>7. CASE listed' = listed
  <2>1. q \notin Enum!Steady
    <3>1. listed \in Seq(InfoType)
      BY DEF ListInv, TypeInv
    <3>2. \A x : Append(listed, x) # listed
      BY <3>1
    <3>3. Enum!AddMacOs /\ current.device \in Bare
      BY <1>7, <3>2 DEF Enum!AddLinux, Enum!AddMacOs, Enum!AddWindows, Enum!Add
    <3> QED
      BY <1>3, <3>3 DEF Enum!Steady
  <2>2. CompleteInv'
    BY <1>1, <1>5, <1>7, <2>1 DEF ListInv, CompleteInv
  <2> QED
    BY <1>1, <1>4, <1>6, <1>7, <2>2 DEF ListInv, TypeInv, KnownInv, OnceInv
<1>8. CASE listed' # listed
  <2>1. \E info \in InfoType :
           /\ listed' = Append(listed, info)
           /\ info.port = q
           /\ q \notin changed => current.device \notin Bare /\ info = Enum!Entry(q)
    <3>1. CASE Enum!AddLinux
      <4> DEFINE now == port[q]
                 info == [port |-> q, path |-> current.path,
                          device |-> IF now = Nothing THEN Nothing ELSE now.device,
                          address |-> IF now = Nothing THEN Nothing ELSE now.address]
      <4>1. now \in Attachments \cup {Nothing}
        BY <1>2 DEF ListInv, BusInv
      <4>2. info \in InfoType
        BY <1>2, <4>1 DEF Attachments, InfoType, Paths
      <4>3. listed' = Append(listed, info)
        BY <3>1 DEF Enum!AddLinux, Enum!Add
      <4>4. q \notin changed => info = Enum!Entry(q)
        BY <1>3, <3>1 DEF Enum!AddLinux, Enum!Entry, Enum!Path
      <4>5. info.port = q
        OBVIOUS
      <4> HIDE DEF info
      <4> QED
        BY <1>3, <3>1, <4>2, <4>3, <4>4, <4>5 DEF Enum!AddLinux
    <3>2. CASE Enum!AddMacOs
      <4> DEFINE info == [port |-> q, path |-> current.path,
                          device |-> current.device, address |-> current.path]
      <4>1. info \in InfoType /\ info.port = q
        BY <1>2 DEF InfoType
      <4>2. current.device \notin Bare /\ listed' = Append(listed, info)
        BY <1>8, <3>2 DEF Enum!AddMacOs, Enum!Add
      <4>3. q \notin changed => info = Enum!Entry(q)
        BY <1>3, <3>2 DEF Enum!AddMacOs, Enum!Entry, Enum!Path
      <4> HIDE DEF info
      <4> QED
        BY <4>1, <4>2, <4>3
    <3>3. CASE Enum!AddWindows
      <4> DEFINE info == [port |-> q, path |-> current.path,
                          device |-> current.device, address |-> Enum!Location(q, current.device)]
      <4>1. info \in InfoType /\ info.port = q
        BY <1>2 DEF InfoType, Enum!Location
      <4>2. listed' = Append(listed, info)
        BY <3>3 DEF Enum!AddWindows, Enum!Add
      <4>3. q \notin changed => info = Enum!Entry(q)
        BY <1>3, <3>3 DEF Enum!AddWindows, Enum!Entry, Enum!Path
      <4> HIDE DEF info
      <4> QED
        BY <1>3, <3>3, <4>1, <4>2, <4>3 DEF Enum!AddWindows
    <3> QED
      BY <3>1, <3>2, <3>3
  <2>2. PICK info \in InfoType :
           /\ listed' = Append(listed, info)
           /\ info.port = q
           /\ q \notin changed => current.device \notin Bare /\ info = Enum!Entry(q)
    BY <2>1
  <2>3. /\ listed' \in Seq(InfoType)
        /\ Len(listed) \in Nat
        /\ DOMAIN listed = 1 .. Len(listed) /\ DOMAIN listed' = 1 .. Len(listed) + 1
        /\ \A k \in 1 .. Len(listed) : listed'[k] = listed[k]
        /\ listed'[Len(listed) + 1] = info
    BY <2>2 DEF ListInv, TypeInv
  <2>4. TypeInv'
    BY <1>1, <2>3 DEF ListInv, TypeInv
  <2>5. KnownInv'
    <3>1. ASSUME NEW p \in Ports, p \notin changed, NEW k \in DOMAIN listed', listed'[k].port = p
          PROVE  port[p] # Nothing /\ port[p].device \notin Bare /\ listed'[k] = Enum!Entry(p)
      <4>1. CASE k \in 1 .. Len(listed)
        BY <3>1, <4>1, <2>3 DEF ListInv, KnownInv
      <4>2. CASE k = Len(listed) + 1
        BY <3>1, <4>2, <1>3, <2>2, <2>3
      <4> QED
        BY <4>1, <4>2, <2>3
    <3> QED
      BY <1>1, <1>6, <3>1 DEF ListInv, KnownInv
  <2>6. OnceInv'
    <3>1. \A k \in 1 .. Len(listed) : listed'[k].port # q
      BY <1>1, <2>3 DEF ListInv, OnceInv
    <3>2. listed'[Len(listed) + 1].port = q
      BY <2>2, <2>3
    <3>3. \A i \in todo : i.port # q
      BY <1>1 DEF ListInv, OnceInv
    <3>4. ASSUME NEW k \in DOMAIN listed', NEW j \in DOMAIN listed', listed'[j].port = listed'[k].port
          PROVE  j = k
      <4>1. CASE j \in 1 .. Len(listed) /\ k \in 1 .. Len(listed)
        BY <3>4, <4>1, <2>3 DEF ListInv, OnceInv
      <4>2. CASE j = Len(listed) + 1 \/ k = Len(listed) + 1
        BY <3>1, <3>2, <3>4, <4>2, <2>3
      <4> QED
        BY <4>1, <4>2, <2>3
    <3>5. \A k \in DOMAIN listed' : \A i \in todo : i.port # listed'[k].port
      BY <2>3, <3>2, <3>3 DEF ListInv, OnceInv
    <3> QED
      BY <1>1, <3>4, <3>5 DEF ListInv, OnceInv
  <2>7. CompleteInv'
    <3>1. ASSUME NEW p \in Enum!Steady, ~ \E item \in todo : item.port = p
          PROVE  \E k \in DOMAIN listed' : listed'[k].port = p
      <4>1. CASE p = q
        BY <4>1, <2>2, <2>3
      <4>2. CASE p # q
        <5>1. PICK k \in DOMAIN listed : listed[k].port = p
          BY <1>1, <3>1, <4>2 DEF ListInv, CompleteInv
        <5>2. k \in DOMAIN listed' /\ listed'[k].port = p
          BY <5>1, <2>3
        <5> QED
          BY <5>2
      <4> QED
        BY <4>1, <4>2
    <3> QED
      BY <1>1, <1>5, <3>1 DEF CompleteInv
  <2> QED
    BY <1>4, <2>4, <2>5, <2>6, <2>7 DEF ListInv
<1> QED
  BY <1>7, <1>8

-----------------------------------------------------------------------------
EnumInv == ListInv /\ HeldInv

LEMMA InitEnumInv == Init => EnumInv
<1> SUFFICES ASSUME Init PROVE EnumInv
  OBVIOUS
<1>1. Enum!EnumInit /\ platform \in Platforms
  BY DEF Init, ReadInit
<1>2. port \in [Ports -> {Nothing}] /\ Enum!Attached = {}
  BY <1>1 DEF Enum!EnumInit, Enum!Attached
<1>3. BusInv
  BY <1>1, <1>2 DEF BusInv
<1>4. TypeInv /\ KnownInv /\ OnceInv /\ CompleteInv /\ HeldInv
  BY <1>1 DEF Enum!EnumInit, TypeInv, KnownInv, OnceInv, CompleteInv, HeldInv
<1> QED
  BY <1>3, <1>4 DEF EnumInv, ListInv

LEMMA StepEnumInv == EnumInv /\ [Next]_vars => EnumInv'
<1> SUFFICES ASSUME EnumInv, [Next]_vars PROVE EnumInv'
  OBVIOUS
<1>1. CASE UNCHANGED <<platform, enumerating>>
  BY <1>1
     DEF enumerating, EnumInv, ListInv, BusInv, TypeInv, KnownInv, OnceInv, CompleteInv,
         HeldInv, Enum!Attached, Enum!Steady, Enum!Entry, Enum!Path, Enum!Key, Enum!Location
<1>2. CASE UNCHANGED platform /\ Enum!EnumNext
  <2>1. HeldInv'
    BY <1>2, HeldStep DEF EnumInv, ListInv, BusInv
  <2>2. ListInv'
    BY <1>2, BusStep, ScanStep, EndsStep, ForgetStep, OpenStep, TakeStep, AddStep
       DEF EnumInv, Enum!EnumNext, Enum!ListStep
  <2> QED
    BY <2>1, <2>2 DEF EnumInv
<1> QED
  BY <1>1, <1>2, NextCases

\* The invariant of enumeration: what a listing knows, and what it holds.
THEOREM EnumInvHolds == Spec => []EnumInv
<1> QED
  BY InitEnumInv, StepEnumInv, PTL DEF Spec

\* An entry of the list is of a port.
LEMMA PortListed ==
    ASSUME TypeInv, NEW k \in DOMAIN listed PROVE listed[k].port \in Ports
<1>1. listed \in Seq(InfoType)
  BY DEF TypeInv
<1>2. k \in 1 .. Len(listed)
  <2> HIDE DEF InfoType
  <2> QED
    BY <1>1
<1>3. listed[k] \in InfoType
  <2> HIDE DEF InfoType
  <2> QED
    BY <1>1, <1>2, ElementOfSeq
<1> QED
  BY <1>3 DEF InfoType

\* A listing shows what did not change, once and as it is.
THEOREM ListsExactly == Spec => []ListingExact
<1>1. EnumInv => ListingExact
  <2> SUFFICES ASSUME EnumInv, stage = "listed" PROVE ListingExact
    BY DEF ListingExact, Enum!ListingExact
  <2>1. \A k \in DOMAIN listed : listed[k].port \in Ports
    BY PortListed DEF EnumInv, ListInv
  <2>2. ASSUME NEW p \in Enum!Steady PROVE Enum!Entry(p) \in Enum!Infos
    <3>1. PICK k \in DOMAIN listed : listed[k].port = p
      BY DEF EnumInv, ListInv, TypeInv, CompleteInv
    <3>2. listed[k] = Enum!Entry(p)
      BY <3>1 DEF EnumInv, ListInv, KnownInv, Enum!Steady, Enum!Attached
    <3> QED
      BY <3>2 DEF Enum!Infos
  <2>3. \A j, k \in DOMAIN listed : listed[j].port = listed[k].port => j = k
    BY DEF EnumInv, ListInv, OnceInv
  <2>4. ASSUME NEW info \in Enum!Infos, info.port \notin changed
        PROVE  info.port \in Enum!Steady /\ info = Enum!Entry(info.port)
    <3>1. PICK k \in DOMAIN listed : info = listed[k]
      BY DEF Enum!Infos
    <3> QED
      BY <2>1, <2>4, <3>1 DEF EnumInv, ListInv, KnownInv, Enum!Steady, Enum!Attached
  <2> QED
    BY <2>2, <2>3, <2>4 DEF ListingExact, Enum!ListingExact
<1> QED
  BY <1>1, EnumInvHolds, PTL

\* The path of an entry opens the device it was listed for, or the port has
\* changed, or the path is another device's as well.
THEOREM OpensWhatWasListed == Spec => OpenReachesListed
<1>1. ASSUME EnumInv, NEW info \in Enum!Infos, NEW p \in Ports, info.port \notin changed,
             Enum!OpenLinux(info, p) \/ Enum!OpenMacOs(info, p) \/ Enum!OpenWindows(info, p)
      PROVE  /\ opened' = [device |-> port[p].device, info |-> info]
             /\ port[p].device = info.device \/ Enum!Ambiguous(info.port)
  <2> DEFINE r == info.port
  <2>1. opened' = [device |-> port[p].device, info |-> info] /\ p \in Enum!Attached
    BY <1>1 DEF Enum!OpenLinux, Enum!OpenMacOs, Enum!OpenWindows
  <2>2. PICK k \in DOMAIN listed : info = listed[k]
    BY DEF Enum!Infos
  <2>3. r \in Ports
    BY <2>2, <1>1, PortListed DEF EnumInv, ListInv
  <2>4. port[r] # Nothing /\ info = Enum!Entry(r) /\ r \in Enum!Attached
    BY <1>1, <2>2, <2>3 DEF EnumInv, ListInv, KnownInv, Enum!Attached
  <2>5. info.device = port[r].device /\ info.path = Enum!Path(port[r])
    BY <2>4 DEF Enum!Entry
  <2>6. CASE Enum!OpenLinux(info, p)
    <3>1. port[p].address = port[r].address
      BY <2>5, <2>6 DEF Enum!OpenLinux, Enum!Path
    <3> QED
      BY <1>1, <2>1, <2>4, <2>5, <3>1 DEF EnumInv, ListInv, BusInv
  <2>7. CASE Enum!OpenMacOs(info, p)
    <3>1. platform = "macos" /\ Enum!Key(port[p]) = Enum!Key(port[r])
      BY <2>5, <2>7 DEF Enum!OpenMacOs, Enum!Path
    <3> QED
      BY <2>1, <2>5, <3>1 DEF Enum!Ambiguous
  <2>8. CASE Enum!OpenWindows(info, p)
    BY <2>1, <2>5, <2>8 DEF Enum!OpenWindows, Enum!Path
  <2> QED
    BY <1>1, <2>1, <2>6, <2>7, <2>8
<1>2. ASSUME EnumInv, [Next]_vars, opened' # opened, opened' # Nothing
      PROVE  \E info \in Enum!Infos, p \in Ports :
                Enum!OpenLinux(info, p) \/ Enum!OpenMacOs(info, p) \/ Enum!OpenWindows(info, p)
  <2>1. Enum!EnumNext
    BY <1>2, NextCases DEF enumerating
  <2> QED
    BY <1>2, <2>1
       DEF Enum!EnumNext, Enum!Plug, Enum!Unplug, Enum!Scan, Enum!ScanFails, Enum!ListStep,
           Enum!TakeLinux, Enum!TakeMacOs, Enum!TakeWindows, Enum!Take,
           Enum!AddLinux, Enum!AddMacOs, Enum!AddWindows, Enum!Add, Enum!ListEnds, Enum!Forget
<1>3. ASSUME EnumInv, [Next]_vars
      PROVE  [opened' # opened /\ opened' # Nothing =>
                LET info == opened'.info
                IN  info.port \in changed \/ opened'.device = info.device
                        \/ Enum!Ambiguous(info.port)]_Enum!enumVars
  <2> SUFFICES ASSUME opened' # opened, opened' # Nothing, opened'.info.port \notin changed
               PROVE  opened'.device = opened'.info.device \/ Enum!Ambiguous(opened'.info.port)
    OBVIOUS
  <2>1. PICK info \in Enum!Infos, p \in Ports :
           Enum!OpenLinux(info, p) \/ Enum!OpenMacOs(info, p) \/ Enum!OpenWindows(info, p)
    BY <1>2, <1>3
  <2>2. opened' = [device |-> port[p].device, info |-> info]
    BY <2>1 DEF Enum!OpenLinux, Enum!OpenMacOs, Enum!OpenWindows
  <2> QED
    BY <1>1, <1>3, <2>1, <2>2
<1> QED
  BY <1>3, EnumInvHolds, PTL DEF Spec, OpenReachesListed, Enum!OpenReachesListed

\* A listing gives back the list and every service it was handed.
THEOREM ListingHoldsNothing == Spec => []NothingHeldBetweenListings
<1>1. EnumInv => NothingHeldBetweenListings
  BY DEF EnumInv, HeldInv, NothingHeldBetweenListings, Enum!NothingHeldBetweenListings
<1> QED
  BY <1>1, EnumInvHolds, PTL
-----------------------------------------------------------------------------
(***************************************************************************)
(* Progress.  A request with a timeout ends; a walk ends or comes closer   *)
(* to the end of its buffer, and a listing ends or has fewer entries to    *)
(* ask about, so that each of the two loops makes finitely many rounds.    *)
(***************************************************************************)

\* A request runs under the timeout the Windows control pipe has, and a limited
\* one has a deadline: also where do_control_transfer leaves the pipe the timeout
\* of an earlier call.
DeadlineInv ==
    pc \in {"first", "second"} =>
        /\ platform = "windows" => deadline = ep0
        /\ Limited => deadline > 0

\* What a request of so many milliseconds runs under.
Timed(ms) ==
    /\ platform' = "windows" => deadline' = ep0'
    /\ ms > 0 => \/ deadline' > 0
                 \/ policy' = "refused" /\ deadline' = ep0'

LEMMA RequestTimed ==
    ASSUME NEW ms \in Nat, SetTimeout(ms), platform' = platform
    PROVE  Timed(ms)
  BY DEF SetTimeout, SetControlPolicy, Timed

LEMMA StepDeadline == DeadlineInv /\ [Next]_vars => DeadlineInv'
<1> DEFINE Good == /\ platform' = "windows" => deadline' = ep0'
                   /\ Limited' => deadline' > 0
<1> SUFFICES ASSUME DeadlineInv, [Next]_vars, pc' \in {"first", "second"}
             PROVE  Good
  BY DEF DeadlineInv
<1>1. ASSUME NEW c, platform' = platform,
             \E wLength, space : Request(wLength, space, TimeLimit(c))
      PROVE  Good
  <2>1. TimeLimit(c) \in Nat /\ TimeLimit(c) > 0 /\ SetTimeout(TimeLimit(c))
    BY <1>1 DEF Request, TimeLimit
  <2> QED
    BY <1>1, <2>1, RequestTimed DEF Timed, Limited
<1>2. ASSUME NEW us \in Timeouts, timeout' = us, platform' = platform,
             \E wLength, space : Request(wLength, space, Milliseconds(us))
      PROVE  Good
  <2>1. /\ Milliseconds(us) \in Nat
        /\ timeout' >= 1000 => Milliseconds(us) > 0
    BY <1>2, ReadsAssumption DEF Milliseconds
  <2>2. SetTimeout(Milliseconds(us))
    BY <1>2 DEF Request
  <2> HIDE DEF Milliseconds
  <2>3. Timed(Milliseconds(us))
    BY <1>2, <2>1, <2>2, RequestTimed
  <2> QED
    BY <2>1, <2>3 DEF Timed, Limited
<1>3. CASE Begin
  <2>1. ASSUME NEW c, BeginRead(c) PROVE Good
    BY <1>1, <2>1 DEF BeginRead
  <2>2. ASSUME NEW us \in Timeouts, \E wLength, space : BeginControl(wLength, space, us)
        PROVE  Good
    BY <1>2, <2>2 DEF BeginControl
  <2>3. ASSUME NEW wLength, NEW us \in Timeouts, ControlIn(wLength, us) PROVE Good
    BY <2>2, <2>3 DEF ControlIn
  <2> QED
    BY <1>3, <2>1, <2>2, <2>3 DEF Begin, ParseBytes, Parse, ControlWithData, ControlOut
<1>4. ASSUME NEW n, Answer(n) PROVE Good
  <2>1. ASSUME NEW total, ConfigHeader(n, total) \/ BosHeader(n, total) PROVE Good
    BY <1>1, <2>1 DEF ConfigHeader, BosHeader
  <2>2. ASSUME NEW result \in {"ok", "err"}, Answered(n, result) PROVE FALSE
    BY <2>2 DEF Answered
  <2> QED
    BY <1>4, <2>1, <2>2
       DEF Answer, Malformed, DeviceRead, StringRead, HubRead, SettingRead, SecondRead, Parse,
           ControlEnds
<1>5. ASSUME UNCHANGED <<platform, pc, timeout, deadline, ep0, policy>> PROVE Good
  BY <1>5 DEF DeadlineInv, Limited
<1>6. CASE ConfigStep \/ BosStep
  BY <1>6 DEF ConfigStep, BosStep, Config!Next, Config!Walk, Config!HeaderFails, Config!Header,
              Config!Finish, Config!Visit, Bos!Next, Bos!Walk, Bos!HeaderFails, Bos!Header,
              Bos!Finish, Bos!Visit
<1>7. CASE RequestFails \/ Return \/ \E us : SetControlTimeout(us)
  BY <1>7 DEF RequestFails, Return, SetControlTimeout
<1>8. UNCHANGED platform
  BY NextCases
<1> HIDE DEF Good
<1> QED
  BY <1>3, <1>4, <1>5, <1>6, <1>7, <1>8 DEF Next, ReadNext, RequestEnds, vars, reading, requesting

\* A request of a call that was given a millisecond or more has a deadline, also where
\* earlier calls left the control pipe without a timeout, unless the driver refuses
\* the one of this call (windows.rs:614).
THEOREM RequestsHaveDeadlines == Spec => []DeadlineInv
<1>1. Init => DeadlineInv
  BY DEF Init, ReadInit, DeadlineInv
<1> QED
  BY <1>1, StepDeadline, PTL DEF Spec

\* Once it is sent nothing but its end takes a request on.
LEMMA RequestMoves ==
  ASSUME [Next]_vars, pc \in {"first", "second"}
  PROVE  UNCHANGED <<pc, timeout, policy, ep0>> \/ RequestEnds
  BY DEF Next, ReadNext, Begin, BeginRead, ParseBytes, ControlWithData, ControlOut, ControlIn,
         BeginControl, ConfigStep, BosStep, Config!Next, Config!Walk, Config!HeaderFails,
         Config!Header, Config!Finish, Config!Visit, Bos!Next, Bos!Walk, Bos!HeaderFails,
         Bos!Header, Bos!Finish, Bos!Visit, SetControlTimeout, Return, vars, reading, requesting

\* The second request of a call has the caller's timeout, and on Windows the pipe has
\* the timeout it had or one of the call.
Again ==
    /\ timeout' = timeout
    /\ \/ UNCHANGED <<policy, ep0>>
       \/ platform = "windows" /\ (ep0' = ep0 \/ ep0' > 0)

LEMMA RequestLeads ==
  ASSUME RequestEnds
  PROVE  /\ pc = "first" => pc' \in {"start", "ok", "err"} \/ (pc' = "second" /\ Again)
         /\ pc = "second" => pc' \in {"start", "err"}
<1>1. CASE RequestFails
  BY <1>1 DEF RequestFails
<1>2. ASSUME NEW n, NEW total, ConfigHeader(n, total) \/ BosHeader(n, total)
      PROVE  pc = "first" /\ pc' = "second" /\ Again
  BY <1>2 DEF ConfigHeader, BosHeader, Request, SetTimeout, SetControlPolicy, Again
<1>3. ASSUME NEW n, Answer(n)
      PROVE  /\ pc = "first" => pc' \in {"start", "ok", "err"} \/ (pc' = "second" /\ Again)
             /\ pc = "second" => pc' = "start"
  BY <1>2, <1>3 DEF Answer, Malformed, DeviceRead, StringRead, HubRead, SettingRead,
                    SecondRead, Parse, ControlEnds, Answered
<1> QED
  BY <1>1, <1>3 DEF RequestEnds

\* A request that a timeout is in force for is answered or fails, and so is the second
\* one of a call that makes two: the requests part of CallsReturn.
THEOREM RequestsEnd ==
  Spec /\ []StepsEnabled =>
      (Limited /\ pc \in {"first", "second"} ~> pc \in {"start", "ok", "err"})
<1> DEFINE First == Limited /\ pc = "first"
           Second == Limited /\ pc = "second"
           Out == pc \in {"start", "ok", "err"}
           Fair == deadline > 0 /\ RequestEnds
           P == Limited /\ pc \in {"first", "second"}
<1>1. DeadlineInv /\ First /\ [Next]_vars => First' \/ Second' \/ Out'
  <2> SUFFICES ASSUME DeadlineInv, First, [Next]_vars PROVE First' \/ Second' \/ Out'
    OBVIOUS
  <2>1. platform = "windows" => ep0 > 0
    BY DEF DeadlineInv
  <2>2. CASE UNCHANGED <<pc, timeout, policy, ep0>>
    BY <2>2 DEF Limited
  <2>3. CASE RequestEnds
    BY <2>1, <2>3, RequestLeads DEF Again, Limited
  <2> QED
    BY <2>2, <2>3, RequestMoves
<1>2. Second /\ [Next]_vars => Second' \/ Out'
  BY RequestMoves, RequestLeads DEF Limited
<1>3. First /\ <<Fair>>_readVars => ~First'
  BY RequestLeads
<1>4. Second /\ <<Fair>>_readVars => ~Second'
  BY RequestLeads
<1>5. DeadlineInv /\ StepsEnabled => /\ First => ENABLED <<deadline > 0 /\ RequestEnds>>_readVars
                                     /\ Second => ENABLED <<deadline > 0 /\ RequestEnds>>_readVars
  BY DEF StepsEnabled, DeadlineInv
<1>6. P <=> First \/ Second
  OBVIOUS
<1>7. Spec => WF_readVars(deadline > 0 /\ RequestEnds)
  BY PTL DEF Spec, Fairness, ReadFairness
<1> HIDE DEF First, Second, Out, P
<1>8. Spec /\ []StepsEnabled => (P ~> Out)
  BY <1>1, <1>2, <1>3, <1>4, <1>5, <1>6, <1>7, RequestsHaveDeadlines, PTL DEF Spec
<1> QED
  BY <1>8 DEF P, Out
\* Only its parser moves a walk.
LEMMA WalkMoves ==
  ASSUME [Next]_vars, pc \in {"start", "walk"}
  PROVE  UNCHANGED <<pc, call, end, pos>> \/ ConfigStep \/ BosStep
<1>1. ~RequestEnds /\ ~Begin /\ ~Return /\ ~ \E us : SetControlTimeout(us)
  BY DEF RequestEnds, RequestFails, Answer, Malformed, DeviceRead, StringRead, HubRead,
         SettingRead, ConfigHeader, BosHeader, SecondRead, ControlEnds, Begin, BeginRead,
         ParseBytes, ControlWithData, ControlOut, ControlIn, BeginControl, Return,
         SetControlTimeout
<1> QED
  BY <1>1 DEF Next, ReadNext, vars, reading, parsing

\* A step of a parser starts the walk, ends it or passes a descriptor that lies before
\* the end.
LEMMA WalkLeads ==
  ASSUME ReadInv, ConfigStep \/ BosStep
  PROVE  /\ call' = call
         /\ pc = "start" => pc' \in {"walk", "err"}
         /\ pc = "walk" => \/ pc' = "ok"
                           \/ pc' = "walk" /\ end' - pos' \in 0 .. end - pos - 2
<1>1. CASE ConfigStep
  <2>1. pc = "walk" => pos \in Nat /\ end \in Nat
    BY <1>1 DEF ConfigStep, ReadInv, Parsing, ConfigInv, Config!TypeOK
  <2>2. ASSUME NEW l \in ByteLengths, NEW t, Config!Visit(l, t), pc = "walk"
        PROVE  pc' = "walk" /\ end' - pos' \in 0 .. end - pos - 2
    BY <2>1, <2>2, ReadsAssumption DEF Config!Visit
  <2> QED
    BY <1>1, <2>2 DEF ConfigStep, Config!Next, Config!Walk, Config!HeaderFails, Config!Header,
                      Config!Finish, Config!Visit
<1>2. CASE BosStep
  <2>1. pc = "walk" => pos \in Nat /\ end \in Nat
    BY <1>2 DEF BosStep, ReadInv, Parsing, BosInv, Bos!TypeOK
  <2>2. ASSUME NEW l \in CapLengths, NEW t, Bos!Visit(l, t), pc = "walk"
        PROVE  pc' = "walk" /\ end' - pos' \in 0 .. end - pos - 2
    BY <2>1, <2>2, ReadsAssumption DEF Bos!Visit
  <2> QED
    BY <1>2, <2>2 DEF BosStep, Bos!Next, Bos!Walk, Bos!HeaderFails, Bos!Header, Bos!Finish,
                      Bos!Visit
<1> QED
  BY <1>1, <1>2

\* From any place in its buffer a walk ends, or reaches a later one that is not behind
\* the end: a length that a device sends never stops it nor turns it back.
THEOREM WalksAdvance ==
  ASSUME NEW n \in Int
  PROVE  Spec /\ []StepsEnabled =>
             /\ pc = "start" ~> pc \in {"walk", "err"}
             /\ pc = "walk" /\ end - pos = n
                    ~> pc = "ok" \/ (pc = "walk" /\ end - pos \in 0 .. n - 2)
<1> DEFINE Start == pc = "start"
           Started == pc \in {"walk", "err"}
           Here == pc = "walk" /\ end - pos = n
           Further == pc = "ok" \/ (pc = "walk" /\ end - pos \in 0 .. n - 2)
           C == call = "config"
           B == call = "bos"
<1>1. ReadInv /\ (Start \/ Here) => C \/ B
  BY DEF ReadInv
<1>2. /\ Start /\ [Next]_vars => (C' <=> C) /\ (B' <=> B)
      /\ Here /\ [Next]_vars => (C' <=> C) /\ (B' <=> B)
  BY WalkMoves DEF ConfigStep, BosStep
<1>3. ReadInv /\ Start /\ [Next]_vars => Start' \/ Started'
  BY WalkMoves, WalkLeads
<1>4. ReadInv /\ Here /\ [Next]_vars => Here' \/ Further'
  BY WalkMoves, WalkLeads
<1>5. /\ ReadInv /\ Start /\ (<<ConfigStep>>_readVars \/ <<BosStep>>_readVars) => Started'
      /\ ReadInv /\ Here /\ (<<ConfigStep>>_readVars \/ <<BosStep>>_readVars) => Further'
  BY WalkLeads
<1>6. StepsEnabled => /\ C /\ Start => ENABLED <<ConfigStep>>_readVars
                      /\ C /\ Here => ENABLED <<ConfigStep>>_readVars
                      /\ B /\ Start => ENABLED <<BosStep>>_readVars
                      /\ B /\ Here => ENABLED <<BosStep>>_readVars
  BY DEF StepsEnabled
<1>7. Spec => WF_readVars(ConfigStep) /\ WF_readVars(BosStep)
  BY PTL DEF Spec, Fairness, ReadFairness
<1> HIDE DEF Start, Started, Here, Further, C, B
<1>8. Spec /\ []StepsEnabled => (Start ~> Started)
  BY <1>1, <1>2, <1>3, <1>5, <1>6, <1>7, ReadInvHolds, PTL DEF Spec
<1>9. Spec /\ []StepsEnabled => (Here ~> Further)
  BY <1>1, <1>2, <1>4, <1>5, <1>6, <1>7, ReadInvHolds, PTL DEF Spec
<1> QED
  BY <1>8, <1>9 DEF Start, Started, Here, Further

\* Only the thread that lists moves a listing, whatever comes and goes.
LEMMA ListMoves ==
  ASSUME [Next]_vars, stage \in {"listing", "asking"}
  PROVE  UNCHANGED <<stage, todo>> \/ Enum!ListStep
<1>1. CASE Enum!EnumNext
  BY <1>1 DEF Enum!EnumNext, Enum!Plug, Enum!Unplug, Enum!listing, Enum!Scan, Enum!ScanFails,
              Enum!OpenLinux, Enum!OpenMacOs, Enum!OpenWindows, Enum!OpenBegins, Enum!Forget
<1> QED
  BY <1>1, NextCases DEF enumerating

LEMMA ListLeads ==
  ASSUME Enum!ListStep
  PROVE  /\ stage = "listing" => \/ stage' = "listed"
                                 \/ /\ stage' \in {"listing", "asking"}
                                    /\ todo' \subseteq todo /\ todo' # todo
         /\ stage = "asking" => stage' = "listing" /\ todo' = todo
<1>1. ASSUME NEW item \in todo,
             Enum!TakeLinux(item) \/ Enum!TakeMacOs(item) \/ Enum!TakeWindows(item)
      PROVE  /\ stage = "listing" /\ stage' \in {"listing", "asking"}
             /\ todo' \subseteq todo /\ todo' # todo
  BY <1>1 DEF Enum!TakeLinux, Enum!TakeMacOs, Enum!TakeWindows, Enum!Take, Enum!Skip, Enum!Ask
<1>2. ASSUME Enum!AddLinux \/ Enum!AddMacOs \/ Enum!AddWindows
      PROVE  stage = "asking" /\ stage' = "listing" /\ todo' = todo
  BY <1>2 DEF Enum!AddLinux, Enum!AddMacOs, Enum!AddWindows, Enum!Add
<1> QED
  BY <1>1, <1>2 DEF Enum!ListStep, Enum!ListEnds

\* A listing ends or has fewer entries of its snapshot left, whatever comes and goes
\* meanwhile and however little is told of an entry.
THEOREM ListingAdvances ==
  ASSUME NEW S
  PROVE  Spec /\ []StepsEnabled =>
             (stage \in {"listing", "asking"} /\ todo = S
                  ~> \/ stage = "listed"
                     \/ stage \in {"listing", "asking"} /\ todo \subseteq S /\ todo # S)
<1> DEFINE Listing == stage = "listing" /\ todo = S
           Asking == stage = "asking" /\ todo = S
           Busy == stage \in {"listing", "asking"} /\ todo = S
           Fewer == \/ stage = "listed"
                    \/ stage \in {"listing", "asking"} /\ todo \subseteq S /\ todo # S
<1>1. Asking /\ [Next]_vars => Asking' \/ Listing'
  BY ListMoves, ListLeads
<1>2. Listing /\ [Next]_vars => Listing' \/ Fewer'
  BY ListMoves, ListLeads
<1>3. /\ Asking /\ <<Enum!ListStep>>_enumerating => Listing'
      /\ Listing /\ <<Enum!ListStep>>_enumerating => Fewer'
  BY ListLeads
<1>4. StepsEnabled => /\ Asking => ENABLED <<Enum!ListStep>>_enumerating
                      /\ Listing => ENABLED <<Enum!ListStep>>_enumerating
  BY DEF StepsEnabled
<1>5. Busy <=> Asking \/ Listing
  OBVIOUS
<1>6. Spec => WF_enumerating(Enum!ListStep)
  BY PTL DEF Spec, Fairness
<1> HIDE DEF Listing, Asking, Busy, Fewer
<1>7. Spec /\ []StepsEnabled => (Busy ~> Fewer)
  BY <1>1, <1>2, <1>3, <1>4, <1>5, <1>6, PTL DEF Spec
<1> QED
  BY <1>7 DEF Busy, Fewer
=============================================================================
