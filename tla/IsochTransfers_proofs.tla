------------------------ MODULE IsochTransfers_proofs ------------------------
(***************************************************************************)
(* Isochronous transfers of every length, on any number of buffers, events *)
(* and URBs: Windows has the buffer registered as long as the kernel works *)
(* on it, Linux takes its answer from its own URB, and the packets of that *)
(* URB cover the buffer.                                                   *)
(***************************************************************************)
EXTENDS IsochTransfers, FiniteSetTheorems, WellFoundedInduction, TLAPS

\* Both backends keep values of their kind.
TypeInv ==
    /\ platform \in {"windows", "linux"}
    /\ platform = "windows" => Windows!TypeOK
    /\ platform = "linux" => Linux!TypeOK

\* Windows: what the call holds beyond what there was before it is known from
\* where it stands, and so is whether the kernel may be working.
HeldInv ==
    /\ pc = "register" => registered = before[1] /\ events = before[2] /\ io = "none"
    /\ pc = "create" => registered = before[1] + 1 /\ events = before[2] /\ io = "none"
    /\ pc \in {"submit", "wait", "collect", "cleanup"} =>
           registered = before[1] + 1 /\ events = before[2] + 1
    /\ pc = "submit" => io = "none"
    /\ io = "pending" => pc = "wait"

\* Windows: a success that is on its way out, or out, is that of the request.
OkInv ==
    /\ pc \in {"cleanup", "idle"} /\ result.ok => result.bytes = moved
    /\ pc = "idle" /\ result.ok => registered = before[1] /\ events = before[2]

WindowsInv == platform = "windows" => HeldInv /\ OkInv

\* Linux: as long as no reap went wrong, the kernel has a URB only while the
\* call that submitted it reaps, and none but that call's.
UrbInv ==
    /\ pc # "idle" => reaped = 0
    /\ broken = "no" =>
        /\ pc # "reap" => urbs = {}
        /\ pc = "reap" => \E s \in Linux!UrbStates :
                              urbs = {[id |-> count, at |-> frame, state |-> s]}
        /\ reaped # 0 => reaped = count

\* Linux: what is submitted is a buffer that is not empty, in no more packets
\* than one URB takes.
SubmitInv ==
    pc \in {"submit", "reap"} =>
        length > 0 /\ Linux!NumPackets(length, hint) <= MaxPackets

LinuxInv == platform = "linux" => UrbInv /\ SubmitInv

Inv == TypeInv /\ WindowsInv /\ LinuxInv

-----------------------------------------------------------------------------
LEMMA InitInv == Init => Inv
<1> SUFFICES ASSUME Init PROVE Inv
  OBVIOUS
<1> USE IsochAssumption
<1>1. CASE platform = "windows" /\ Windows!Init /\ NoLinux
  BY <1>1 DEF Inv, TypeInv, WindowsInv, LinuxInv, HeldInv, OkInv, Windows!Init,
              Windows!TypeOK, Windows!Ok, Windows!Err
<1>2. CASE platform = "linux" /\ Linux!Init /\ NoWindows
  BY <1>2 DEF Inv, TypeInv, WindowsInv, LinuxInv, UrbInv, SubmitInv, Linux!Init,
              Linux!TypeOK
<1> QED
  BY <1>1, <1>2 DEF Init

-----------------------------------------------------------------------------
(* Windows                                                                 *)

LEMMA WindowsStep ==
  ASSUME Inv, platform = "windows", Windows!Next, UNCHANGED <<platform, ofLinux>>
  PROVE  Inv'
<1> USE IsochAssumption
<1> DEFINE P == (Windows!TypeOK /\ HeldInv /\ OkInv)
<1>1. SUFFICES P'
  BY DEF Inv, TypeInv, WindowsInv, LinuxInv
<1>2. P
  BY DEF Inv, TypeInv, WindowsInv
<1> USE <1>2 DEF Windows!TypeOK, HeldInv, OkInv, Windows!held, Windows!Ok, Windows!Err,
                 Windows!Return
<1>3. ASSUME NEW n \in Lengths, Windows!Call(n) PROVE P'
  BY <1>3 DEF Windows!Call
<1>4. CASE Windows!RegisterBuffer
  BY <1>4 DEF Windows!RegisterBuffer
<1>5. CASE Windows!RegisterFails \/ Windows!CreateEventFails
  BY <1>5 DEF Windows!RegisterFails, Windows!CreateEventFails
<1>6. CASE Windows!CreateEvent
  BY <1>6 DEF Windows!CreateEvent
<1>7. ASSUME NEW n \in 0 .. length, Windows!SubmitCompletes(n) PROVE P'
  BY <1>7 DEF Windows!SubmitCompletes
<1>8. CASE Windows!SubmitPends \/ Windows!SubmitFails
  BY <1>8 DEF Windows!SubmitPends, Windows!SubmitFails
<1>9. CASE Windows!WaitSignalled
  BY <1>9 DEF Windows!WaitSignalled
<1>10. CASE Windows!Collect
  BY <1>10 DEF Windows!Collect
<1>11. CASE Windows!Cleanup
  BY <1>11 DEF Windows!Cleanup
<1>12. ASSUME NEW n \in 0 .. length, Windows!Complete(n) PROVE P'
  BY <1>12 DEF Windows!Complete
<1>13. CASE Windows!Fail
  BY <1>13 DEF Windows!Fail
<1> QED
  BY <1>3, <1>4, <1>5, <1>6, <1>7, <1>8, <1>9, <1>10, <1>11, <1>12, <1>13
     DEF Windows!Next, Windows!Step, Windows!Controller

-----------------------------------------------------------------------------
(* Linux                                                                   *)

LEMMA LinuxStep ==
  ASSUME Inv, platform = "linux", Linux!Next, UNCHANGED <<platform, ofWindows>>
  PROVE  Inv'
<1> USE IsochAssumption
<1> DEFINE P == (Linux!TypeOK /\ UrbInv /\ SubmitInv)
<1>1. SUFFICES P'
  BY DEF Inv, TypeInv, WindowsInv, LinuxInv
<1>2. P
  BY DEF Inv, TypeInv, LinuxInv
<1> USE <1>2 DEF Linux!TypeOK, UrbInv, SubmitInv, Linux!Return, Linux!UrbStates, Linux!Urbs
<1>3. ASSUME NEW len \in Lengths, NEW size \in PacketSizes, NEW at \in Frames,
             Linux!Call(len, size, at)
      PROVE  P'
  <2>1. Linux!PacketHint(size) \in Nat \ {0}
    BY DEF Linux!PacketHint
  <2>2. CASE len = 0
    BY <1>3, <2>1, <2>2 DEF Linux!Call
  <2>3. CASE len > 0 /\ Linux!NumPackets(len, Linux!PacketHint(size)) > MaxPackets
    BY <1>3, <2>1, <2>3 DEF Linux!Call
  <2>4. CASE len > 0 /\ ~(Linux!NumPackets(len, Linux!PacketHint(size)) > MaxPackets)
    <3>1. Linux!NumPackets(len, Linux!PacketHint(size)) \in Int
      BY <2>1 DEF Linux!NumPackets
    <3>2. pc' = "submit" /\ result' = "none"
      BY <1>3, <2>4 DEF Linux!Call
    <3>3. Linux!NumPackets(length', hint') <= MaxPackets
      BY <1>3, <2>4, <3>1 DEF Linux!Call
    <3>4. SubmitInv'
      BY <1>3, <2>4, <3>3 DEF Linux!Call, Linux!NumPackets
    <3> QED
      BY <1>3, <2>1, <2>4, <3>2, <3>4 DEF Linux!Call
  <2> QED
    BY <2>2, <2>3, <2>4
<1>4. CASE Linux!Submit
  BY <1>4 DEF Linux!Submit, Linux!NumPackets
<1>5. CASE Linux!SubmitFails
  BY <1>5 DEF Linux!SubmitFails
<1>6. ASSUME NEW u \in urbs, NEW s \in Linux!UrbStates, Linux!Complete(u, s) PROVE P'
  BY <1>6 DEF Linux!Complete, Linux!NumPackets
<1>7. ASSUME NEW u \in urbs, Linux!ReapExpected(u) PROVE P'
  BY <1>7 DEF Linux!ReapExpected
<1>8. ASSUME NEW u \in urbs, Linux!ReapUnexpected(u) PROVE P'
  BY <1>8 DEF Linux!ReapUnexpected
<1>9. CASE Linux!ReapFails
  BY <1>9 DEF Linux!ReapFails
<1> QED
  BY <1>3, <1>4, <1>5, <1>6, <1>7, <1>8, <1>9 DEF Linux!Next, Linux!Reap

-----------------------------------------------------------------------------
(* The packets of a URB                                                    *)

\* The induction over finite sets: of the sets with a property, if there are
\* any, one has no other of them inside it.
LEMMA SmallestSet ==
  ASSUME NEW S, IsFiniteSet(S), NEW T, T \subseteq SUBSET S, T # {}
  PROVE  \E x \in T : \A y \in T : y \subseteq x => y = x
<1>1. T \subseteq FiniteSubsetsOf(S)
  BY FS_FiniteSubsetsOfFinite
<1>2. PICK x \in T : \A y \in T : ~(<<y, x>> \in StrictSubsetOrdering(S))
  BY <1>1, FS_StrictSubsetOrderingWellFounded, WFMin
<1> QED
  BY <1>2 DEF StrictSubsetOrdering

\* However many packets a buffer is cut into, they hold what it does: the
\* recursion of the fold has one solution, and the sum in closed form is one.
LEMMA PacketsTotalIs ==
  ASSUME NEW L \in Nat, NEW n \in Nat \ {0}
  PROVE  Linux!PacketsTotal(L, n) = L
<1> DEFINE q == L \div n
           r == L % n
           len(i) == Linux!PacketLength(L, n, i)
<1>1. /\ q \in Nat /\ r \in Nat /\ r <= n /\ n * q + r = L
      /\ \A i \in 0 .. n - 1 : len(i) = q + (IF i < r THEN 1 ELSE 0)
  <2>1. /\ q \in Nat /\ r \in Nat /\ r <= n /\ n * q + r = L
    OBVIOUS
  <2>2. \A i \in 0 .. n - 1 : len(i) = q + (IF i < r THEN 1 ELSE 0)
    BY DEF Linux!PacketLength
  <2> QED
    BY <2>1, <2>2
<1> HIDE DEF q, r, len
<1> DEFINE S == 0 .. n - 1
           Long(s) == s \cap (0 .. r - 1)
           Sum(s) == Cardinality(s) * q + Cardinality(Long(s))
           Def(g, s) == IF s = {} THEN 0
                        ELSE LET x == CHOOSE x \in s : TRUE IN len(x) + g[s \ {x}]
           iter == CHOOSE g : g = [s \in SUBSET S |-> Def(g, s)]
           w == [s \in SUBSET S |-> Sum(s)]
<1>2. IsFiniteSet(S) /\ \A s \in SUBSET S : IsFiniteSet(s) /\ Cardinality(s) \in Nat
                                        /\ IsFiniteSet(Long(s)) /\ Cardinality(Long(s)) \in Nat
  <2>1. IsFiniteSet(S)
    BY FS_Interval
  <2> SUFFICES ASSUME NEW s \in SUBSET S PROVE IsFiniteSet(s) /\ Cardinality(s) \in Nat
                                        /\ IsFiniteSet(Long(s)) /\ Cardinality(Long(s)) \in Nat
    BY <2>1
  <2>2. IsFiniteSet(s)
    BY <2>1, FS_Subset
  <2>3. Long(s) \in SUBSET s
    OBVIOUS
  <2>4. IsFiniteSet(Long(s))
    BY <2>2, <2>3, FS_Subset
  <2> QED
    BY <2>2, <2>4, FS_CardinalityType
\* The sum over s, from that over s without an element.
<1>3. ASSUME NEW s \in SUBSET S, NEW x \in s
      PROVE  Sum(s) = len(x) + Sum(s \ {x})
  <2>1. Cardinality(s \ {x}) = Cardinality(s) - 1
    BY <1>2, FS_RemoveElement
  <2>2. Long(s \ {x}) = Long(s) \ {x}
    OBVIOUS
  <2>3. Cardinality(Long(s) \ {x}) = IF x < r THEN Cardinality(Long(s)) - 1 ELSE Cardinality(Long(s))
    <3>1. x \in Long(s) <=> x < r
      BY <1>1
    <3> HIDE DEF Long
    <3> QED
      BY <1>2, <3>1, FS_RemoveElement
  <2>4. len(x) = q + (IF x < r THEN 1 ELSE 0)
    BY <1>1
  <2>5. Cardinality(s) \in Nat /\ Cardinality(Long(s)) \in Nat
    BY <1>2
  <2> HIDE DEF Long
  <2>6. Cardinality(s) * q \in Int /\ (Cardinality(s) - 1) * q = Cardinality(s) * q - q
    BY <1>1, <2>5
  <2>7. Sum(s \ {x}) = Cardinality(s) * q - q + Cardinality(Long(s) \ {x})
    BY <2>1, <2>2, <2>6
  <2>8. ASSUME NEW a \in Int, NEW c \in Nat, NEW d, d = IF x < r THEN c - 1 ELSE c
        PROVE  a + c = q + (IF x < r THEN 1 ELSE 0) + (a - q + d)
    BY <1>1, <2>8
  <2>9. Cardinality(s) * q + Cardinality(Long(s))
            = len(x) + (Cardinality(s) * q - q + Cardinality(Long(s) \ {x}))
    BY <2>3, <2>4, <2>5, <2>6, <2>8
  <2> QED
    BY <2>7, <2>9
<1>4. Sum({}) = 0
  <2>1. Long({}) = {}
    OBVIOUS
  <2> QED
    BY <1>1, <2>1, FS_EmptySet
<1> HIDE DEF Sum, S
<1>5. \A s \in SUBSET S : w[s] = Def(w, s)
  <2> SUFFICES ASSUME NEW s \in SUBSET S, s # {} PROVE w[s] = Def(w, s)
    BY <1>4
  <2> DEFINE x == CHOOSE x \in s : TRUE
  <2>1. x \in s
    OBVIOUS
  <2>2. Def(w, s) = len(x) + w[s \ {x}]
    OBVIOUS
  <2> HIDE DEF x, Def
  <2> QED
    BY <1>3, <2>1, <2>2
<1>6. w = [s \in SUBSET S |-> Def(w, s)]
  BY <1>5
<1>7. iter = [s \in SUBSET S |-> Def(iter, s)]
  <2> HIDE DEF w, Def
  <2> QED
    BY <1>6
<1>8. iter[S] = Sum(S)
  <2> DEFINE T == {s \in SUBSET S : iter[s] # Sum(s)}
  <2> SUFFICES ASSUME T # {} PROVE FALSE
    OBVIOUS
  <2> HIDE DEF iter
  <2>1. PICK s \in T : \A y \in T : y \subseteq s => y = s
    <3> HIDE DEF T
    <3>1. T \subseteq SUBSET S
      BY DEF T
    <3> QED
      BY <1>2, <3>1, SmallestSet
  <2>2. CASE s = {}
    BY <1>4, <1>7, <2>1, <2>2
  <2>3. CASE s # {}
    <3> DEFINE x == CHOOSE x \in s : TRUE
    <3>1. x \in s
      BY <2>3
    <3>2. iter[s] = len(x) + iter[s \ {x}]
      BY <1>7, <2>3
    <3> HIDE DEF x
    <3>3. iter[s \ {x}] = Sum(s \ {x})
      BY <2>1, <3>1
    <3> QED
      BY <1>3, <2>1, <3>1, <3>2, <3>3
  <2> QED
    BY <2>2, <2>3
<1>9. Sum(S) = n * q + r
  <2>1. Cardinality(S) = n
    BY FS_Interval DEF S
  <2>2. Long(S) = 0 .. r - 1
    BY <1>1 DEF S
  <2>3. Cardinality(0 .. r - 1) = r
    BY <1>1, FS_Interval
  <2> HIDE DEF Long
  <2> QED
    BY <1>1, <2>1, <2>2, <2>3 DEF Sum
<1>20. Linux!PacketsTotal(L, n) = iter[S]
  BY DEF S, Linux!PacketsTotal, Linux!MapThenSumSet, Linux!MapThenFoldSet, len
<1> QED
  BY <1>1, <1>8, <1>9, <1>20 DEF S

\* The number of packets is that for which each, with its share of the
\* remainder, is within the packet size, and none is empty.
LEMMA PacketLengths ==
  ASSUME NEW L \in Nat \ {0}, NEW h \in Nat \ {0}
  PROVE  LET n == Linux!NumPackets(L, h)
         IN  /\ n \in Nat \ {0}
             /\ \A i \in 0 .. n - 1 : Linux!PacketLength(L, n, i) \in 1 .. h
             /\ L \div n \in Nat
             /\ L % n \in 0 .. n - 1
             /\ L = n * (L \div n) + (L % n)
<1> DEFINE n == Linux!NumPackets(L, h)
           q == L \div n
           r == L % n
<1>1. n \in Int /\ n * h <= L + h - 1 /\ L <= n * h
  BY DEF Linux!NumPackets
<1> HIDE DEF n
<1>2. n \in Nat \ {0} /\ n <= L
  <2>1. n >= 1
    BY <1>1
  <2>2. n <= L
    BY <1>1, <2>1
  <2> QED
    BY <1>1, <2>1, <2>2
<1>3. q \in Int /\ r \in 0 .. n - 1 /\ L = n * q + r
  BY <1>2
<1>4. q >= 1 /\ q <= h /\ (r > 0 => q < h)
  <2> HIDE DEF q, r
  <2>1. q >= 1
    BY <1>1, <1>2, <1>3
  <2>2. q <= h
    BY <1>1, <1>2, <1>3
  <2>3. r > 0 => q < h
    BY <1>1, <1>2, <1>3
  <2> QED
    BY <2>1, <2>2, <2>3
<1>5. \A i \in 0 .. n - 1 : Linux!PacketLength(L, n, i) \in 1 .. h
  <2> SUFFICES ASSUME NEW i \in 0 .. n - 1 PROVE q + (IF i < r THEN 1 ELSE 0) \in 1 .. h
    BY DEF Linux!PacketLength
  <2> HIDE DEF q, r
  <2> QED
    BY <1>3, <1>4
<1>6. q \in Nat
  <2> HIDE DEF q
  <2> QED
    BY <1>3, <1>4
<1> QED
  BY <1>2, <1>3, <1>5, <1>6, Zenon DEF n

\* Together: what is about to be submitted, or is, covers the buffer.
LEMMA PacketsCover ==
  ASSUME length \in Nat \ {0}, hint \in Nat \ {0},
         Linux!NumPackets(length, hint) <= MaxPackets
  PROVE  Linux!PacketsCoverBuffer
<1> DEFINE n == Linux!NumPackets(length, hint)
<1>1. /\ n \in Nat \ {0}
      /\ \A i \in 0 .. n - 1 : Linux!PacketLength(length, n, i) \in 1 .. hint
  BY PacketLengths, Zenon
<1>2. Linux!PacketsTotal(length, n) = length
  BY <1>1, PacketsTotalIs, Zenon
<1> HIDE DEF n
<1>3. n \in 1 .. MaxPackets
  BY <1>1, IsochAssumption DEF n
<1> QED
  BY <1>1, <1>2, <1>3 DEF Linux!PacketsCoverBuffer, n

-----------------------------------------------------------------------------
LEMMA StepInv == Inv /\ [Next]_vars => Inv'
<1> SUFFICES ASSUME Inv, [Next]_vars PROVE Inv'
  OBVIOUS
<1>1. CASE UNCHANGED vars
  BY <1>1 DEF vars, ofWindows, ofLinux, Inv, TypeInv, WindowsInv, LinuxInv, HeldInv, OkInv,
              UrbInv, SubmitInv, Windows!TypeOK, Linux!TypeOK, Linux!NumPackets,
              Windows!Ok, Windows!Err, Linux!Urbs, Linux!UrbStates
<1>2. CASE Next
  BY <1>2, WindowsStep, LinuxStep DEF Next
<1> QED
  BY <1>1, <1>2

\* The invariants of both isochronous transfers hold side by side.
THEOREM InvHolds == Spec => []Inv
  BY InitInv, StepInv, PTL DEF Spec

\* Every variable of the backend that is built keeps a value of its kind.
THEOREM TypeCorrect == Spec => []TypeInv
<1>1. Inv => TypeInv
  BY DEF Inv
<1> QED
  BY <1>1, InvHolds, PTL

\* The kernel is never left with a buffer that is not registered for it.
THEOREM RegisteredWhilePending == Spec => []BufferRegisteredWhilePending
<1>1. Inv => BufferRegisteredWhilePending
  BY DEF Inv, WindowsInv, HeldInv, BufferRegisteredWhilePending,
         Windows!BufferRegisteredWhilePending
<1> QED
  BY <1>1, InvHolds, PTL

\* A transfer that succeeds gives back what it took and reports what was moved.
THEOREM SuccessLeavesNothing == Spec => []OkLeavesNothing
<1>1. Inv => OkLeavesNothing
  BY DEF Inv, TypeInv, WindowsInv, OkInv, OkLeavesNothing, Windows!OkLeavesNothing,
         Windows!held, Windows!TypeOK
<1> QED
  BY <1>1, InvHolds, PTL

\* The answer of a call is that of its own URB until a reap goes wrong.
THEOREM OwnUrbAnswers == Spec => []AnswersFromOwnUrb
<1>1. Inv => AnswersFromOwnUrb
  BY DEF Inv, LinuxInv, UrbInv, AnswersFromOwnUrb, Linux!AnswersFromOwnUrb
<1> QED
  BY <1>1, InvHolds, PTL

\* Whatever the length and the packet size, the packets of a URB cover the
\* buffer exactly, within the limits.
THEOREM PacketsAlwaysCover == Spec => []PacketsCoverBuffer
<1>1. Inv => PacketsCoverBuffer
  <2> SUFFICES ASSUME Inv, platform = "linux", pc \in {"submit", "reap"}
               PROVE  Linux!PacketsCoverBuffer
    BY DEF PacketsCoverBuffer, Linux!PacketsCoverBuffer
  <2>1. length \in Nat \ {0} /\ hint \in Nat \ {0}
    <3>1. length \in Lengths \cup {0} /\ hint \in Nat \ {0} /\ length > 0
      BY DEF Inv, TypeInv, LinuxInv, SubmitInv, Linux!TypeOK
    <3> QED
      BY <3>1, IsochAssumption
  <2>2. Linux!NumPackets(length, hint) <= MaxPackets
    BY DEF Inv, LinuxInv, SubmitInv
  <2> QED
    BY <2>1, <2>2, PacketsCover
<1> QED
  BY <1>1, InvHolds, PTL
=============================================================================
