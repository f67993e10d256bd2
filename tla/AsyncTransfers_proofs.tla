------------------------ MODULE AsyncTransfers_proofs ------------------------
(***************************************************************************)
(* For any number of calls, any of them abandoned at the await: the caller *)
(* gets its buffer back, what it reads is in the order of the device, and  *)
(* what it writes in its own as long as it abandons nothing.               *)
(***************************************************************************)
EXTENDS AsyncTransfers, FiniteSetTheorems, SequenceTheorems, TLAPS

HP == INSTANCE DeviceHandle_proofs WITH Threads <- Calls \cup {Caller}, First <- Caller

Over == {"ready", "panicked"}

\* The types that the rest needs.
KindInv ==
    /\ made \in 0 .. MaxCalls
    /\ future \in {"none", "awaiting"}
    /\ future = "awaiting" => made > 0
    /\ stage \in [Calls -> {"unused", "queued", "running", "left", "unwound"} \cup Over]
    /\ kind \in [Calls -> {"read", "write"}]
    /\ buf \in {"full", "empty"}
    /\ took \in [Calls -> {"full", "empty"}]
    /\ got \in [Calls -> Nat]
    /\ items \in Nat
    /\ returned \in Nat
    /\ sent \in Seq(Calls)
    /\ dropped \subseteq 1 .. made

\* The calls that were made have a closure, which is with the handle exactly
\* while it runs.
StageInv ==
    \A k \in Calls :
        /\ stage[k] = "unused" <=> k > made
        /\ stage[k] = "running" <=> pc[k] # "idle"

\* The calls before the one that is awaited are over, if none was abandoned.
TurnInv ==
    dropped = {} =>
        \A k \in 1 .. made : k < made \/ future = "none" => stage[k] \in Over

\* What closures received and sent they have left the device with.
ItemInv ==
    /\ \A k \in Calls : got[k] # 0 => stage[k] \in {"left", "ready"} /\ got[k] <= items
    /\ returned <= items
    /\ future = "awaiting" /\ got[made] # 0 => got[made] > returned
    /\ items = Cardinality({k \in Calls : got[k] # 0})

SentInv ==
    /\ \A i \in DOMAIN sent : stage[sent[i]] \in {"left", "ready"}
    /\ WritesInOrder

\* The length of the buffer went with read k, which is awaited, was abandoned or
\* panicked, and no read since has had it.
LostWith(k) ==
    /\ kind[k] = "read" /\ took[k] = "full"
    /\ \/ k \in dropped
       \/ stage[k] = "panicked"
       \/ future = "awaiting" /\ k = made
    /\ \A j \in k + 1 .. made : kind[j] = "read" => took[j] = "empty"

BufInv ==
    /\ future = "awaiting" /\ kind[made] = "read" => buf = "empty"
    /\ buf = "empty" => \E k \in 1 .. made : LostWith(k)

Inv == H!Inv /\ KindInv /\ StageInv /\ TurnInv /\ ItemInv /\ SentInv /\ BufInv

-----------------------------------------------------------------------------
(* The handle                                                              *)

LEMMA HandleAssumption == Caller \in Calls \cup {Caller} /\ Nobody \notin Calls \cup {Caller}
  BY AsyncAssumption

LEMMA SameInv == HP!Inv <=> H!Inv
  BY Zenon DEF H!Inv, HP!Inv, H!TypeOK, HP!TypeOK, H!OwnerIsInside, HP!OwnerIsInside,
               H!Borrows, HP!Borrows, H!OpenWhileUsed, HP!OpenWhileUsed, H!Methods, HP!Methods

LEMMA HandleInit == Init => H!Inv
<1>1. HP!Init => HP!Inv
  BY HandleAssumption, HP!InitInv
<1>2. Init => HP!Init
  BY Zenon DEF Init, H!Init, HP!Init
<1> QED
  BY <1>1, <1>2, SameInv

\* What the tokio wrappers do to the handle is what its owners may do.
LEMMA HandleStep == KindInv /\ [Next]_vars => [HP!Next]_HP!vars
<1> SUFFICES ASSUME KindInv, Next PROVE HP!Next \/ UNCHANGED HP!vars
  BY DEF vars, handle, HP!vars
<1> DEFINE T == Calls \cup {Caller}
<1>1. Caller \in T /\ \A k \in Calls : k \in T
  OBVIOUS
<1>2. ASSUME NEW x \in {"read", "write"}, Begin(x) PROVE HP!Next
  <2>1. made' \in T /\ H!Clone(Caller, made')
    BY <1>2, AsyncAssumption DEF Begin, KindInv, Calls, T
  <2> QED
    BY <1>1, <2>1 DEF H!Clone, HP!Clone, HP!Next
<1>3. ASSUME NEW k \in Calls, Run(k) PROVE HP!Next
  <2>1. PICK m \in HP!Methods : HP!Call(k, m)
    BY <1>3 DEF Run, H!Call, HP!Call, HP!Methods
  <2> QED
    BY <1>1, <2>1 DEF HP!Next
<1>4. ASSUME NEW k \in Calls, Enter(k) PROVE HP!Next
  BY <1>1, <1>4 DEF Enter, H!Lock, HP!Lock, HP!Next
<1>5. ASSUME NEW k \in Calls, EnterPoisoned(k) PROVE HP!Next
  BY <1>1, <1>5 DEF EnterPoisoned, H!LockPoisoned, HP!LockPoisoned, HP!Next
<1>6. ASSUME NEW k \in Calls, Finish(k) PROVE HP!Next
  BY <1>1, <1>6 DEF Finish, H!Return, H!Answer, H!Leave, HP!Return, HP!Answer, HP!Leave, HP!Next
<1>7. ASSUME NEW k \in Calls, PanicInside(k) PROVE HP!Next
  BY <1>1, <1>7 DEF PanicInside, H!Panic, H!Leave, HP!Panic, HP!Leave, HP!Next
<1>8. ASSUME NEW k \in Calls, End(k) PROVE HP!Next
  BY <1>1, <1>8 DEF End, H!DropClone, HP!DropClone, HP!Next
<1>9. ASSUME Complete \/ Fail \/ DropFuture \/ Refill PROVE UNCHANGED HP!vars
  BY <1>9 DEF Complete, Fail, DropFuture, Refill, handle, HP!vars
<1>10. ASSUME CallerDrops PROVE HP!Next
  BY <1>1, <1>10 DEF CallerDrops, H!DropClone, HP!DropClone, HP!Next
<1> QED
  BY <1>2, <1>3, <1>4, <1>5, <1>6, <1>7, <1>8, <1>9, <1>10 DEF Next, Closure

LEMMA HandleInv == H!Inv /\ KindInv /\ [Next]_vars => H!Inv'
<1>1. HP!Inv /\ [HP!Next]_HP!vars => HP!Inv'
  BY HandleAssumption, HP!StepInv
<1>2. HP!Inv' <=> H!Inv'
  BY Zenon DEF H!Inv, HP!Inv, H!TypeOK, HP!TypeOK, H!OwnerIsInside, HP!OwnerIsInside,
               H!Borrows, HP!Borrows, H!OpenWhileUsed, HP!OpenWhileUsed, H!Methods, HP!Methods
<1> QED
  BY <1>1, <1>2, HandleStep, SameInv

-----------------------------------------------------------------------------
(* The invariant                                                           *)

\* The calls whose read received an item.
Read == {k \in Calls : got[k] # 0}

LEMMA ReadFinite ==
    ASSUME MaxCalls \in Nat
    PROVE  IsFiniteSet(Read) /\ Cardinality(Read) <= MaxCalls
<1> DEFINE R == Read
           C == 1 .. MaxCalls
<1>1. IsFiniteSet(C) /\ Cardinality(C) = MaxCalls
  BY FS_Interval, AsyncAssumption
<1>2. R \subseteq C
  BY DEF Read, Calls
<1> HIDE DEF R, C
<1>3. IsFiniteSet(R) /\ Cardinality(R) <= Cardinality(C)
  BY <1>1, <1>2, FS_Subset
<1> QED
  BY <1>1, <1>3 DEF R

LEMMA InitInv == Init => Inv
<1> SUFFICES ASSUME Init PROVE Inv
  OBVIOUS
<1>1. H!Inv /\ Calls = 1 .. MaxCalls /\ MaxCalls \in Nat
  BY HandleInit, AsyncAssumption DEF Calls
<1>2. KindInv
  BY <1>1 DEF Init, KindInv, Over
<1>3. StageInv
  BY <1>1 DEF Init, StageInv, H!Init
<1>4. TurnInv
  BY <1>1 DEF Init, TurnInv
<1>5. ItemInv
  <2>1. {k \in Calls : got[k] # 0} = {}
    BY DEF Init
  <2> QED
    BY <2>1, FS_EmptySet DEF Init, ItemInv
<1>6. SentInv
  BY DEF Init, SentInv, WritesInOrder
<1>7. BufInv
  BY DEF Init, BufInv
<1> QED
  BY <1>1, <1>2, <1>3, <1>4, <1>5, <1>6, <1>7 DEF Inv

\* The part of the invariant that is not about the handle.
CallInv == KindInv /\ StageInv /\ TurnInv /\ ItemInv /\ SentInv /\ BufInv

\* What was written stays written, and a future once dropped stays dropped.
LEMMA SentStays ==
    ASSUME KindInv, SentInv, sent' = sent, dropped \subseteq dropped',
           \A k \in Calls : stage[k] \in {"left", "ready"} => stage'[k] \in {"left", "ready"}
    PROVE  SentInv'
<1>1. \A i \in DOMAIN sent : sent[i] \in Calls
  BY DEF KindInv
<1>2. \A i \in DOMAIN sent : stage'[sent[i]] \in {"left", "ready"}
  BY <1>1 DEF SentInv
<1>3. WritesInOrder'
  BY DEF SentInv, WritesInOrder
<1> QED
  BY <1>2, <1>3 DEF SentInv

\* A step of a closure loses no buffer and finds none.
LEMMA BufStays ==
    ASSUME KindInv, BufInv, UNCHANGED <<made, future, kind, took, buf, dropped>>,
           \A k \in Calls : stage[k] = "panicked" => stage'[k] = "panicked"
    PROVE  BufInv'
<1>1. 1 .. made \subseteq Calls
  BY AsyncAssumption DEF KindInv, Calls
<1>2. \A k \in 1 .. made : LostWith(k) => LostWith(k)'
  BY <1>1 DEF LostWith
<1> QED
  BY <1>2 DEF BufInv

LEMMA PcType == H!Inv => pc \in [Calls \cup {Caller} -> {"idle", "lock", "inside"}]
  BY DEF H!Inv, H!TypeOK

LEMMA BeginInv ==
    ASSUME H!Inv, CallInv, NEW x \in {"read", "write"}, Begin(x)
    PROVE  CallInv'
<1> USE AsyncAssumption DEF Calls, CallInv, Begin, H!Clone, To, data
<1>1. made + 1 \in Calls /\ made' = made + 1 /\ stage[made + 1] = "unused" /\ got[made + 1] = 0
  <2>1. made + 1 \in Calls /\ made' = made + 1
    BY DEF KindInv
  <2>2. stage[made + 1] = "unused"
    BY <2>1 DEF KindInv, StageInv
  <2> QED
    BY <2>1, <2>2 DEF ItemInv
<1>2. KindInv'
  BY <1>1 DEF KindInv, Over
<1>3. StageInv'
  BY <1>1, PcType DEF KindInv, StageInv
<1>4. TurnInv'
  BY <1>1 DEF KindInv, TurnInv, Over
<1>5. ItemInv'
  BY <1>1 DEF KindInv, ItemInv
<1>6. SentInv'
  BY <1>1, SentStays DEF KindInv
<1>7. BufInv'
  <2>1. took' = [took EXCEPT ![made + 1] = buf] /\ kind' = [kind EXCEPT ![made + 1] = x]
    BY <1>1
  <2>2. /\ took'[made + 1] = buf /\ kind'[made + 1] = x
        /\ \A j \in 1 .. made : took'[j] = took[j] /\ kind'[j] = kind[j] /\ stage'[j] = stage[j]
        /\ \A j \in 1 .. made' : j \in 1 .. made \/ j = made'
    BY <1>1, <2>1 DEF KindInv
  <2>3. CASE buf = "empty"
    <3>1. PICK k \in 1 .. made : LostWith(k)
      BY <2>3 DEF BufInv
    <3>2. LostWith(k)'
      BY <1>1, <2>2, <2>3, <3>1 DEF KindInv, LostWith
    <3> QED
      BY <1>1, <2>3, <3>2 DEF KindInv, BufInv
  <2>4. CASE buf = "full" /\ x = "read"
    <3>1. PICK k \in Calls : k = made + 1
      BY <1>1
    <3>2. LostWith(k)'
      BY <1>1, <2>2, <2>4, <3>1 DEF KindInv, LostWith
    <3> QED
      BY <1>1, <2>4, <3>1, <3>2 DEF KindInv, BufInv
  <2>5. CASE buf = "full" /\ x = "write"
    BY <1>1, <2>2, <2>5 DEF KindInv, BufInv
  <2> QED
    BY <2>3, <2>4, <2>5 DEF KindInv
<1> QED
  BY <1>2, <1>3, <1>4, <1>5, <1>6, <1>7

LEMMA RunInv ==
    ASSUME H!Inv, CallInv, NEW k \in Calls, Run(k)
    PROVE  CallInv'
<1> USE AsyncAssumption DEF CallInv, Calls, Run, H!Call, To, data
<1>1. stage[k] = "queued"
  BY PcType DEF KindInv, StageInv
<1>2. KindInv'
  BY <1>1 DEF KindInv, Over
<1>3. StageInv'
  BY <1>1, PcType DEF KindInv, StageInv
<1>4. TurnInv'
  <2> SUFFICES ASSUME dropped = {}, NEW j \in 1 .. made, j < made \/ future = "none"
               PROVE  stage'[j] \in Over
    BY DEF TurnInv
  <2>1. stage[j] \in Over
    BY DEF TurnInv
  <2> QED
    BY <1>1, <2>1 DEF KindInv, Over
<1>5. ItemInv'
  BY <1>1 DEF KindInv, ItemInv
<1>6. SentInv'
  BY <1>1, SentStays DEF KindInv
<1>7. BufInv'
  BY <1>1, BufStays DEF KindInv
<1> QED
  BY <1>2, <1>3, <1>4, <1>5, <1>6, <1>7

LEMMA EnterInv ==
    ASSUME H!Inv, CallInv, NEW k \in Calls, Enter(k)
    PROVE  CallInv'
<1> USE AsyncAssumption DEF CallInv, Calls, Enter, H!Lock, data
<1>1. pc[k] = "lock"
  BY PcType DEF KindInv, StageInv
<1>2. KindInv'
  BY <1>1 DEF KindInv, Over
<1>3. StageInv'
  BY <1>1, PcType DEF KindInv, StageInv
<1>4. TurnInv'
  BY <1>1 DEF KindInv, TurnInv, Over
<1>5. ItemInv'
  BY <1>1 DEF KindInv, ItemInv
<1>6. SentInv'
  BY <1>1, SentStays DEF KindInv
<1>7. BufInv'
  BY <1>1, BufStays DEF KindInv
<1> QED
  BY <1>2, <1>3, <1>4, <1>5, <1>6, <1>7

LEMMA EnterPoisonedInv ==
    ASSUME H!Inv, CallInv, NEW k \in Calls, EnterPoisoned(k)
    PROVE  CallInv'
<1> USE AsyncAssumption DEF CallInv, Calls, EnterPoisoned, H!LockPoisoned, To, data
<1>1. stage[k] = "running"
  BY PcType DEF KindInv, StageInv
<1>2. KindInv'
  BY <1>1 DEF KindInv, Over
<1>3. StageInv'
  BY <1>1, PcType DEF KindInv, StageInv
<1>4. TurnInv'
  <2> SUFFICES ASSUME dropped = {}, NEW j \in 1 .. made, j < made \/ future = "none"
               PROVE  stage'[j] \in Over
    BY DEF TurnInv
  <2>1. stage[j] \in Over
    BY DEF TurnInv
  <2> QED
    BY <1>1, <2>1 DEF KindInv, Over
<1>5. ItemInv'
  BY <1>1 DEF KindInv, ItemInv
<1>6. SentInv'
  BY <1>1, SentStays DEF KindInv
<1>7. BufInv'
  BY <1>1, BufStays DEF KindInv
<1> QED
  BY <1>2, <1>3, <1>4, <1>5, <1>6, <1>7

LEMMA PanicInv ==
    ASSUME H!Inv, CallInv, NEW k \in Calls, PanicInside(k)
    PROVE  CallInv'
<1> USE AsyncAssumption DEF CallInv, Calls, PanicInside, H!Panic, H!Leave, To, data
<1>1. stage[k] = "running"
  BY PcType DEF KindInv, StageInv
<1>2. KindInv'
  BY <1>1 DEF KindInv, Over
<1>3. StageInv'
  BY <1>1, PcType DEF KindInv, StageInv
<1>4. TurnInv'
  <2> SUFFICES ASSUME dropped = {}, NEW j \in 1 .. made, j < made \/ future = "none"
               PROVE  stage'[j] \in Over
    BY DEF TurnInv
  <2>1. stage[j] \in Over
    BY DEF TurnInv
  <2> QED
    BY <1>1, <2>1 DEF KindInv, Over
<1>5. ItemInv'
  BY <1>1 DEF KindInv, ItemInv
<1>6. SentInv'
  BY <1>1, SentStays DEF KindInv
<1>7. BufInv'
  BY <1>1, BufStays DEF KindInv
<1> QED
  BY <1>2, <1>3, <1>4, <1>5, <1>6, <1>7

LEMMA EndInv ==
    ASSUME H!Inv, CallInv, NEW k \in Calls, End(k)
    PROVE  CallInv'
<1> USE AsyncAssumption DEF CallInv, Calls, End, H!DropClone, To, data
<1>1. stage[k] \in {"left", "unwound"}
  BY PcType DEF KindInv, StageInv
<1>2. KindInv'
  BY <1>1 DEF KindInv, Over
<1>3. StageInv'
  BY <1>1, PcType DEF KindInv, StageInv
<1>4. TurnInv'
  BY <1>1 DEF KindInv, TurnInv, Over
<1>5. ItemInv'
  BY <1>1 DEF KindInv, ItemInv
<1>6. SentInv'
  BY <1>1, SentStays DEF KindInv
<1>7. BufInv'
  BY <1>1, BufStays DEF KindInv
<1> QED
  BY <1>2, <1>3, <1>4, <1>5, <1>6, <1>7

LEMMA CompleteInv ==
    ASSUME H!Inv, CallInv, Complete
    PROVE  CallInv'
<1> USE AsyncAssumption DEF CallInv, Calls, Complete, handle
<1>1. made \in Calls /\ stage[made] = "ready"
  BY PcType DEF KindInv, StageInv
<1>2. KindInv'
  BY <1>1 DEF KindInv, Over
<1>3. StageInv'
  BY <1>1, PcType DEF KindInv, StageInv
<1>4. TurnInv'
  BY <1>1 DEF KindInv, TurnInv, Over
<1>5. ItemInv'
  BY <1>1 DEF KindInv, ItemInv
<1>6. SentInv'
  BY <1>1, SentStays DEF KindInv
<1>7. BufInv'
  <2> SUFFICES ASSUME buf' = "empty" PROVE \E k \in 1 .. made : LostWith(k)'
    BY DEF BufInv
  <2>1. buf = "empty"
    BY DEF BufInv
  <2>2. PICK k \in 1 .. made : LostWith(k)
    BY <2>1 DEF BufInv
  <2>3. k # made \/ k \in dropped
    BY <1>1, <2>2 DEF LostWith
  <2>4. LostWith(k)'
    BY <2>2, <2>3 DEF LostWith
  <2> QED
    BY <2>4
<1> QED
  BY <1>2, <1>3, <1>4, <1>5, <1>6, <1>7

LEMMA FailInv ==
    ASSUME H!Inv, CallInv, Fail
    PROVE  CallInv'
<1> USE AsyncAssumption DEF CallInv, Calls, Fail, handle, data
<1>1. made \in Calls /\ stage[made] = "panicked"
  BY PcType DEF KindInv, StageInv
<1>2. KindInv'
  BY <1>1 DEF KindInv, Over
<1>3. StageInv'
  BY <1>1, PcType DEF KindInv, StageInv
<1>4. TurnInv'
  BY <1>1 DEF KindInv, TurnInv, Over
<1>5. ItemInv'
  BY <1>1 DEF KindInv, ItemInv
<1>6. SentInv'
  BY <1>1, SentStays DEF KindInv
<1>7. BufInv'
  <2>1. \A k \in 1 .. made : LostWith(k) => LostWith(k)'
    BY <1>1 DEF LostWith
  <2> QED
    BY <2>1 DEF BufInv
<1> QED
  BY <1>2, <1>3, <1>4, <1>5, <1>6, <1>7

LEMMA DropFutureInv ==
    ASSUME H!Inv, CallInv, DropFuture
    PROVE  CallInv'
<1> USE AsyncAssumption DEF CallInv, Calls, DropFuture, handle, data
<1>1. made \in Calls
  BY PcType DEF KindInv, StageInv
<1>2. KindInv'
  BY <1>1 DEF KindInv, Over
<1>3. StageInv'
  BY <1>1, PcType DEF KindInv, StageInv
<1>4. TurnInv'
  BY <1>1 DEF KindInv, TurnInv, Over
<1>5. ItemInv'
  BY <1>1 DEF KindInv, ItemInv
<1>6. SentInv'
  BY <1>1, SentStays DEF KindInv
<1>7. BufInv'
  <2>1. \A k \in 1 .. made : LostWith(k) => LostWith(k)'
    BY <1>1 DEF LostWith
  <2> QED
    BY <2>1 DEF BufInv
<1> QED
  BY <1>2, <1>3, <1>4, <1>5, <1>6, <1>7

LEMMA RefillInv ==
    ASSUME H!Inv, CallInv, Refill
    PROVE  CallInv'
<1> USE AsyncAssumption DEF CallInv, Calls, Refill, handle, data
<1>1. KindInv'
  BY DEF KindInv, Over
<1>2. StageInv' /\ TurnInv' /\ ItemInv'
  BY DEF KindInv, StageInv, TurnInv, ItemInv
<1>3. SentInv'
  BY SentStays DEF KindInv
<1>4. BufInv'
  BY DEF BufInv
<1> QED
  BY <1>1, <1>2, <1>3, <1>4

LEMMA CallerDropsInv ==
    ASSUME H!Inv, CallInv, CallerDrops
    PROVE  CallInv'
<1> USE AsyncAssumption DEF CallInv, Calls, CallerDrops, H!DropClone, data
<1>1. future = "none"
  BY PcType DEF KindInv, StageInv
<1>2. KindInv'
  BY <1>1 DEF KindInv, Over
<1>3. StageInv'
  BY <1>1, PcType DEF KindInv, StageInv
<1>4. TurnInv'
  BY <1>1 DEF KindInv, TurnInv, Over
<1>5. ItemInv'
  BY <1>1 DEF KindInv, ItemInv
<1>6. SentInv'
  BY <1>1, SentStays DEF KindInv
<1>7. BufInv'
  BY <1>1, BufStays DEF KindInv
<1> QED
  BY <1>2, <1>3, <1>4, <1>5, <1>6, <1>7

LEMMA AppendFacts ==
    ASSUME NEW S, NEW q \in Seq(S), NEW x \in S
    PROVE  /\ Append(q, x) \in Seq(S)
           /\ DOMAIN Append(q, x) = 1 .. Len(q) + 1
           /\ DOMAIN q = 1 .. Len(q)
           /\ \A i \in DOMAIN q : Append(q, x)[i] = q[i]
           /\ Append(q, x)[Len(q) + 1] = x
  OBVIOUS

\* A closure that leaves the device is the newest one as long as no call was
\* abandoned; what it received is the newest item, what it sent the last write.
LEMMA FinishInv ==
    ASSUME H!Inv, CallInv, NEW k \in Calls, Finish(k)
    PROVE  CallInv'
<1> USE AsyncAssumption DEF CallInv, Calls
<1>1. /\ pc[k] = "inside"
      /\ pc' = [pc EXCEPT ![k] = "idle"]
      /\ stage' = [stage EXCEPT ![k] = "left"]
      /\ UNCHANGED <<made, future, kind, took, buf, returned, dropped>>
  BY DEF Finish, H!Return, H!Answer, H!Leave, To
<1>2. stage[k] = "running" /\ got[k] = 0 /\ k <= made
  <2>1. stage[k] = "running"
    BY <1>1, PcType DEF StageInv
  <2>2. got[k] = 0
    BY <2>1 DEF ItemInv
  <2>3. k <= made
    BY <2>1 DEF KindInv, StageInv
  <2> QED
    BY <2>1, <2>2, <2>3
<1>3. \/ kind[k] = "read" /\ items' = items + 1 /\ got' = [got EXCEPT ![k] = items + 1]
         /\ sent' = sent
      \/ kind[k] = "write" /\ sent' = Append(sent, k) /\ items' = items /\ got' = got
      \/ items' = items /\ got' = got /\ sent' = sent
  BY DEF Finish, Receive, Send
<1>4. stage' \in [Calls -> {"unused", "queued", "running", "left", "unwound"} \cup Over]
  BY <1>1 DEF KindInv
<1>5. KindInv'
  <2>1. sent' \in Seq(Calls)
    <3>1. sent \in Seq(Calls)
      BY DEF KindInv
    <3>2. Append(sent, k) \in Seq(Calls)
      BY <3>1, AppendFacts
    <3> QED
      BY <1>3, <3>1, <3>2
  <2>2. items' \in Nat /\ got' \in [Calls -> Nat]
    <3>1. items \in Nat /\ items + 1 \in Nat /\ got \in [Calls -> Nat]
      BY DEF KindInv
    <3>2. [got EXCEPT ![k] = items + 1] \in [Calls -> Nat]
      BY <3>1
    <3> QED
      BY <1>3, <3>1, <3>2
  <2> QED
    BY <1>1, <1>4, <2>1, <2>2 DEF KindInv
<1>6. StageInv'
  BY <1>1, <1>2, PcType DEF KindInv, StageInv
<1>7. TurnInv'
  <2> SUFFICES ASSUME dropped = {}, NEW j \in 1 .. made, j < made \/ future = "none"
               PROVE  stage'[j] \in Over
    BY <1>1 DEF TurnInv
  <2>1. stage[j] \in Over
    BY DEF TurnInv
  <2> QED
    BY <1>1, <1>2, <2>1 DEF KindInv, Over
<1>8. ItemInv'
  <2>1. CASE got' = got /\ items' = items
    BY <1>1, <1>2, <2>1 DEF KindInv, ItemInv
  <2>2. CASE items' = items + 1 /\ got' = [got EXCEPT ![k] = items + 1]
    <3> DEFINE R == Read
               N == {j \in Calls : got'[j] # 0}
    <3>1. N = R \cup {k} /\ k \notin R
      BY <1>2, <2>2 DEF KindInv, Read
    <3>2. IsFiniteSet(R)
      BY ReadFinite
    <3>3. items = Cardinality(R)
      BY DEF ItemInv, Read
    <3> HIDE DEF R, N
    <3>4. Cardinality(N) = Cardinality(R) + 1
      BY <3>1, <3>2, FS_AddElement
    <3>5. items' = Cardinality(N)
      BY <2>2, <3>3, <3>4
    <3>6. \A j \in Calls : got'[j] # 0 => stage'[j] \in {"left", "ready"} /\ got'[j] <= items'
      BY <1>1, <1>2, <2>2 DEF KindInv, ItemInv
    <3>7. returned' <= items'
      BY <1>1, <2>2 DEF KindInv, ItemInv
    <3>8. future' = "awaiting" /\ got'[made'] # 0 => got'[made'] > returned'
      BY <1>1, <2>2 DEF KindInv, ItemInv
    <3> QED
      BY <3>5, <3>6, <3>7, <3>8 DEF ItemInv, N
  <2> QED
    BY <1>3, <2>1, <2>2
<1>9. SentInv'
  <2>1. CASE sent' = sent
    BY <1>1, <1>2, <2>1, SentStays DEF KindInv
  <2>2. CASE sent' = Append(sent, k)
    <3>1. /\ DOMAIN sent' = 1 .. Len(sent) + 1
          /\ DOMAIN sent = 1 .. Len(sent)
          /\ \A i \in DOMAIN sent : sent'[i] = sent[i] /\ sent[i] \in Calls
          /\ sent'[Len(sent) + 1] = k
          /\ Len(sent) \in Nat
      BY <2>2, AppendFacts DEF KindInv
    <3>2. \A i \in DOMAIN sent' : stage'[sent'[i]] \in {"left", "ready"}
      <4>1. \A i \in DOMAIN sent : stage'[sent[i]] \in {"left", "ready"}
        BY <1>1, <3>1 DEF KindInv, SentInv
      <4>2. stage'[k] = "left"
        BY <1>1 DEF KindInv
      <4> QED
        BY <3>1, <4>1, <4>2
    <3>3. dropped = {} => k = made
      <4>1. k \in 1 .. made /\ made \in Nat
        BY <1>2 DEF KindInv
      <4>2. dropped = {} /\ k < made => stage[k] \in Over
        BY <4>1 DEF TurnInv
      <4> QED
        BY <1>2, <4>1, <4>2 DEF Over
    <3>4. \A i \in DOMAIN sent : sent[i] # k /\ sent[i] <= made
      <4> SUFFICES ASSUME NEW i \in DOMAIN sent PROVE sent[i] # k /\ sent[i] <= made
        OBVIOUS
      <4>1. sent[i] \in Calls /\ stage[sent[i]] \in {"left", "ready"}
        BY <3>1 DEF SentInv
      <4>2. sent[i] <= made
        BY <4>1 DEF KindInv, StageInv
      <4> QED
        BY <1>2, <4>1, <4>2
    <3>5. dropped = {} => \A i \in DOMAIN sent : sent[i] < k
      BY <3>1, <3>3, <3>4 DEF KindInv
    <3>6. WritesInOrder'
      BY <1>1, <3>1, <3>5 DEF SentInv, WritesInOrder
    <3> QED
      BY <3>2, <3>6 DEF SentInv
  <2> QED
    BY <1>3, <2>1, <2>2
<1>10. BufInv'
  BY <1>1, <1>2, BufStays DEF KindInv
<1> QED
  BY <1>5, <1>6, <1>7, <1>8, <1>9, <1>10

LEMMA StepInv == Inv /\ [Next]_vars => Inv'
<1> SUFFICES ASSUME Inv, [Next]_vars PROVE Inv'
  OBVIOUS
<1>1. H!Inv /\ CallInv
  BY DEF Inv, CallInv
<1>2. H!Inv'
  BY <1>1, HandleInv DEF CallInv
<1>3. ASSUME NEW k \in Calls, Closure(k) PROVE CallInv'
  BY <1>1, <1>3, RunInv, EnterInv, EnterPoisonedInv, FinishInv, PanicInv, EndInv DEF Closure
<1>4. ASSUME UNCHANGED vars PROVE CallInv'
  BY <1>1, <1>4 DEF vars, handle, data, CallInv, KindInv, StageInv, TurnInv, ItemInv, SentInv,
                    WritesInOrder, LostWith, BufInv
<1>5. CallInv'
  BY <1>1, <1>3, <1>4, BeginInv, CompleteInv, FailInv, DropFutureInv, RefillInv,
     CallerDropsInv DEF Next
<1> QED
  BY <1>2, <1>5 DEF Inv, CallInv

-----------------------------------------------------------------------------
(* What follows from it                                                    *)

\* The invariant holds throughout, for any number of calls.
THEOREM InvHolds == Spec => []Inv
<1> QED
  BY InitInv, StepInv, PTL DEF Spec

\* Every variable keeps a value of its kind: at most one item per call.
THEOREM TypeCorrect == Spec => []TypeOK
<1>1. Inv => TypeOK
  <2> SUFFICES ASSUME Inv PROVE TypeOK
    OBVIOUS
  <2>1. H!TypeOK
    BY DEF Inv, H!Inv
  <2>2. items <= MaxCalls
    BY ReadFinite, AsyncAssumption DEF Inv, ItemInv, Read
  <2>3. got \in [Calls -> 0 .. MaxCalls]
    BY <2>2, AsyncAssumption DEF Inv, KindInv, ItemInv
  <2>4. dropped \subseteq Calls
    BY AsyncAssumption DEF Inv, KindInv, Calls
  <2>5. items \in 0 .. MaxCalls /\ returned \in 0 .. MaxCalls
    BY <2>2, AsyncAssumption DEF Inv, KindInv, ItemInv
  <2> QED
    BY <2>1, <2>3, <2>4, <2>5 DEF Inv, KindInv, TypeOK, Over
<1> QED
  BY <1>1, InvHolds, PTL

\* The handle under the wrappers is used as its owners may use it, so one
\* closure at a time is with the device and none once it is closed.
THEOREM HandleUsedRightly == Spec => [](H!OneUserOfOpenDevice) /\ [][HP!Next]_HP!vars
<1>1. Inv => H!OneUserOfOpenDevice
  BY DEF Inv, H!Inv, H!OwnerIsInside, H!OpenWhileUsed, H!OneUserOfOpenDevice, H!MutualExclusion
<1>2. Inv /\ [Next]_vars => [HP!Next]_HP!vars
  BY HandleStep DEF Inv
<1> QED
  BY <1>1, <1>2, InvHolds, PTL DEF Spec

\* After a panic in one closure, of a call that is awaited or abandoned, none
\* enters the backend again.
THEOREM PanicIsLast == Spec => H!PoisonIsFinal
<1>1. Inv /\ [Next]_vars =>
        [poisoned = "yes" =>
            /\ poisoned' = "yes"
            /\ \A t \in Calls \cup {Caller} : pc[t] # "inside" => pc'[t] # "inside"]_(H!vars)
  <2>1. Inv /\ [Next]_vars => HP!Inv /\ [HP!Next]_HP!vars
    BY HandleStep, SameInv DEF Inv
  <2>2. HP!Inv /\ [HP!Next]_HP!vars =>
          [poisoned = "yes" =>
              /\ poisoned' = "yes"
              /\ \A t \in Calls \cup {Caller} : pc[t] # "inside" => pc'[t] # "inside"]_(HP!vars)
    BY HandleAssumption, HP!PoisonStep
  <2> QED
    BY <2>1, <2>2 DEF HP!vars, H!vars
<1> QED
  BY <1>1, InvHolds, PTL DEF Spec, H!PoisonIsFinal

\* A call that ends hands the buffer back at the length it took, unless the caller
\* dropped its future or its closure panicked, whatever happened to calls before it.
THEOREM BufferReturns == Spec => []BufferComesBack
<1>1. Inv => BufferComesBack
  BY DEF Inv, BufInv, LostWith, BufferComesBack
<1> QED
  BY <1>1, InvHolds, PTL

\* What calls return is in the order of the device, whatever was abandoned.
THEOREM ReadsOrdered == Spec => ReadsInOrder
<1>1. Inv /\ [Next]_vars => [returned' >= returned]_vars
  <2> SUFFICES ASSUME Inv, Next PROVE returned' >= returned
    OBVIOUS
  <2>1. CASE Complete
    BY <2>1 DEF Inv, KindInv, ItemInv, Complete
  <2>2. CASE returned' = returned
    BY <2>2 DEF Inv, KindInv
  <2> QED
    BY <2>1, <2>2 DEF Next, Closure, Begin, Run, Enter, EnterPoisoned, Finish, PanicInside, End,
                      Fail, DropFuture, Refill, CallerDrops, data
<1> QED
  BY <1>1, InvHolds, PTL DEF Spec, ReadsInOrder

\* The writes of a caller that abandons none reach the device in its order.
THEOREM WritesOrdered == Spec => []WritesInOrder
<1>1. Inv => WritesInOrder
  BY DEF Inv, SentInv
<1> QED
  BY <1>1, InvHolds, PTL
-----------------------------------------------------------------------------
(* Progress of a call that has the mutex                                    *)

\* While a future is awaited no call is made, and only its closure moves it.
LEMMA AwaitedMoves ==
  ASSUME Inv, [Next]_vars, future = "awaiting", future' # "none"
  PROVE  /\ future' = "awaiting" /\ made' = made /\ made \in Calls
         /\ Closure(made) \/ UNCHANGED <<stage[made], pc[made], method[made]>>
<1>1. /\ made \in Calls
      /\ stage \in [Calls -> {"unused", "queued", "running", "left", "unwound"} \cup Over]
      /\ pc \in [Calls \cup {Caller} -> {"idle", "lock", "inside"}]
      /\ method \in [Calls \cup {Caller} -> H!Methods]
      /\ Caller \notin Calls
  BY AsyncAssumption DEF Inv, KindInv, Calls, H!Inv, H!TypeOK
<1> DEFINE Same == UNCHANGED <<stage[made], pc[made], method[made]>>
<1>2. ASSUME NEW k \in Calls, Closure(k)
      PROVE  UNCHANGED <<future, made>> /\ (k = made \/ Same)
  <2>1. CASE Run(k)
    BY <1>1, <2>1 DEF Run, To, H!Call
  <2>2. CASE Enter(k)
    BY <1>1, <2>2 DEF Enter, H!Lock
  <2>3. CASE EnterPoisoned(k)
    BY <1>1, <2>3 DEF EnterPoisoned, To, H!LockPoisoned
  <2>4. CASE Finish(k)
    BY <1>1, <2>4 DEF Finish, To, H!Return, H!Answer, H!Leave
  <2>5. CASE PanicInside(k)
    BY <1>1, <2>5 DEF PanicInside, To, H!Panic, H!Leave
  <2>6. CASE End(k)
    BY <1>1, <2>6 DEF End, To, H!DropClone
  <2> QED
    BY <1>2, <2>1, <2>2, <2>3, <2>4, <2>5, <2>6 DEF Closure
<1>3. ASSUME CallerDrops \/ Refill \/ Complete \/ Fail \/ DropFuture \/ \E x \in {"read", "write"} : Begin(x)
      PROVE  FALSE
  BY <1>3 DEF CallerDrops, Refill, Complete, Fail, DropFuture, Begin
<1>4. CASE UNCHANGED vars
  BY <1>1, <1>4 DEF vars, handle
<1> QED
  BY <1>1, <1>2, <1>3, <1>4 DEF Next

\* Where a closure goes from the backend.
LEMMA ClosureLeads ==
  ASSUME Inv, NEW k \in Calls, Closure(k)
  PROVE  /\ stage[k] = "running" /\ pc[k] = "inside" => stage'[k] \in {"left", "unwound"}
         /\ stage[k] \in {"left", "unwound"} => stage'[k] \in Over
         /\ stage[k] \notin Over
<1>1. stage \in [Calls -> {"unused", "queued", "running", "left", "unwound"} \cup Over]
  BY DEF Inv, KindInv
<1>2. stage[k] = "running" <=> pc[k] # "idle"
  BY DEF Inv, StageInv
<1>3. CASE Run(k)
  BY <1>1, <1>3 DEF Run, To, Over
<1>4. CASE Enter(k) \/ EnterPoisoned(k)
  BY <1>1, <1>2, <1>4 DEF Enter, EnterPoisoned, H!Lock, H!LockPoisoned, Over
<1>5. CASE Finish(k) \/ PanicInside(k)
  BY <1>1, <1>2, <1>5 DEF Finish, PanicInside, To, H!Return, H!Answer, H!Panic, H!Leave, Over
<1>6. CASE End(k)
  BY <1>1, <1>2, <1>6 DEF End, To, H!DropClone, Over
<1> QED
  BY <1>3, <1>4, <1>5, <1>6 DEF Closure

\* A call whose transfer has a timeout completes once it has the mutex, with a result or
\* with the panic of its closure, whatever calls that were abandoned still do.
THEOREM CallInsideCompletes ==
  Spec /\ []StepsEnabled =>
      \A k \in Calls :
          future = "awaiting" /\ made = k /\ pc[k] = "inside" /\ method[k] = "timed"
              ~> future = "none"
<1> SUFFICES ASSUME NEW k \in Calls
             PROVE  Spec /\ []StepsEnabled =>
                        (future = "awaiting" /\ made = k /\ pc[k] = "inside" /\ method[k] = "timed"
                             ~> future = "none")
  OBVIOUS
<1> DEFINE Here == future = "awaiting" /\ made = k /\ pc[k] = "inside" /\ method[k] = "timed"
           Awaited == future = "awaiting" /\ made = k
           Inside == Here /\ stage[k] = "running"
           Ending == Awaited /\ stage[k] \in {"left", "unwound"}
           Ready == Awaited /\ stage[k] = "ready"
           Panicked == Awaited /\ stage[k] = "panicked"
           Done == future = "none"
           Fin == Finish(k) /\ method[k] = "timed"
<1>1. Inv /\ Here => Inside
  BY DEF Inv, StageInv
<1>2. Inv /\ Inside /\ [Next]_vars => Inside' \/ Ending' \/ Done'
  BY AwaitedMoves, ClosureLeads
<1>3. Inv /\ Ending /\ [Next]_vars => Ending' \/ Ready' \/ Panicked' \/ Done'
  BY AwaitedMoves, ClosureLeads DEF Over
<1>4. Inv /\ Ready /\ [Next]_vars => Ready' \/ Done'
  BY AwaitedMoves, ClosureLeads DEF Over
<1>5. Inv /\ Panicked /\ [Next]_vars => Panicked' \/ Done'
  BY AwaitedMoves, ClosureLeads DEF Over
<1>6. /\ Inv /\ Inside /\ <<Fin>>_vars => ~Inside'
      /\ Inv /\ Ending /\ <<End(k)>>_vars => ~Ending'
  BY ClosureLeads DEF Closure, Over
<1>7. /\ Ready /\ <<Complete>>_vars => Done'
      /\ Panicked /\ <<Fail>>_vars => Done'
  BY DEF Complete, Fail
<1>8. StepsEnabled => /\ Inside => ENABLED <<Finish(k) /\ method[k] = "timed">>_vars
                      /\ Ending => ENABLED <<End(k)>>_vars
                      /\ Ready => ENABLED <<Complete>>_vars
                      /\ Panicked => ENABLED <<Fail>>_vars
  BY DEF StepsEnabled
<1>9. Fairness => FairClosure(k) /\ FairCaller
  BY DEF Fairness
<1>10. FairClosure(k) => WF_vars(Finish(k) /\ method[k] = "timed") /\ WF_vars(End(k))
  BY PTL DEF FairClosure
<1>11. FairCaller => WF_vars(Complete) /\ WF_vars(Fail)
  BY PTL DEF FairCaller
<1> HIDE DEF Here, Inside, Ending, Ready, Panicked, Done
<1>12. Spec /\ []StepsEnabled => (Here ~> Done)
  BY <1>1, <1>2, <1>3, <1>4, <1>5, <1>6, <1>7, <1>8, <1>9, <1>10, <1>11, InvHolds, PTL DEF Spec
<1> QED
  BY <1>12 DEF Here, Done
=============================================================================
