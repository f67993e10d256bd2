------------------------ MODULE DeviceHandle_proofs ------------------------
(***************************************************************************)
(* Any number of clones in any number of threads: the backend has one      *)
(* caller at a time, is open while it has one, and is never entered again  *)
(* after a panic.                                                          *)
(***************************************************************************)
EXTENDS DeviceHandle, TLAPS

LEMMA InitInv == Init => Inv
  BY ThreadAssumption
     DEF Init, Inv, TypeOK, OwnerIsInside, Borrows, OpenWhileUsed, Methods

LEMMA StepInv == Inv /\ [Next]_vars => Inv'
<1> SUFFICES ASSUME Inv, [Next]_vars PROVE Inv'
  OBVIOUS
<1> USE ThreadAssumption DEF Inv, TypeOK, OwnerIsInside, Borrows, OpenWhileUsed, Methods
<1>1. ASSUME NEW t \in Threads, NEW u \in Threads, Clone(t, u) PROVE Inv'
  BY <1>1 DEF Clone
<1>2. ASSUME NEW t \in Threads, DropClone(t) PROVE Inv'
  BY <1>2 DEF DropClone
<1>3. ASSUME NEW t \in Threads, NEW m \in Methods, Call(t, m) PROVE Inv'
  BY <1>3 DEF Call
<1>4. ASSUME NEW t \in Threads, Lock(t) PROVE Inv'
  BY <1>4 DEF Lock
<1>5. ASSUME NEW t \in Threads, LockPoisoned(t) PROVE Inv'
  BY <1>5 DEF LockPoisoned
<1>6. ASSUME NEW t \in Threads, Return(t) \/ Answer(t) \/ Panic(t) PROVE Inv'
  BY <1>6 DEF Return, Answer, Panic, Leave
<1>7. ASSUME UNCHANGED vars PROVE Inv'
  BY <1>7 DEF vars
<1> QED
  BY <1>1, <1>2, <1>3, <1>4, <1>5, <1>6, <1>7 DEF Next

\* The inductive invariant: who is inside the handle, and whether it is open, is known
\* from where every thread stands.
THEOREM InvHolds == Spec => []Inv
<1> QED
  BY InitInv, StepInv, PTL DEF Spec

\* Every variable keeps a value of its kind.
THEOREM TypeCorrect == Spec => []TypeOK
<1>1. Inv => TypeOK
  BY DEF Inv
<1> QED
  BY <1>1, InvHolds, PTL

\* One thread at a time is inside the backend, and none once the last clone is
\* gone.
THEOREM UsedWhileOpen == Spec => []OneUserOfOpenDevice
<1>1. Inv => MutualExclusion
  BY DEF Inv, OwnerIsInside, MutualExclusion
<1>2. Inv => OneUserOfOpenDevice
  BY <1>1 DEF Inv, OneUserOfOpenDevice
<1> QED
  BY <1>2, InvHolds, PTL

\* No step of a poisoned handle lets a thread in.
LEMMA PoisonStep ==
  Inv /\ [Next]_vars =>
      [poisoned = "yes" =>
          /\ poisoned' = "yes"
          /\ \A t \in Threads : pc[t] # "inside" => pc'[t] # "inside"]_vars
<1> SUFFICES ASSUME Inv, Next, poisoned = "yes"
             PROVE  /\ poisoned' = "yes"
                    /\ \A t \in Threads : pc[t] # "inside" => pc'[t] # "inside"
  BY DEF vars
<1> QED
  BY DEF Inv, TypeOK, Next, Clone, DropClone, Call, Lock, LockPoisoned, Return, Answer,
         Panic, Leave

\* A panic in the backend is the last thing that happens in it.
THEOREM PoisonHolds == Spec => PoisonIsFinal
  BY InvHolds, PoisonStep, PTL DEF Spec, PoisonIsFinal

\* The panic unwinds through the guard, so a poisoned mutex is free.
PoisonedIsFree == poisoned = "yes" => owner = Nobody

LEMMA PoisonedStaysFree == Inv /\ PoisonedIsFree /\ [Next]_vars => PoisonedIsFree'
  BY DEF PoisonedIsFree, Next, Clone, DropClone, Call, Lock, LockPoisoned, Return, Answer,
         Panic, Leave, vars

\* Every call that waits when a call panics, or is made later, ends in the panic of
\* its unwrap: none waits for a mutex that nobody will release.
THEOREM WaitersReleased == Spec /\ []StepsEnabled => PoisonReleasesWaiters
<1>1. Init => PoisonedIsFree
  BY DEF Init, PoisonedIsFree
<1>2. Spec => []PoisonedIsFree
  BY <1>1, InvHolds, PoisonedStaysFree, PTL DEF Spec
<1> SUFFICES ASSUME NEW t \in Threads
             PROVE  Spec /\ []StepsEnabled =>
                        (poisoned = "yes" /\ pc[t] = "lock" ~> pc[t] = "idle")
  BY DEF PoisonReleasesWaiters
<1> DEFINE W == poisoned = "yes" /\ pc[t] = "lock"
           G == pc[t] = "lock" /\ owner = Nobody /\ poisoned = "yes"
           I == pc[t] = "idle"
<1>3. Inv /\ W /\ [Next]_vars => W' \/ I'
  <2> SUFFICES ASSUME Inv, W, [Next]_vars, pc'[t] # "idle" PROVE W'
    OBVIOUS
  <2> USE DEF Inv, TypeOK
  <2>1. ASSUME NEW u \in Threads,
               LockPoisoned(u) \/ Return(u) \/ Answer(u) \/ Panic(u) \/ Lock(u)
        PROVE  W'
    BY <2>1 DEF LockPoisoned, Return, Answer, Panic, Leave, Lock
  <2>2. ASSUME NEW u \in Threads, NEW m \in Methods, Call(u, m) PROVE W'
    BY <2>2 DEF Call
  <2>3. ASSUME NEW u \in Threads, DropClone(u) \/ \E v \in Threads : Clone(v, u) PROVE W'
    BY <2>3 DEF DropClone, Clone
  <2> QED
    BY <2>1, <2>2, <2>3 DEF Next, vars
<1>4. Inv /\ W /\ <<LockPoisoned(t)>>_vars => I'
  BY DEF Inv, TypeOK, LockPoisoned
<1>5. PoisonedIsFree /\ W => G
  BY DEF PoisonedIsFree
<1>6. StepsEnabled => (G => ENABLED <<LockPoisoned(t)>>_vars)
  BY DEF StepsEnabled
<1>7. Fairness => FairThread(t)
  BY DEF Fairness
<1> QED
  BY <1>2, <1>3, <1>4, <1>5, <1>6, <1>7, InvHolds, PTL DEF Spec, FairThread
=============================================================================
