--------------------------- MODULE Hotplug_proofs ---------------------------
(***************************************************************************)
(* On whatever platform hotplug.rs is built for, and for any number of     *)
(* devices, Configuration Manager threads and places in the monitor        *)
(* socket, callbacks run with their context allocated, nothing is leaked,  *)
(* and the platform implements the contract of a subscription.             *)
(***************************************************************************)
EXTENDS Hotplug, FiniteSetTheorems, TLAPS

-----------------------------------------------------------------------------
(* The inductive invariant                                                 *)

LEMMA LinuxInit == Linux!Init => Linux!Inv
  BY DEF Linux!Init, Linux!Inv, Linux!TypeOK, Linux!Lifecycle

LEMMA LinuxStep == Linux!Inv /\ [Linux!Next]_onLinux => Linux!Inv'
<1> SUFFICES ASSUME Linux!Inv, [Linux!Next]_onLinux PROVE Linux!Inv'
  OBVIOUS
<1> USE DEF Linux!Inv, Linux!TypeOK, Linux!Lifecycle
<1>1. ASSUME NEW d \in Devices, NEW k \in Linux!Kinds, Linux!Change(d, k) PROVE Linux!Inv'
  <2>1. [device |-> d, kind |-> k] \in Linux!Events
    BY DEF Linux!Events
  <2>2. queue' = queue \/ queue' = Append(queue, [device |-> d, kind |-> k])
    BY <1>1 DEF Linux!Change, Linux!socket
  <2>3. queue' \in Seq(Linux!Events)
    BY <2>1, <2>2 DEF Linux!TypeOK
  <2>4. plugged' \subseteq Devices /\ lost' \in {"yes", "no"}
    BY <1>1 DEF Linux!Change, Linux!socket
  <2>5. worker = "exited" => queue' = queue
    BY <1>1 DEF Linux!Change, Linux!Listening, Linux!socket
  <2> QED
    BY <1>1, <2>3, <2>4, <2>5 DEF Linux!Change
<1>2. CASE Linux!Register \/ Linux!BeginDrop \/ Linux!Join
  BY <1>2 DEF Linux!Register, Linux!BeginDrop, Linux!Join, Linux!socket
<1>3. CASE Linux!CheckStop
  <2>1. <<>> \in Seq(Linux!Events)
    OBVIOUS
  <2> QED
    BY <1>3, <2>1 DEF Linux!CheckStop
<1>4. CASE \/ Linux!PollReadable \/ Linux!PollTimesOut
           \/ Linux!PollInterrupted \/ Linux!IterationEnds
  BY <1>4 DEF Linux!PollReadable, Linux!PollTimesOut, Linux!PollInterrupted,
              Linux!IterationEnds, Linux!socket
<1>5. CASE Linux!NextEvent
  <2>1. Head(queue) \in Linux!Events /\ Tail(queue) \in Seq(Linux!Events)
    BY <1>5 DEF Linux!NextEvent
  <2>2. CASE Head(queue).kind = "change"
    BY <1>5, <2>1, <2>2 DEF Linux!NextEvent
  <2>3. CASE Head(queue).kind # "change"
    <3>1. Head(queue).device \in Devices
      BY <2>1 DEF Linux!Events
    <3> QED
      BY <1>5, <2>1, <2>3, <3>1 DEF Linux!NextEvent
  <2> QED
    BY <2>2, <2>3
<1>6. CASE Linux!CallbackReturns
  BY <1>6 DEF Linux!CallbackReturns, Linux!socket
<1>7. CASE Linux!CallbackPanics
  <2>1. <<>> \in Seq(Linux!Events)
    OBVIOUS
  <2> QED
    BY <1>7, <2>1 DEF Linux!CallbackPanics
<1>8. CASE UNCHANGED onLinux
  BY <1>8 DEF onLinux, ofLinux
<1> QED
  BY <1>1, <1>2, <1>3, <1>4, <1>5, <1>6, <1>7, <1>8 DEF Linux!Next, Linux!WorkerStep

LEMMA WindowsInit == Windows!Init => Windows!Inv
  BY DEF Windows!Init, Windows!Inv, Windows!TypeOK, Windows!Lifecycle

LEMMA WindowsStep == Windows!Inv /\ [Windows!Next]_onWindows => Windows!Inv'
<1> SUFFICES ASSUME Windows!Inv, [Windows!Next]_onWindows PROVE Windows!Inv'
  OBVIOUS
<1> USE DEF Windows!Inv, Windows!TypeOK, Windows!Lifecycle
<1>1. CASE Windows!NewCallbackData
  BY <1>1 DEF Windows!NewCallbackData
<1>2. CASE Windows!CmRegister \/ Windows!CmRegisterFails \/ Windows!RegisterReturns
  BY <1>2 DEF Windows!CmRegister, Windows!CmRegisterFails, Windows!RegisterReturns
<1>3. CASE Windows!BeginDrop
  BY <1>3 DEF Windows!BeginDrop
<1>4. CASE Windows!CmUnregister \/ Windows!FreeCallbackData
  BY <1>4 DEF Windows!CmUnregister, Windows!FreeCallbackData
<1>5. ASSUME NEW t \in Threads, Windows!Dispatch(t) PROVE Windows!Inv'
  <2>1. CASE notice[t].action = "other"
    BY <1>5, <2>1 DEF Windows!Dispatch, Windows!Notices, Windows!Actions
  <2>2. CASE notice[t].action # "other"
    BY <1>5, <2>2 DEF Windows!Dispatch, Windows!Notices, Windows!Actions
  <2> QED
    BY <2>1, <2>2
<1>6. ASSUME NEW t \in Threads, Windows!CallbackReturns(t) PROVE Windows!Inv'
  BY <1>6 DEF Windows!CallbackReturns
<1>7. ASSUME NEW t \in Threads, NEW n \in Windows!Notices, Windows!Notify(t, n)
      PROVE Windows!Inv'
  BY <1>7 DEF Windows!Notify
<1>8. CASE UNCHANGED onWindows
  BY <1>8 DEF onWindows, ofWindows
<1> QED
  BY <1>1, <1>2, <1>3, <1>4, <1>5, <1>6, <1>7, <1>8
     DEF Windows!Next, Windows!OwnerStep, Windows!ThreadStep

LEMMA MacOsInit == MacOs!Init => MacOs!Inv
  BY DEF MacOs!Init, MacOs!Inv, MacOs!TypeOK, MacOs!Lifecycle, MacOs!HeldAt,
         MacOs!Kinds, MacOs!Resources, MacOs!IteratorOf

LEMMA MacOsStep == MacOs!Inv /\ [MacOs!Next]_onMacOs => MacOs!Inv'
<1> SUFFICES ASSUME MacOs!Inv, [MacOs!Next]_onMacOs PROVE MacOs!Inv'
  OBVIOUS
<1>0. MacOs!Resources = {"port", "arrived_ctx", "removed_ctx", "arrived_iter", "removed_iter"}
  BY DEF MacOs!Resources, MacOs!Kinds, MacOs!Context, MacOs!Iterator
<1> USE <1>0 DEF MacOs!Inv, MacOs!TypeOK, MacOs!Lifecycle, MacOs!HeldAt, MacOs!Kinds,
                 MacOs!IteratorOf
<1>1. ASSUME NEW s \in Devices, MacOs!Appear(s) \/ MacOs!Terminate(s) PROVE MacOs!Inv'
  BY <1>1 DEF MacOs!Appear, MacOs!Terminate, MacOs!Collect
<1>2. CASE MacOs!Register \/ MacOs!BeginDrop \/ MacOs!Join
  BY <1>2 DEF MacOs!Register, MacOs!BeginDrop, MacOs!Join
<1>3. CASE MacOs!Receive
  BY <1>3 DEF MacOs!Receive, MacOs!ReceiveLoop, MacOs!ReceiveNull
<1>4. CASE MacOs!CreatePort \/ MacOs!AddSource \/ MacOs!SendLoop
  BY <1>4 DEF MacOs!CreatePort, MacOs!AddSource, MacOs!SendLoop
<1>5. CASE MacOs!AddNotification("arrival", "drain_arrival")
  BY <1>5 DEF MacOs!AddNotification, MacOs!Context, MacOs!Iterator
<1>6. CASE MacOs!AddNotification("removal", "drain_removal")
  BY <1>6 DEF MacOs!AddNotification, MacOs!Context, MacOs!Iterator
<1>7. ASSUME NEW k \in MacOs!Kinds, NEW next, MacOs!DrainSilently(k, next),
             \/ k = "arrival" /\ next = "removal"
             \/ k = "removal" /\ next = "send"
      PROVE  MacOs!Inv'
  <2>1. iterators' \in [MacOs!Kinds -> SUBSET Devices]
    BY <1>7 DEF MacOs!DrainSilently
  <2>2. UNCHANGED <<life, held, chan, stop, event, seen, owner>>
    BY <1>7 DEF MacOs!DrainSilently
  <2>3. \/ worker = "drain_arrival" /\ worker' = "removal"
        \/ worker = "drain_removal" /\ worker' = "send"
    BY <1>7 DEF MacOs!DrainSilently
  <2>4. MacOs!TypeOK'
    BY <2>1, <2>2, <2>3
  <2>5. MacOs!HeldAt["drain_arrival"] = MacOs!HeldAt["removal"]
        /\ MacOs!HeldAt["drain_removal"] = MacOs!HeldAt["send"]
    OBVIOUS
  <2>6. (held = MacOs!HeldAt[worker])'
    BY <2>2, <2>3, <2>5
  <2>7. owner # "none" /\ chan = "empty" /\ owner \notin {"gone", "failed"}
    BY <2>3
  <2>8. MacOs!Lifecycle'
    BY <2>2, <2>3, <2>6, <2>7
  <2> QED
    BY <2>4, <2>8
<1>8. CASE MacOs!SetupFails
  BY <1>8 DEF MacOs!SetupFails, MacOs!Cleanup, MacOs!Context
<1>9. ASSUME NEW k \in MacOs!Kinds, MacOs!Dispatch(k) PROVE MacOs!Inv'
  BY <1>9 DEF MacOs!Dispatch
<1>10. ASSUME NEW s \in Devices, MacOs!NextService(s) PROVE MacOs!Inv'
  BY <1>10 DEF MacOs!NextService
<1>11. CASE MacOs!CallbackReturns \/ MacOs!DispatchEnds
  BY <1>11 DEF MacOs!CallbackReturns, MacOs!DispatchEnds
<1>12. CASE MacOs!Teardown
  BY <1>12 DEF MacOs!Teardown
<1>13. CASE UNCHANGED onMacOs
  BY <1>13 DEF onMacOs, ofMacOs
<1> QED
  BY <1>1, <1>2, <1>3, <1>4, <1>5, <1>6, <1>7, <1>8, <1>9, <1>10, <1>11, <1>12, <1>13
     DEF MacOs!Next, MacOs!Setup, MacOs!Loop

\* One step of Hotplug is one step of the platform that is built.
LEMMA PlatformStep ==
  ASSUME [Next]_vars
  PROVE  /\ platform' = platform
         /\ platform = "linux" => [Linux!Next]_onLinux
         /\ platform = "windows" => [Windows!Next]_onWindows
         /\ platform = "macos" => [MacOs!Next]_onMacOs
  BY DEF Next, vars, shared, onLinux, onWindows, onMacOs, ofLinux, ofWindows, ofMacOs

LEMMA InitInv == Init => Inv
  BY LinuxInit, WindowsInit, MacOsInit DEF Init, Inv

LEMMA StepInv == Inv /\ [Next]_vars => Inv'
  BY PlatformStep, LinuxStep, WindowsStep, MacOsStep DEF Inv

\* The inductive invariant holds: the worker or the notification and what they
\* own follow the subscription on every platform.
THEOREM InvHolds == Spec => []Inv
<1> QED
  BY InitInv, StepInv, PTL DEF Spec

-----------------------------------------------------------------------------
(* What follows from it                                                    *)

\* cm_callback and service_callback never run with their context freed.
THEOREM ContextsOutlive == Spec => []ContextOutlivesCallbacks
<1>1. Inv => ContextOutlivesCallbacks
  <2>1. Windows!Inv => Windows!DataOutlivesCallbacks
    BY DEF Windows!Inv, Windows!TypeOK, Windows!Lifecycle, Windows!DataOutlivesCallbacks
  <2>2. MacOs!Inv => MacOs!ContextsOutliveCallbacks
    BY DEF MacOs!Inv, MacOs!TypeOK, MacOs!Lifecycle, MacOs!HeldAt, MacOs!IteratorOf,
           MacOs!ContextsOutliveCallbacks, MacOs!Resources, MacOs!Kinds,
           MacOs!Context, MacOs!Iterator
  <2> QED
    BY <2>1, <2>2 DEF Inv, ContextOutlivesCallbacks
<1> QED
  BY <1>1, InvHolds, PTL

\* A subscription that has ended, or could not be made, has freed what it
\* allocated.
THEOREM NothingLeaks == Spec => []NothingLeaked
<1>1. Inv => NothingLeaked
  BY DEF Inv, NothingLeaked, Linux!Inv, Linux!TypeOK, Linux!Lifecycle,
         Linux!NothingRunsAfterDrop, Windows!Inv, Windows!Lifecycle,
         Windows!DataFreedAtEnd, MacOs!Inv, MacOs!Lifecycle, MacOs!HeldAt,
         MacOs!NothingLeaked
<1> QED
  BY <1>1, InvHolds, PTL

-----------------------------------------------------------------------------
(* What the Linux callback was told                                        *)

\* The arrivals and removals of d that wait in the monitor socket q.
News(q, d) == {i \in DOMAIN q : q[i].device = d /\ q[i].kind # "change"}

\* The last of them, or if there is none the callback, says whether d is there.
Told(d) ==
    /\ \A i \in News(queue, d) :
           (\A j \in News(queue, d) : j <= i) => (queue[i].kind = "add" <=> d \in plugged)
    /\ News(queue, d) = {} /\ seen[d] # "unknown" => (seen[d] = "arrived" <=> d \in plugged)

ViewInv ==
    /\ worker = "none" => queue = <<>> /\ seen = [d \in Devices |-> "unknown"]
    /\ lost = "no" /\ Linux!Listening => \A d \in Devices : Told(d)

LEMMA AppendFacts ==
    ASSUME NEW S, NEW q \in Seq(S), NEW x \in S
    PROVE  /\ DOMAIN Append(q, x) = 1 .. Len(q) + 1
           /\ DOMAIN q = 1 .. Len(q)
           /\ Len(q) \in Nat
           /\ \A i \in DOMAIN q : Append(q, x)[i] = q[i]
           /\ Append(q, x)[Len(q) + 1] = x
  OBVIOUS

LEMMA TailFacts ==
    ASSUME NEW S, NEW q \in Seq(S), q # <<>>
    PROVE  /\ Len(q) \in Nat \ {0}
           /\ DOMAIN q = 1 .. Len(q)
           /\ DOMAIN Tail(q) = 1 .. Len(q) - 1
           /\ \A i \in DOMAIN Tail(q) : Tail(q)[i] = q[i + 1]
           /\ Head(q) = q[1]
  OBVIOUS

\* Told does not depend on where the worker is.
LEMMA ToldKept ==
    ASSUME ViewInv, lost = "no", Linux!Listening, UNCHANGED <<queue, plugged, seen>>
    PROVE  \A d \in Devices : Told(d)'
  BY DEF ViewInv, Told, News

\* What comes into the socket last is what the world is like now.
LEMMA ChangeTold ==
    ASSUME Linux!Inv, ViewInv, lost = "no", Linux!Listening,
           NEW d \in Devices, NEW k \in Linux!Kinds, Linux!Change(d, k), lost' = "no",
           NEW x \in Devices
    PROVE  Told(x)'
<1> DEFINE e == [device |-> d, kind |-> k]
           q == queue
           r == queue'
<1>1. q \in Seq(Linux!Events) /\ e \in Linux!Events
  BY DEF Linux!Inv, Linux!TypeOK, Linux!Events
<1>2. r = Append(q, e)
  <2>1. Len(q) < QueueLimit \/ Len(q) >= QueueLimit
    BY <1>1, HotplugAssumption
  <2> QED
    BY <2>1 DEF Linux!Change, Linux!socket
<1>3. /\ DOMAIN r = 1 .. Len(q) + 1
      /\ DOMAIN q = 1 .. Len(q)
      /\ Len(q) \in Nat
      /\ \A i \in DOMAIN q : r[i] = q[i]
      /\ r[Len(q) + 1] = e
  BY <1>1, <1>2, AppendFacts
<1>4. Told(x) /\ seen' = seen
  BY DEF ViewInv, Linux!Change
<1>5. plugged' = CASE k = "add" -> plugged \cup {d}
                   [] k = "remove" -> plugged \ {d}
                   [] OTHER -> plugged
  BY DEF Linux!Change
<1> HIDE DEF q, r
<1>6. CASE x # d \/ k = "change"
  <2>1. News(r, x) = News(q, x)
    BY <1>3, <1>6 DEF News
  <2>2. x \in plugged' <=> x \in plugged
    BY <1>5, <1>6 DEF Linux!Kinds
  <2>3. \A i \in News(q, x) : r[i] = q[i]
    BY <1>3 DEF News
  <2> QED
    BY <1>4, <2>1, <2>2, <2>3 DEF Told, q, r
<1>7. CASE x = d /\ k # "change"
  <2>1. Len(q) + 1 \in News(r, x)
    BY <1>3, <1>7 DEF News
  <2>2. x \in plugged' <=> k = "add"
    BY <1>5, <1>7 DEF Linux!Kinds
  <2>3. ASSUME NEW i \in News(r, x), \A j \in News(r, x) : j <= i
        PROVE  r[i].kind = "add" <=> x \in plugged'
    <3>1. i = Len(q) + 1
      BY <1>3, <2>1, <2>3 DEF News
    <3> QED
      BY <1>3, <2>2, <3>1
  <2> QED
    BY <2>1, <2>3 DEF Told, r
<1> QED
  BY <1>6, <1>7

\* What the callback is told is the oldest of the news.
LEMMA NextEventTold ==
    ASSUME Linux!Inv, ViewInv, lost = "no", Linux!Listening, Linux!NextEvent,
           NEW x \in Devices
    PROVE  Told(x)'
<1> DEFINE q == queue
           r == queue'
           e == Head(queue)
<1>1. q \in Seq(Linux!Events) /\ q # <<>> /\ r = Tail(q)
  BY DEF Linux!NextEvent, Linux!Inv, Linux!TypeOK
<1>2. /\ Len(q) \in Nat \ {0}
      /\ DOMAIN q = 1 .. Len(q)
      /\ DOMAIN r = 1 .. Len(q) - 1
      /\ \A i \in DOMAIN r : r[i] = q[i + 1]
      /\ e = q[1]
  BY <1>1, TailFacts
<1>3. Told(x) /\ plugged' = plugged
  BY DEF ViewInv, Linux!NextEvent
<1>4. e \in Linux!Events
  BY <1>1, <1>2
<1>5. seen' = IF e.kind = "change" THEN seen
              ELSE [seen EXCEPT ![e.device] = IF e.kind = "add" THEN "arrived" ELSE "left"]
  BY DEF Linux!NextEvent
<1>6. seen \in [Devices -> {"unknown", "arrived", "left"}]
  BY DEF Linux!Inv, Linux!TypeOK
<1> HIDE DEF q, r, e
<1>7. \A i \in Nat : i \in News(r, x) <=> i >= 1 /\ i + 1 \in News(q, x)
  BY <1>2 DEF News
<1>8. \A i \in News(q, x) : i \in Nat /\ i >= 1
  BY <1>2 DEF News
<1>9. \A i \in News(r, x) : i \in Nat /\ r[i] = q[i + 1]
  BY <1>2 DEF News
<1>10. ASSUME NEW i \in News(r, x), \A j \in News(r, x) : j <= i
       PROVE  r[i].kind = "add" <=> x \in plugged'
  <2>1. i \in Nat /\ i + 1 \in News(q, x) /\ r[i] = q[i + 1]
    BY <1>7, <1>9
  <2>2. \A j \in News(q, x) : j <= i + 1
    <3> SUFFICES ASSUME NEW j \in News(q, x) PROVE j <= i + 1
      OBVIOUS
    <3>1. CASE j = 1
      BY <2>1, <3>1
    <3>2. CASE j # 1
      <4>1. j - 1 \in Nat /\ j - 1 >= 1 /\ (j - 1) + 1 = j
        BY <1>8, <3>2
      <4>2. j - 1 \in News(r, x)
        BY <1>7, <4>1
      <4> QED
        BY <1>10, <2>1, <4>1, <4>2
    <3> QED
      BY <3>1, <3>2
  <2> QED
    BY <1>3, <2>1, <2>2 DEF Told, q
<1>11. ASSUME News(r, x) = {}, seen'[x] # "unknown"
       PROVE  seen'[x] = "arrived" <=> x \in plugged'
  <2>1. \A j \in News(q, x) : j = 1
    <3> SUFFICES ASSUME NEW j \in News(q, x), j # 1 PROVE FALSE
      OBVIOUS
    <3>1. j - 1 \in Nat /\ j - 1 >= 1 /\ (j - 1) + 1 = j
      BY <1>8
    <3> QED
      BY <1>7, <1>11, <3>1
  <2>2. CASE 1 \in News(q, x)
    <3>1. e.device = x /\ e.kind # "change"
      BY <1>2, <2>2 DEF News
    <3>2. e.kind = "add" <=> x \in plugged
      BY <1>2, <1>3, <2>1, <2>2 DEF Told, q
    <3> QED
      BY <1>3, <1>5, <1>6, <3>1, <3>2
  <2>3. CASE 1 \notin News(q, x)
    <3>1. News(q, x) = {}
      BY <2>1, <2>3
    <3>2. e.device # x \/ e.kind = "change"
      BY <1>2, <2>3 DEF News
    <3>3. seen'[x] = seen[x]
      BY <1>4, <1>5, <1>6, <3>2 DEF Linux!Events
    <3> QED
      BY <1>3, <1>11, <3>1, <3>3 DEF Told, q
  <2> QED
    BY <2>2, <2>3
<1> QED
  BY <1>10, <1>11 DEF Told, r

LEMMA ViewInit == Linux!Init => ViewInv
  BY DEF Linux!Init, ViewInv, Linux!Listening

LEMMA ViewStep == Linux!Inv /\ ViewInv /\ [Linux!Next]_onLinux => ViewInv'
<1> SUFFICES ASSUME Linux!Inv, ViewInv, [Linux!Next]_onLinux PROVE ViewInv'
  OBVIOUS
<1> USE DEF Linux!Listening
<1>1. ASSUME NEW d \in Devices, NEW k \in Linux!Kinds, Linux!Change(d, k) PROVE ViewInv'
  <2>1. worker' = worker /\ seen' = seen /\ (lost' = "no" => lost = "no")
    BY <1>1 DEF Linux!Change, Linux!socket, Linux!Inv, Linux!TypeOK
  <2>2. worker = "none" => queue' = queue
    BY <1>1 DEF Linux!Change, Linux!socket
  <2>3. lost' = "no" /\ Linux!Listening' => \A x \in Devices : Told(x)'
    BY <1>1, <2>1, ChangeTold
  <2> QED
    BY <2>1, <2>2, <2>3 DEF ViewInv
<1>2. CASE Linux!Register
  <2>1. worker = "none" /\ queue' = queue /\ seen' = seen /\ worker' = "check"
    BY <1>2 DEF Linux!Register, Linux!socket, Linux!Inv, Linux!Lifecycle
  <2>2. queue' = <<>> /\ \A d \in Devices : seen'[d] = "unknown"
    BY <2>1 DEF ViewInv
  <2>3. \A d \in Devices : Told(d)'
    BY <2>2 DEF Told, News
  <2> QED
    BY <2>1, <2>3 DEF ViewInv
<1>3. CASE UNCHANGED <<plugged, queue, lost, worker, seen>>
  BY <1>3 DEF ViewInv, Told, News
<1>4. CASE UNCHANGED <<plugged, queue, lost, seen>> /\ worker \notin {"none", "exited"}
                                                   /\ worker' # "none"
  BY <1>4, ToldKept DEF ViewInv
<1>5. CASE worker' = "exited"
  BY <1>5 DEF ViewInv
<1>6. CASE Linux!NextEvent
  <2>1. worker = "iterate" /\ worker' # "none" /\ lost' = lost
    BY <1>6 DEF Linux!NextEvent
  <2> QED
    BY <1>6, <2>1, NextEventTold DEF ViewInv
<1>7. CASE Linux!BeginDrop \/ Linux!Join
  BY <1>3, <1>7 DEF Linux!BeginDrop, Linux!Join, Linux!socket
<1>8. CASE Linux!CheckStop \/ Linux!CallbackPanics
  BY <1>4, <1>5, <1>8 DEF Linux!CheckStop, Linux!CallbackPanics
<1>9. CASE \/ Linux!PollReadable \/ Linux!PollTimesOut \/ Linux!PollInterrupted
           \/ Linux!CallbackReturns \/ Linux!IterationEnds
  BY <1>4, <1>9 DEF Linux!PollReadable, Linux!PollTimesOut, Linux!PollInterrupted,
                    Linux!CallbackReturns, Linux!IterationEnds, Linux!socket
<1>10. CASE UNCHANGED onLinux
  BY <1>3, <1>10 DEF onLinux, ofLinux
<1> QED
  BY <1>1, <1>2, <1>6, <1>7, <1>8, <1>9, <1>10 DEF Linux!Next, Linux!WorkerStep

\* A callback that was told all there is to tell of a device knows whether it
\* is there, as long as the monitor socket lost nothing.
THEOREM ViewHolds == Spec => []ViewMatchesWorld
<1> DEFINE I == Inv /\ (platform = "linux" => ViewInv)
<1>1. Init => I
  BY InitInv, ViewInit DEF Init
<1>2. I /\ [Next]_vars => I'
  BY StepInv, PlatformStep, ViewStep DEF Inv
<1>3. I => ViewMatchesWorld
  <2> SUFFICES ASSUME ViewInv, lost = "no", Linux!Listening, NEW d \in Devices,
                      seen[d] # "unknown", \A i \in DOMAIN queue : queue[i].device # d
               PROVE  seen[d] = "arrived" <=> d \in plugged
    BY DEF ViewMatchesWorld, Linux!ViewMatchesWorld
  <2>1. News(queue, d) = {}
    BY DEF News
  <2> QED
    BY <2>1 DEF ViewInv, Told
<1> QED
  BY <1>1, <1>2, <1>3, PTL DEF Spec

-----------------------------------------------------------------------------
(* The contract of a subscription                                          *)

WindowsCalls == Cardinality(Windows!Running)

phaseOf == CASE platform = "linux" -> Linux!Phase
             [] platform = "windows" -> Windows!Phase
             [] platform = "macos" -> MacOs!Phase
callsOf == CASE platform = "linux" -> Linux!Calls
             [] platform = "windows" -> WindowsCalls
             [] platform = "macos" -> MacOs!Calls

\* A step of the contract, on the state a subscription maps to.
ContractStep(p, c, pp, cc) ==
    \/ p = pp /\ c = cc
    \/ p = "unregistered" /\ pp = "active" /\ cc = c
    \/ p \in {"active", "cancelling"} /\ cc = c + 1 /\ pp = p
    \/ c > 0 /\ cc = c - 1 /\ pp = p
    \/ p = "active" /\ pp = "cancelling" /\ cc = c
    \/ p = "cancelling" /\ c = 0 /\ pp = "cancelled" /\ cc = c

LEMMA LinuxContract ==
  ASSUME Linux!Inv, [Linux!Next]_onLinux
  PROVE  ContractStep(Linux!Phase, Linux!Calls, Linux!Phase', Linux!Calls')
<1> USE DEF Linux!Inv, Linux!TypeOK, Linux!Lifecycle, Linux!Phase, Linux!Calls, ContractStep
<1>1. ASSUME NEW d \in Devices, NEW k \in Linux!Kinds, Linux!Change(d, k)
      PROVE UNCHANGED <<worker, owner>>
  BY <1>1 DEF Linux!Change
<1>2. CASE UNCHANGED <<worker, owner>>
  BY <1>2
<1>3. CASE Linux!Register \/ Linux!BeginDrop \/ Linux!Join
  BY <1>3 DEF Linux!Register, Linux!BeginDrop, Linux!Join
<1>4. CASE Linux!CheckStop
  BY <1>4 DEF Linux!CheckStop
<1>5. CASE \/ Linux!PollReadable \/ Linux!PollTimesOut
           \/ Linux!PollInterrupted \/ Linux!IterationEnds
  BY <1>5 DEF Linux!PollReadable, Linux!PollTimesOut, Linux!PollInterrupted,
              Linux!IterationEnds
<1>6. CASE Linux!NextEvent
  BY <1>6 DEF Linux!NextEvent
<1>7. CASE Linux!CallbackReturns \/ Linux!CallbackPanics
  BY <1>7 DEF Linux!CallbackReturns, Linux!CallbackPanics
<1>8. CASE UNCHANGED onLinux
  BY <1>8 DEF onLinux
<1> QED
  BY <1>1, <1>2, <1>3, <1>4, <1>5, <1>6, <1>7, <1>8 DEF Linux!Next, Linux!WorkerStep

LEMMA WindowsContract ==
  ASSUME Windows!Inv, [Windows!Next]_onWindows
  PROVE  ContractStep(Windows!Phase, WindowsCalls, Windows!Phase', WindowsCalls')
<1> USE DEF Windows!Inv, Windows!TypeOK, Windows!Lifecycle
<1>0. IsFiniteSet(Windows!Running) /\ WindowsCalls \in Nat
  <2>1. Windows!Running \in SUBSET Threads
    BY DEF Windows!Running
  <2>2. IsFiniteSet(Windows!Running)
    BY <2>1, HotplugAssumption, FS_Subset
  <2> QED
    BY <2>2, FS_CardinalityType DEF WindowsCalls
<1>1. CASE \/ Windows!NewCallbackData \/ Windows!CmRegister \/ Windows!CmRegisterFails
           \/ Windows!RegisterReturns \/ Windows!BeginDrop \/ Windows!FreeCallbackData
  <2>1. WindowsCalls' = WindowsCalls
    BY <1>1 DEF WindowsCalls, Windows!Running, Windows!NewCallbackData,
       Windows!CmRegister, Windows!CmRegisterFails, Windows!RegisterReturns,
       Windows!BeginDrop, Windows!FreeCallbackData
  <2> QED
    BY <1>1, <2>1 DEF Windows!Phase, ContractStep, Windows!NewCallbackData,
       Windows!CmRegister, Windows!CmRegisterFails, Windows!RegisterReturns,
       Windows!BeginDrop, Windows!FreeCallbackData
<1>2. CASE Windows!CmUnregister
  <2>1. WindowsCalls = 0 /\ WindowsCalls' = 0
    <3>1. Windows!Running = {} /\ Windows!Running' = {}
      BY <1>2 DEF Windows!CmUnregister, Windows!Running
    <3> QED
      BY <3>1, FS_EmptySet DEF WindowsCalls
  <2> QED
    BY <1>2, <2>1 DEF Windows!Phase, ContractStep, Windows!CmUnregister
<1>3. ASSUME NEW t \in Threads, Windows!Dispatch(t)
      PROVE ContractStep(Windows!Phase, WindowsCalls, Windows!Phase', WindowsCalls')
  <2>1. Windows!Phase' = Windows!Phase /\ Windows!Phase \in {"active", "cancelling"}
    BY <1>3 DEF Windows!Dispatch, Windows!Phase
  <2>2. \/ Windows!Running' = Windows!Running
        \/ t \notin Windows!Running /\ Windows!Running' = Windows!Running \cup {t}
    BY <1>3 DEF Windows!Dispatch, Windows!Running
  <2>3. WindowsCalls' = WindowsCalls \/ WindowsCalls' = WindowsCalls + 1
    BY <1>0, <2>2, FS_AddElement DEF WindowsCalls
  <2> QED
    BY <2>1, <2>3 DEF ContractStep
<1>4. ASSUME NEW t \in Threads, Windows!CallbackReturns(t)
      PROVE ContractStep(Windows!Phase, WindowsCalls, Windows!Phase', WindowsCalls')
  <2>1. Windows!Phase' = Windows!Phase
    BY <1>4 DEF Windows!CallbackReturns, Windows!Phase
  <2>2. t \in Windows!Running /\ Windows!Running' = Windows!Running \ {t}
    BY <1>4 DEF Windows!CallbackReturns, Windows!Running
  <2>3. WindowsCalls' = WindowsCalls - 1 /\ WindowsCalls' \in Nat
    BY <1>0, <2>2, FS_RemoveElement, FS_CardinalityType DEF WindowsCalls
  <2> QED
    BY <1>0, <2>1, <2>3 DEF ContractStep
<1>5. ASSUME NEW t \in Threads, NEW n \in Windows!Notices, Windows!Notify(t, n)
      PROVE ContractStep(Windows!Phase, WindowsCalls, Windows!Phase', WindowsCalls')
  <2>1. Windows!Running' = Windows!Running
    BY <1>5 DEF Windows!Notify, Windows!Running
  <2> QED
    BY <1>5, <2>1 DEF Windows!Notify, Windows!Phase, WindowsCalls, ContractStep
<1>6. CASE UNCHANGED onWindows
  BY <1>6 DEF onWindows, ofWindows, Windows!Phase, WindowsCalls, Windows!Running,
              ContractStep
<1> QED
  BY <1>1, <1>2, <1>3, <1>4, <1>5, <1>6
     DEF Windows!Next, Windows!OwnerStep, Windows!ThreadStep

LEMMA MacOsContract ==
  ASSUME MacOs!Inv, [MacOs!Next]_onMacOs
  PROVE  ContractStep(MacOs!Phase, MacOs!Calls, MacOs!Phase', MacOs!Calls')
<1> USE DEF MacOs!Inv, MacOs!TypeOK, MacOs!Lifecycle, MacOs!IteratorOf, MacOs!Phase,
            MacOs!Calls, ContractStep
<1>1. CASE UNCHANGED <<owner, chan, event>>
  BY <1>1
<1>2. ASSUME NEW s \in Devices, MacOs!Appear(s) \/ MacOs!Terminate(s)
      PROVE UNCHANGED <<owner, chan, event>>
  BY <1>2 DEF MacOs!Appear, MacOs!Terminate
<1>3. CASE MacOs!Register \/ MacOs!BeginDrop \/ MacOs!Join
  BY <1>3 DEF MacOs!Register, MacOs!BeginDrop, MacOs!Join
<1>4. CASE MacOs!Receive
  BY <1>4 DEF MacOs!Receive, MacOs!ReceiveLoop, MacOs!ReceiveNull
<1>5. ASSUME \/ MacOs!CreatePort
             \/ MacOs!AddSource
             \/ MacOs!AddNotification("arrival", "drain_arrival")
             \/ MacOs!DrainSilently("arrival", "removal")
             \/ MacOs!AddNotification("removal", "drain_removal")
             \/ MacOs!DrainSilently("removal", "send")
      PROVE UNCHANGED <<owner, chan, event>>
  BY <1>5 DEF MacOs!CreatePort, MacOs!AddSource, MacOs!AddNotification,
              MacOs!DrainSilently
<1>6. CASE MacOs!SendLoop
  BY <1>6 DEF MacOs!SendLoop
<1>7. CASE MacOs!SetupFails
  BY <1>7 DEF MacOs!SetupFails, MacOs!Cleanup
<1>8. ASSUME \/ \E k \in MacOs!Kinds : MacOs!Dispatch(k)
             \/ MacOs!DispatchEnds
             \/ MacOs!Teardown
      PROVE UNCHANGED <<owner, chan, event>>
  BY <1>8 DEF MacOs!Dispatch, MacOs!DispatchEnds, MacOs!Teardown
<1>9. ASSUME NEW s \in Devices, MacOs!NextService(s)
      PROVE ContractStep(MacOs!Phase, MacOs!Calls, MacOs!Phase', MacOs!Calls')
  <2>1. event = NoEvent /\ event' # NoEvent /\ UNCHANGED <<owner, chan>>
    BY <1>9, HotplugAssumption DEF MacOs!NextService
  <2>2. chan = "loop" /\ owner # "gone"
    BY <1>9 DEF MacOs!NextService
  <2> QED
    BY <2>1, <2>2
<1>10. CASE MacOs!CallbackReturns
  BY <1>10 DEF MacOs!CallbackReturns
<1>11. CASE UNCHANGED onMacOs
  BY <1>11 DEF onMacOs, ofMacOs
<1> QED
  BY <1>1, <1>2, <1>3, <1>4, <1>5, <1>6, <1>7, <1>8, <1>9, <1>10, <1>11
     DEF MacOs!Next, MacOs!Setup, MacOs!Loop

LEMMA InitContract == Init => Contract!Init
<1>1. ASSUME Windows!Init PROVE Windows!Running = {}
  BY <1>1 DEF Windows!Init, Windows!Running
<1>2. Windows!Init => Windows!Phase = "unregistered" /\ WindowsCalls = 0
  BY <1>1, FS_EmptySet DEF Windows!Init, Windows!Phase, WindowsCalls
<1>3. Linux!Init => Linux!Phase = "unregistered" /\ Linux!Calls = 0
  BY DEF Linux!Init, Linux!Phase, Linux!Calls
<1>4. MacOs!Init => MacOs!Phase = "unregistered" /\ MacOs!Calls = 0
  BY DEF MacOs!Init, MacOs!Phase, MacOs!Calls
<1> QED
  BY <1>2, <1>3, <1>4 DEF Init, Contract!Init, WindowsCalls

LEMMA StepContract == Inv /\ [Next]_vars => [Contract!Next]_(Contract!vars)
<1> SUFFICES ASSUME Inv, [Next]_vars PROVE [Contract!Next]_(Contract!vars)
  OBVIOUS
<1>1. ContractStep(phaseOf, callsOf, phaseOf', callsOf')
  BY PlatformStep, LinuxContract, WindowsContract, MacOsContract
     DEF Inv, phaseOf, callsOf
<1> QED
  BY <1>1 DEF ContractStep, phaseOf, callsOf, WindowsCalls, Contract!Next, Contract!vars,
     Contract!Register, Contract!CallbackBegins, Contract!CallbackEnds,
     Contract!Cancel, Contract!CancelReturns

\* Every platform implements the contract: callbacks run between registration
\* and the end of cancellation, which waits for them.
THEOREM SubscriptionRefined == Spec => ImplementsSubscription
<1> QED
  BY InvHolds, InitContract, StepContract, PTL DEF Spec, Contract!Spec,
     ImplementsSubscription
-----------------------------------------------------------------------------
(***************************************************************************)
(* Progress of the drop.  On Linux and Windows each round of what it waits *)
(* for leaves less to wait for: fewer events in the socket, fewer threads  *)
(* in cm_callback.  On macOS the run loop ends if what it dispatches does. *)
(***************************************************************************)

\* Where the worker goes from each place while it is being joined.
LEMMA LinuxDropMoves ==
  ASSUME Linux!Inv, [Linux!Next]_onLinux, owner = "dropping"
  PROVE  /\ worker \in {"check", "poll", "iterate", "callback", "exited"}
         /\ owner' = "dropping" \/ (owner' = "gone" /\ worker = "exited")
         /\ worker = "check" => worker' \in {"check", "exited"}
         /\ worker = "poll" => worker' \in {"poll", "iterate", "check"}
         /\ worker = "iterate" =>
                worker' \in {"iterate", "check"} \/ (worker' = "callback" /\ Len(queue') < Len(queue))
         /\ worker = "callback" => worker' \in {"callback", "iterate", "exited"}
         /\ worker = "exited" => worker' = "exited"
<1> USE DEF Linux!Inv, Linux!TypeOK, Linux!Lifecycle
<1>1. ASSUME NEW d \in Devices, NEW k \in Linux!Kinds, Linux!Change(d, k)
      PROVE  UNCHANGED <<owner, worker>>
  BY <1>1 DEF Linux!Change
<1>2. Linux!NextEvent => Len(queue') < Len(queue)
  BY DEF Linux!NextEvent
<1>3. CASE UNCHANGED onLinux
  BY <1>3 DEF onLinux
<1>4. CASE Linux!WorkerStep
  BY <1>2, <1>4 DEF Linux!WorkerStep, Linux!CheckStop, Linux!PollReadable, Linux!PollTimesOut,
                    Linux!NextEvent, Linux!CallbackReturns, Linux!IterationEnds
<1>5. CASE \/ Linux!Register \/ Linux!BeginDrop \/ Linux!Join
           \/ Linux!PollInterrupted \/ Linux!CallbackPanics
  BY <1>5 DEF Linux!Register, Linux!BeginDrop, Linux!Join, Linux!PollInterrupted,
              Linux!CallbackPanics
<1> QED
  BY <1>1, <1>3, <1>4, <1>5 DEF Linux!Next

LEMMA LinuxWorkerLeads ==
  ASSUME Linux!Inv, Linux!WorkerStep
  PROVE  worker' # worker \/ Len(queue') < Len(queue)
<1>1. Linux!NextEvent => Len(queue') < Len(queue)
  BY DEF Linux!NextEvent, Linux!Inv, Linux!TypeOK
<1> QED
  BY <1>1 DEF Linux!WorkerStep, Linux!CheckStop, Linux!PollReadable, Linux!PollTimesOut,
              Linux!CallbackReturns, Linux!IterationEnds

\* With no new events, a drop on Linux returns or has fewer events to wait for: the
\* worker is past the stop flag only while it empties the socket.
THEOREM LinuxDropAdvances ==
  ASSUME NEW n \in Nat
  PROVE  Spec /\ []StepsEnabled /\ [][Len(queue') < Len(queue)]_queue =>
             (platform = "linux" /\ owner = "dropping" /\ Len(queue) = n
                  ~> owner = "gone" \/ (owner = "dropping" /\ Len(queue) < n))
<1> DEFINE Here == platform = "linux" /\ owner = "dropping" /\ Len(queue) = n
           At(w) == Here /\ worker = w
           Further == owner = "gone" \/ (owner = "dropping" /\ Len(queue) < n)
           Quiet == [Len(queue') < Len(queue)]_queue
           Work == platform = "linux" /\ Linux!WorkerStep
           Ends == platform = "linux" /\ Linux!Join
<1>1. ASSUME Inv, Here, [Next]_vars, Quiet
      PROVE  \/ Further'
             \/ /\ Here'
                /\ worker = "check" => worker' \in {"check", "exited"}
                /\ worker = "poll" => worker' \in {"poll", "iterate", "check"}
                /\ worker = "iterate" => worker' \in {"iterate", "check"}
                /\ worker = "callback" => worker' \in {"callback", "iterate", "exited"}
                /\ worker = "exited" => worker' = "exited"
  <2>1. Linux!Inv /\ [Linux!Next]_onLinux /\ platform' = platform
    BY <1>1, PlatformStep DEF Inv
  <2>2. CASE queue' = queue
    BY <1>1, <2>1, <2>2, LinuxDropMoves
  <2>3. CASE Len(queue') < Len(queue)
    BY <1>1, <2>1, <2>3, LinuxDropMoves
  <2> QED
    BY <1>1, <2>2, <2>3
<1>2. /\ Inv /\ [Next]_vars /\ Quiet /\ At("check") => At("check")' \/ At("exited")' \/ Further'
      /\ Inv /\ [Next]_vars /\ Quiet /\ At("poll") =>
             At("poll")' \/ At("iterate")' \/ At("check")' \/ Further'
      /\ Inv /\ [Next]_vars /\ Quiet /\ At("iterate") => At("iterate")' \/ At("check")' \/ Further'
      /\ Inv /\ [Next]_vars /\ Quiet /\ At("callback") =>
             At("callback")' \/ At("iterate")' \/ At("exited")' \/ Further'
      /\ Inv /\ [Next]_vars /\ Quiet /\ At("exited") => At("exited")' \/ Further'
  BY <1>1
<1>3. ASSUME NEW w, Inv, [Next]_vars, Quiet, At(w), <<Work>>_onLinux
      PROVE  ~At(w)'
  BY <1>3, LinuxWorkerLeads DEF Inv
<1>4. /\ Inv /\ [Next]_vars /\ Quiet /\ At("check") /\ <<Work>>_onLinux => ~At("check")'
      /\ Inv /\ [Next]_vars /\ Quiet /\ At("poll") /\ <<Work>>_onLinux => ~At("poll")'
      /\ Inv /\ [Next]_vars /\ Quiet /\ At("iterate") /\ <<Work>>_onLinux => ~At("iterate")'
      /\ Inv /\ [Next]_vars /\ Quiet /\ At("callback") /\ <<Work>>_onLinux => ~At("callback")'
  BY <1>3
<1>5. At("exited") /\ <<Ends>>_onLinux => Further'
  BY DEF Linux!Join
<1>6. StepsEnabled =>
          /\ At("check") => ENABLED <<platform = "linux" /\ Linux!WorkerStep>>_onLinux
          /\ At("poll") => ENABLED <<platform = "linux" /\ Linux!WorkerStep>>_onLinux
          /\ At("iterate") => ENABLED <<platform = "linux" /\ Linux!WorkerStep>>_onLinux
          /\ At("callback") => ENABLED <<platform = "linux" /\ Linux!WorkerStep>>_onLinux
          /\ At("exited") => ENABLED <<platform = "linux" /\ Linux!Join>>_onLinux
  BY DEF StepsEnabled
<1>7. Inv /\ Here => At("check") \/ At("poll") \/ At("iterate") \/ At("callback") \/ At("exited")
  BY DEF Inv, Linux!Inv, Linux!TypeOK, Linux!Lifecycle
<1>8. Spec => /\ WF_onLinux(platform = "linux" /\ Linux!WorkerStep)
              /\ WF_onLinux(platform = "linux" /\ Linux!Join)
  BY PTL DEF Spec, Fairness, FairLinux
<1> HIDE DEF Here, At, Further
<1>9. Spec /\ []StepsEnabled /\ [][Len(queue') < Len(queue)]_queue => (Here ~> Further)
  BY <1>2, <1>4, <1>5, <1>6, <1>7, <1>8, InvHolds, PTL DEF Spec
<1> QED
  BY <1>9 DEF Here, Further
\* Threads of the Configuration Manager that are in cm_callback.
Busy == {t \in Threads : at[t] # "idle"}

\* While the notification is unregistered none enters, and those inside leave.
LEMMA WindowsDropMoves ==
  ASSUME Windows!Inv, [Windows!Next]_onWindows, owner = "dropping"
  PROVE  /\ Busy' \subseteq Busy
         /\ owner' = "dropping" \/ (owner' = "unregistered" /\ Busy = {})
         /\ \A t \in Threads : at[t] = "callback" => at'[t] \in {"callback", "idle"}
<1> USE DEF Windows!Inv, Windows!TypeOK, Windows!Lifecycle, Busy
<1>1. ASSUME NEW t \in Threads, Windows!ThreadStep(t)
      PROVE  /\ Busy' \subseteq Busy /\ owner' = owner
             /\ \A u \in Threads : at[u] = "callback" => at'[u] \in {"callback", "idle"}
  BY <1>1 DEF Windows!ThreadStep, Windows!Dispatch, Windows!CallbackReturns
<1>2. CASE Windows!OwnerStep
  BY <1>2 DEF Windows!OwnerStep, Windows!CmRegister, Windows!CmRegisterFails,
              Windows!RegisterReturns, Windows!CmUnregister, Windows!FreeCallbackData
<1>3. CASE Windows!NewCallbackData \/ Windows!BeginDrop
  BY <1>3 DEF Windows!NewCallbackData, Windows!BeginDrop
<1>4. CASE UNCHANGED onWindows
  BY <1>4 DEF onWindows, ofWindows
<1> QED
  BY <1>1, <1>2, <1>3, <1>4 DEF Windows!Next, Windows!Notify

\* A thread that goes on enters the callback or leaves.
LEMMA WindowsThreadLeads ==
  ASSUME Windows!Inv, NEW t \in Threads, Windows!ThreadStep(t)
  PROVE  /\ at[t] = "entered" => at'[t] # "entered"
         /\ at[t] = "callback" => at'[t] = "idle"
  BY DEF Windows!Inv, Windows!TypeOK, Windows!ThreadStep, Windows!Dispatch,
         Windows!CallbackReturns

\* The last two steps of the drop.
LEMMA WindowsOwnerLeads ==
  ASSUME Windows!OwnerStep
  PROVE  /\ owner = "dropping" => owner' = "unregistered"
         /\ owner = "unregistered" => owner' = "gone"
  BY DEF Windows!OwnerStep, Windows!CmRegister, Windows!CmRegisterFails,
         Windows!RegisterReturns, Windows!CmUnregister, Windows!FreeCallbackData

LEMMA WindowsUnregistered ==
  ASSUME [Windows!Next]_onWindows, owner = "unregistered"
  PROVE  owner' \in {"unregistered", "gone"}
<1>1. CASE Windows!OwnerStep
  BY <1>1, WindowsOwnerLeads
<1> QED
  BY <1>1 DEF Windows!Next, Windows!NewCallbackData, Windows!BeginDrop, Windows!ThreadStep,
              Windows!Dispatch, Windows!CallbackReturns, Windows!Notify, onWindows

\* A drop on Windows returns or waits for fewer callbacks, none of which began after
\* it; without any left it returns.
THEOREM WindowsDropAdvances ==
  ASSUME NEW B \in SUBSET Threads
  PROVE  Spec /\ []StepsEnabled =>
             (platform = "windows" /\ owner = "dropping" /\ Busy = B
                  ~> \/ owner = "gone"
                     \/ owner = "dropping" /\ Busy \subseteq B /\ Busy # B)
<1> DEFINE Here == platform = "windows" /\ owner = "dropping" /\ Busy = B
           Further == \/ owner = "gone"
                      \/ owner = "dropping" /\ Busy \subseteq B /\ Busy # B
           Unregistered == platform = "windows" /\ owner = "unregistered"
           Owner == platform = "windows" /\ Windows!OwnerStep
<1>1. Inv /\ Here /\ [Next]_vars => Here' \/ Further' \/ (Unregistered' /\ B = {})
  BY PlatformStep, WindowsDropMoves DEF Inv
<1>2. CASE B = {}
  <2>1. Unregistered /\ [Next]_vars => Unregistered' \/ Further'
    BY PlatformStep, WindowsUnregistered
  <2>2. /\ Here /\ <<Owner>>_onWindows => ~Here'
        /\ Unregistered /\ <<Owner>>_onWindows => ~Unregistered'
    BY WindowsOwnerLeads
  <2>3. StepsEnabled =>
            /\ Here => ENABLED <<platform = "windows" /\ Windows!OwnerStep>>_onWindows
            /\ Unregistered => ENABLED <<platform = "windows" /\ Windows!OwnerStep>>_onWindows
    BY <1>2 DEF StepsEnabled, Busy
  <2>4. Spec => WF_onWindows(platform = "windows" /\ Windows!OwnerStep)
    BY PTL DEF Spec, Fairness, FairOwner
  <2> HIDE DEF Here, Further, Unregistered
  <2>5. Spec /\ []StepsEnabled => (Here ~> Further)
    BY <1>1, <2>1, <2>2, <2>3, <2>4, InvHolds, PTL DEF Spec
  <2> QED
    BY <2>5 DEF Here, Further
<1>3. CASE B # {}
  <2>1. PICK t \in Threads : t \in B
    BY <1>3
  <2> DEFINE Entered == Here /\ at[t] = "entered"
             Called == Here /\ at[t] = "callback"
             Thread == platform = "windows" /\ Windows!ThreadStep(t)
  <2>2. Inv /\ Here => Entered \/ Called
    BY <2>1 DEF Inv, Windows!Inv, Windows!TypeOK, Busy
  <2>3. Inv /\ Here /\ [Next]_vars => Here' \/ Further'
    BY <1>1, <1>3
  <2>4. Inv /\ Called /\ [Next]_vars => Called' \/ Further'
    <3> SUFFICES ASSUME Inv, Called, [Next]_vars, Here' PROVE at'[t] = "callback"
      BY <2>3
    <3>1. at'[t] \in {"callback", "idle"}
      BY PlatformStep, WindowsDropMoves DEF Inv
    <3>2. at'[t] # "idle"
      BY <2>1 DEF Busy
    <3> QED
      BY <3>1, <3>2
  <2>5. Inv /\ Entered /\ <<Thread>>_onWindows => ~Entered'
    BY WindowsThreadLeads DEF Inv
  <2>6. Inv /\ Called /\ <<Thread>>_onWindows => ~Called'
    BY WindowsThreadLeads DEF Inv
  <2>7. StepsEnabled =>
            /\ Entered => ENABLED <<platform = "windows" /\ Windows!ThreadStep(t)>>_onWindows
            /\ Called => ENABLED <<platform = "windows" /\ Windows!ThreadStep(t)>>_onWindows
    BY DEF StepsEnabled
  <2>8. Fairness => FairThread(t)
    BY DEF Fairness
  <2>9. FairThread(t) => WF_onWindows(platform = "windows" /\ Windows!ThreadStep(t))
    BY PTL DEF FairThread
  <2>10. Entered \/ Called => Here
    OBVIOUS
  <2> HIDE DEF Entered, Called, Here, Further
  <2>11. Spec /\ []StepsEnabled => (Here ~> Further)
    BY <2>2, <2>3, <2>4, <2>5, <2>6, <2>7, <2>8, <2>9, <2>10, InvHolds, PTL DEF Spec
  <2> QED
    BY <2>11 DEF Here, Further
<1> QED
  BY <1>2, <1>3

\* While it is dropped, the worker is in its run loop, below it or gone.
LEMMA MacOsDropMoves ==
  ASSUME MacOs!Inv, [MacOs!Next]_onMacOs, owner = "dropping", stop = "yes"
  PROVE  /\ stop' = "yes"
         /\ worker \in {"run", "next_arrival", "next_removal", "exited"}
         /\ owner' = "dropping" \/ (owner' = "gone" /\ worker = "exited")
         /\ worker = "exited" => worker' = "exited"
<1> USE DEF MacOs!Inv, MacOs!TypeOK, MacOs!Lifecycle
<1>1. worker \in {"run", "next_arrival", "next_removal", "exited"}
  OBVIOUS
<1>2. ASSUME NEW s \in Devices, MacOs!Appear(s) \/ MacOs!Terminate(s)
      PROVE  UNCHANGED <<owner, stop, worker>>
  BY <1>2 DEF MacOs!Appear, MacOs!Terminate
<1>3. ASSUME MacOs!Setup \/ MacOs!SetupFails PROVE FALSE
  BY <1>1, <1>3 DEF MacOs!Setup, MacOs!SetupFails, MacOs!CreatePort, MacOs!AddSource,
     MacOs!AddNotification, MacOs!DrainSilently, MacOs!SendLoop, MacOs!Cleanup
<1>4. ASSUME MacOs!Loop
      PROVE  UNCHANGED <<owner, stop>> /\ worker # "exited"
  BY <1>4 DEF MacOs!Loop, MacOs!Dispatch, MacOs!NextService, MacOs!CallbackReturns,
              MacOs!DispatchEnds, MacOs!IteratorOf
<1>5. CASE MacOs!Teardown \/ MacOs!Join \/ MacOs!BeginDrop \/ MacOs!Register
  BY <1>5 DEF MacOs!Teardown, MacOs!Join, MacOs!BeginDrop, MacOs!Register
<1>6. CASE MacOs!Receive
  BY <1>6 DEF MacOs!Receive, MacOs!ReceiveLoop, MacOs!ReceiveNull
<1>7. CASE UNCHANGED onMacOs
  BY <1>7 DEF onMacOs
<1> QED
  BY <1>1, <1>2, <1>3, <1>4, <1>5, <1>6, <1>7 DEF MacOs!Next

\* A drop on macOS returns if every notification that is being dispatched comes to its
\* end, whatever is still waiting in the iterators.
THEOREM MacOsDropReturns ==
  Spec /\ []StepsEnabled /\ []<>(worker \notin {"next_arrival", "next_removal"}) =>
      (platform = "macos" /\ owner = "dropping" ~> owner = "gone")
<1> DEFINE Here == platform = "macos" /\ owner = "dropping"
           Asked == Here /\ stop = "yes"
           Loop == Asked /\ worker = "run"
           Exited == Asked /\ worker = "exited"
           Gone == owner = "gone"
           Outside == worker \notin {"next_arrival", "next_removal"}
           End == platform = "macos" /\ MacOs!Teardown
           Ends == platform = "macos" /\ MacOs!Join
           StopInv == Here => stop = "yes"
<1>1. Init => StopInv
  BY DEF Init, MacOs!Init
<1>2. StopInv /\ [Next]_vars => StopInv'
  <2> SUFFICES ASSUME StopInv, [Next]_vars, Here' PROVE stop' = "yes"
    OBVIOUS
  <2>1. platform = "macos" /\ [MacOs!Next]_onMacOs
    BY PlatformStep
  <2>2. CASE owner = "dropping"
    BY <2>1, <2>2
       DEF MacOs!Next, MacOs!Appear, MacOs!Terminate, MacOs!Register, MacOs!Receive,
           MacOs!ReceiveLoop, MacOs!ReceiveNull, MacOs!BeginDrop, MacOs!Join, MacOs!Setup,
           MacOs!CreatePort, MacOs!AddSource, MacOs!AddNotification, MacOs!DrainSilently,
           MacOs!SendLoop, MacOs!SetupFails, MacOs!Loop, MacOs!Dispatch, MacOs!NextService,
           MacOs!CallbackReturns, MacOs!DispatchEnds, MacOs!Teardown, onMacOs
  <2>3. CASE owner # "dropping"
    BY <2>1, <2>3
       DEF MacOs!Next, MacOs!Appear, MacOs!Terminate, MacOs!Register, MacOs!Receive,
           MacOs!ReceiveLoop, MacOs!ReceiveNull, MacOs!BeginDrop, MacOs!Join, MacOs!Setup,
           MacOs!CreatePort, MacOs!AddSource, MacOs!AddNotification, MacOs!DrainSilently,
           MacOs!SendLoop, MacOs!SetupFails, MacOs!Loop, MacOs!Dispatch, MacOs!NextService,
           MacOs!CallbackReturns, MacOs!DispatchEnds, MacOs!Teardown, onMacOs
  <2> QED
    BY <2>2, <2>3
<1>3. Spec => []StopInv
  BY <1>1, <1>2, PTL DEF Spec
<1>4. Inv /\ Asked /\ [Next]_vars => Asked' \/ Gone'
  BY PlatformStep, MacOsDropMoves DEF Inv
<1>5. Inv /\ Exited /\ [Next]_vars => Exited' \/ Gone'
  BY PlatformStep, MacOsDropMoves DEF Inv
<1>6. Asked /\ <<End>>_onMacOs => worker' = "exited"
  BY DEF MacOs!Teardown
<1>7. Exited /\ <<Ends>>_onMacOs => Gone'
  BY DEF MacOs!Join
<1>8. Inv /\ Asked /\ Outside => Loop \/ Exited
  BY DEF Inv, MacOs!Inv, MacOs!TypeOK, MacOs!Lifecycle
<1>9. StepsEnabled => /\ Loop => ENABLED <<platform = "macos" /\ MacOs!Teardown>>_onMacOs
                      /\ Exited => ENABLED <<platform = "macos" /\ MacOs!Join>>_onMacOs
  BY DEF StepsEnabled
<1>10. Inv /\ [Next]_vars /\ Asked /\ <<End>>_onMacOs => Exited' \/ Gone'
  BY <1>4, <1>6
<1>11. Spec => /\ SF_onMacOs(platform = "macos" /\ MacOs!Teardown)
               /\ WF_onMacOs(platform = "macos" /\ MacOs!Join)
  BY PTL DEF Spec, Fairness, FairMacOs
<1>12. StopInv /\ Here => Asked
  OBVIOUS
<1> HIDE DEF Here, Asked, Loop, Exited, Gone, Outside, StopInv
<1>13. Spec /\ []StepsEnabled /\ []<>Outside => (Here ~> Gone)
  BY <1>3, <1>4, <1>5, <1>7, <1>8, <1>9, <1>10, <1>11, <1>12, InvHolds, PTL DEF Spec
<1> QED
  BY <1>13 DEF Here, Gone, Outside
=============================================================================
