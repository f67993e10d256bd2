----------------------------- MODULE LinuxIsoch -----------------------------
(***************************************************************************)
(* isoch_transfer of backend/linux.rs: a buffer is cut into packets, one   *)
(* URB that lives in the function's own stack frame is submitted to        *)
(* usbdevfs, and one completed URB is reaped.  A reap that fails, or that  *)
(* returns another URB, ends the call with an error while the kernel still *)
(* has the URB; the frame of a later call may be at the same address.      *)
(*                                                                         *)
(* External: usbdevfs hands completed URBs of the file out one at a time   *)
(* and identifies each by the address it was submitted with; the reap is   *)
(* interrupted by signals.                                                 *)
(***************************************************************************)
EXTENDS Integers, FiniteSets, FiniteSetsExt

CONSTANTS
    Lengths,        \* lengths of the buffers callers pass
    PacketSizes,    \* max_packet_size values the endpoint cache may hold
    DefaultSize,    \* packet size taken when there is none (1024 in the code)
    MaxPackets,     \* MAX_ISO_PACKETS
    Frames,         \* addresses the stack frame of a call may have
    MaxUrbs         \* bound on the URBs submitted in a behaviour

VARIABLES
    pc,         \* "idle", "submit" or "reap"
    length,     \* length of the buffer of the running call
    hint,       \* packet_hint
    frame,      \* address of its URB
    urbs,       \* the kernel's URBs: [id, at, state]
    count,      \* URBs submitted; the last one is the running call's
    reaped,     \* id of the URB the last call took its answer from, or 0
    result,     \* "none", "ok" or "err"
    broken      \* "yes" once a reap failed or returned another URB

vars == <<pc, length, hint, frame, urbs, count, reaped, result, broken>>

\* States a URB the kernel has can be in.
UrbStates == {"pending", "ok", "failed"}
Urbs == [id : 1 .. MaxUrbs, at : Frames, state : UrbStates]

-----------------------------------------------------------------------------
(* Packets                                                                 *)

PacketHint(size) == IF size > 0 THEN size ELSE DefaultSize
NumPackets(len, size) == (len + size - 1) \div size
\* Fault: the remainder of the division is not distributed.
PacketLengthRounded(len, n, i) == len \div n

PacketLength(len, n, i) == len \div n + IF i < len % n THEN 1 ELSE 0

-----------------------------------------------------------------------------
Init ==
    /\ pc = "idle"
    /\ length = 0
    /\ hint = DefaultSize
    /\ frame \in Frames
    /\ urbs = {}
    /\ count = 0
    /\ reaped = 0
    /\ result = "none"
    /\ broken = "no"

Return(r) == result' = r /\ pc' = "idle"

\* An empty buffer is a success and too many packets an error, both before
\* anything is submitted.
Call(len, size, at) ==
    /\ pc = "idle"
    /\ length' = len
    /\ hint' = PacketHint(size)
    /\ frame' = at
    /\ reaped' = 0
    /\ CASE len = 0 -> Return("ok")
         [] len > 0 /\ NumPackets(len, PacketHint(size)) > MaxPackets -> Return("err")
         [] OTHER -> pc' = "submit" /\ result' = "none"
    /\ UNCHANGED <<urbs, count, broken>>

\* Fault: the URB is submitted again before it is reaped.
SubmitTwice ==
    /\ pc = "submit"
    /\ count + 1 < MaxUrbs
    /\ count' = count + 2
    /\ urbs' = urbs \cup {[id |-> k, at |-> frame, state |-> "pending"] :
                              k \in {count + 1, count + 2}}
    /\ pc' = "reap"
    /\ UNCHANGED <<length, hint, frame, reaped, result, broken>>

\* USBDEVFS_SUBMITURB
Submit ==
    /\ pc = "submit"
    /\ count < MaxUrbs
    /\ count' = count + 1
    /\ urbs' = urbs \cup {[id |-> count + 1, at |-> frame, state |-> "pending"]}
    /\ pc' = "reap"
    /\ UNCHANGED <<length, hint, frame, reaped, result, broken>>

SubmitFails ==
    /\ pc = "submit"
    /\ Return("err")
    /\ UNCHANGED <<length, hint, frame, urbs, count, reaped, broken>>

\* The host controller finishes a URB, with or without an error.
Complete(u, s) ==
    /\ u.state = "pending"
    /\ s # "pending"
    /\ urbs' = (urbs \ {u}) \cup {[u EXCEPT !.state = s]}
    /\ UNCHANGED <<pc, length, hint, frame, count, reaped, result, broken>>

\* USBDEVFS_REAPURB returned a URB that was submitted from this address.
ReapExpected(u) ==
    /\ pc = "reap"
    /\ u.state # "pending"
    /\ u.at = frame
    /\ urbs' = urbs \ {u}
    /\ reaped' = u.id
    /\ Return(IF u.state = "ok" THEN "ok" ELSE "err")
    /\ UNCHANGED <<length, hint, frame, count, broken>>

\* "reaped unexpected URB pointer"
ReapUnexpected(u) ==
    /\ pc = "reap"
    /\ u.state # "pending"
    /\ u.at # frame
    /\ urbs' = urbs \ {u}
    /\ Return("err")
    /\ broken' = "yes"
    /\ UNCHANGED <<length, hint, frame, count, reaped>>

\* A signal, or another error of the reap.
ReapFails ==
    /\ pc = "reap"
    /\ Return("err")
    /\ broken' = "yes"
    /\ UNCHANGED <<length, hint, frame, urbs, count, reaped>>

-----------------------------------------------------------------------------
Reap == \E u \in urbs : ReapExpected(u) \/ ReapUnexpected(u)

Next ==
    \/ \E len \in Lengths, size \in PacketSizes, at \in Frames : Call(len, size, at)
    \/ Submit
    \/ SubmitFails
    \/ \E u \in urbs, s \in UrbStates : Complete(u, s)
    \/ Reap
    \/ ReapFails

Spec == Init /\ [][Next]_vars

-----------------------------------------------------------------------------
(* Properties                                                              *)

\* Every variable holds a value of its kind.
TypeOK ==
    /\ pc \in {"idle", "submit", "reap"}
    /\ length \in Lengths \cup {0}
    /\ hint \in Nat \ {0}
    /\ frame \in Frames
    /\ urbs \subseteq Urbs
    /\ count \in 0 .. MaxUrbs
    /\ reaped \in 0 .. MaxUrbs
    /\ result \in {"none", "ok", "err"}
    /\ broken \in {"yes", "no"}

\* What the n packets of a buffer of length len hold together.
PacketsTotal(len, n) ==
    MapThenSumSet(LAMBDA i : PacketLength(len, n, i), 0 .. n - 1)

\* The packets of a request that is submitted cover the buffer exactly and none
\* is longer than the packet size, nor empty.
PacketsCoverBuffer ==
    pc \in {"submit", "reap"} =>
        LET n == NumPackets(length, hint)
        IN  /\ n \in 1 .. MaxPackets
            /\ \A i \in 0 .. n - 1 : PacketLength(length, n, i) \in 1 .. hint
            /\ PacketsTotal(length, n) = length

\* Until a reap goes wrong, the answer of a call is that of its own URB, and no
\* URB points into the dead frame of a call that has returned.
AnswersFromOwnUrb ==
    broken = "no" /\ pc = "idle" =>
        /\ urbs = {}
        /\ reaped # 0 => reaped = count

\* "reaped unexpected URB pointer" (linux.rs:583): a call does not take another
\* URB's completion for its own.
OkReapsOwnUrb == pc = "idle" /\ result = "ok" /\ reaped # 0 => reaped = count
=============================================================================
