--------------------------- MODULE IsochTransfers ---------------------------
(***************************************************************************)
(* The isochronous transfers of the crate as it is built: the Windows      *)
(* backend has them on registered buffers, the Linux backend on usbdevfs   *)
(* URBs, and no other has any.  The platform is fixed when a behaviour     *)
(* begins; the state of the one that is not built stays as it is.          *)
(***************************************************************************)
EXTENDS Integers

CONSTANTS
    Lengths,                            \* lengths of the buffers callers pass
    MaxEvents, MaxBuffers,              \* bounds of Windows
    PacketSizes, DefaultSize,           \* packet sizes of Linux
    MaxPackets, Frames, MaxUrbs         \* limits of Linux

ASSUME IsochAssumption ==
    /\ Lengths \subseteq Nat
    /\ MaxEvents \in Nat \ {0}
    /\ MaxBuffers \in Nat \ {0}
    /\ PacketSizes \subseteq Nat
    /\ DefaultSize \in Nat \ {0}
    /\ MaxPackets \in Nat \ {0}
    /\ MaxUrbs \in Nat

VARIABLES
    platform,                                   \* "windows" or "linux"
    pc, length, result,                         \* of both
    io, moved, registered, events, before,      \* of Windows
    hint, frame, urbs, count, reaped, broken    \* of Linux

ofWindows == <<io, moved, registered, events, before>>
ofLinux == <<hint, frame, urbs, count, reaped, broken>>
vars == <<platform, pc, length, result, ofWindows, ofLinux>>

Windows == INSTANCE IsochTransfer
Linux == INSTANCE LinuxIsoch

-----------------------------------------------------------------------------
NoWindows ==
    /\ io = "none"
    /\ moved = 0
    /\ registered = 0
    /\ events = 0
    /\ before = <<0, 0>>
NoLinux ==
    /\ hint = DefaultSize
    /\ frame = CHOOSE f \in Frames : TRUE
    /\ urbs = {}
    /\ count = 0
    /\ reaped = 0
    /\ broken = "no"

Init ==
    \/ platform = "windows" /\ Windows!Init /\ NoLinux
    \/ platform = "linux" /\ Linux!Init /\ NoWindows

Next ==
    /\ \/ platform = "windows" /\ Windows!Next /\ UNCHANGED ofLinux
       \/ platform = "linux" /\ Linux!Next /\ UNCHANGED ofWindows
    /\ UNCHANGED platform

Spec == Init /\ [][Next]_vars

-----------------------------------------------------------------------------
(* Properties                                                              *)

\* Windows: the kernel works on the caller's buffer only while the call has it
\* registered and its event open, and is done with it when the function
\* returns, from whatever branch of it (windows.rs:1293).
BufferRegisteredWhilePending ==
    platform = "windows" => Windows!BufferRegisteredWhilePending

\* Windows: a transfer that succeeds reports what was moved and leaves the
\* registrations and the events as it found them.
OkLeavesNothing == platform = "windows" => Windows!OkLeavesNothing

\* Linux: whatever the length of the buffer and the packet size the endpoint
\* cache has, the packets of a URB cover the buffer exactly, are within the
\* limit, and none is empty or too long (linux.rs:565).
PacketsCoverBuffer == platform = "linux" => Linux!PacketsCoverBuffer

\* Linux: as long as no reap was interrupted or returned a stranger, a call is
\* answered by the URB it submitted, and leaves none with the kernel that would
\* point into its dead stack frame.
AnswersFromOwnUrb == platform = "linux" => Linux!AnswersFromOwnUrb
=============================================================================
