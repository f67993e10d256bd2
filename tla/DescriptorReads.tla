--------------------------- MODULE DescriptorReads ---------------------------
(***************************************************************************)
(* Control transfers on endpoint 0 and the calls made of them: the         *)
(* descriptor reads of the three backends, control_transfer and the        *)
(* GET_INTERFACE of get_alternate_setting.  A configuration or a Binary    *)
(* Object Store is read twice, the second time as long as the first answer *)
(* said, and then parsed (Config, Bos).                                    *)
(*                                                                         *)
(* A device may answer any request with as many bytes as it likes, up to   *)
(* what was asked for, may tell another total length the second time, and  *)
(* may fail.  Contents matter only where the code looks at them.           *)
(***************************************************************************)
EXTENDS Integers, Sequences

CONSTANTS
    BufferLengths,  \* of buffers a caller hands to a from_bytes
    TotalLengths,   \* values of wTotalLength
    ByteLengths,    \* bLength in a configuration
    CapLengths,     \* bLength in a Binary Object Store
    Answers,        \* lengths of short answers
    SetupLengths,   \* wLength of a caller's ControlSetup
    Rooms,          \* lengths of a caller's data buffer
    Timeouts,       \* a caller's timeout, in microseconds
    BosLimit        \* 4096 in the code

ASSUME ReadsAssumption ==
    /\ BufferLengths \cup TotalLengths \cup Answers \cup SetupLengths
           \cup Rooms \cup Timeouts \subseteq Nat
    /\ ByteLengths \subseteq Nat /\ 0 \in ByteLengths
    /\ CapLengths \subseteq Nat /\ CapLengths # {}
    /\ BosLimit \in Nat

VARIABLES
    platform,       \* "windows", "linux" or "macos"
    call,           \* what is being done, "none" at first
    asked, room,    \* wLength of the request on its way, bytes of its buffer
    timeout,        \* microseconds the caller, or the call, allows
    deadline,       \* milliseconds the request may take; 0 is for ever
    ep0,            \* Windows: PIPE_TRANSFER_TIMEOUT of the control pipe
    policy,         \* what became of that timeout of the request: "none" where
                    \* none was to be set, "set", or "refused" by the driver
    used,           \* bytes decoded of an answer that is not parsed
    sent,           \* bytes the device sent
    pc,             \* "idle", "first", "second", "ok", "err", and the parsers'
    length, end, pos, chain, interfaces, capabilities

parsing == <<length, end, pos, chain, interfaces, capabilities>>
requesting == <<asked, room, timeout, deadline, ep0, policy>>
readVars == <<platform, call, requesting, used, sent, pc, parsing>>

Config == INSTANCE ConfigDescriptor
Bos == INSTANCE BosDescriptor WITH ByteLengths <- CapLengths

Platforms == {"windows", "linux", "macos"}
Word == 65536

\* wLength of the first request of each call.
FirstLength ==
    [device |-> 18, config |-> 9, string |-> 255, bos |-> 5, hub |-> 71, setting |-> 1]

\* The calls made of requests to the device.  On Windows get_alternate_setting
\* asks the driver, and only Windows reads a Binary Object Store or a hub.
Calls(p) == {"device", "config", "string"}
                \cup (IF p = "windows" THEN {"bos", "hub"} ELSE {"setting"})

\* Milliseconds that each call allows a request.
TimeLimit(c) == IF platform = "windows" \/ (c = "setting" /\ platform = "linux")
                THEN 1000 ELSE 5000

-----------------------------------------------------------------------------
ReadInit ==
    /\ platform \in Platforms
    /\ call = "none"
    /\ asked = 0 /\ room = 0 /\ timeout = 0 /\ deadline = 0
    /\ ep0 = 5000 /\ policy = "none"
    /\ used = 0
    /\ pc = "idle"
    /\ length = 0 /\ sent = 0 /\ end = 0 /\ pos = 0
    /\ chain = <<>> /\ interfaces = <<>> /\ capabilities = <<>>

\* WinUsb_SetPipePolicy on the control pipe, unless the timeout is zero.  The
\* driver may refuse it, which leaves the timeout of an earlier call:
\* do_control_transfer discards the result and sends the request all the same.
SetControlPolicy(ms) ==
    \/ ms = 0 /\ policy' = "none" /\ UNCHANGED ep0
    \/ ms > 0 /\ policy' = "set" /\ ep0' = ms
    \/ ms > 0 /\ policy' = "refused" /\ UNCHANGED ep0

\* Fault: do_control_transfer sets the policy after the transfer.
SetTimeoutAfter(ms) ==
    IF platform = "windows"
    THEN SetControlPolicy(ms) /\ deadline' = ep0
    ELSE deadline' = ms /\ UNCHANGED <<ep0, policy>>

\* A Windows request runs under the timeout the pipe then has; the others hand
\* each request its own.
SetTimeout(ms) ==
    IF platform = "windows"
    THEN SetControlPolicy(ms) /\ deadline' = ep0'
    ELSE deadline' = ms /\ UNCHANGED <<ep0, policy>>

\* Fault: raw_control sends the wLength of the setup packet.
RequestAsSetup(wLength, space, ms) ==
    /\ asked' = wLength
    /\ room' = space
    /\ SetTimeout(ms)

\* do_control_transfer sends the wLength it is given, raw_control the length of
\* its buffer as a 16-bit number.
Request(wLength, space, ms) ==
    /\ asked' = IF platform = "windows" THEN wLength ELSE space % Word
    /\ room' = space
    /\ SetTimeout(ms)

Smaller(a, b) == IF a <= b THEN a ELSE b

\* How many bytes may come of a request.
Comes(n) ==
    LET most == Smaller(asked, room)
    IN  n = most \/ (n \in Answers /\ n < most)

\* n bytes have come, and the call ends with `result'.
Answered(n, result) ==
    /\ Comes(n)
    /\ sent' = n
    /\ pc' = result
    /\ UNCHANGED <<platform, call, requesting, parsing>>

-----------------------------------------------------------------------------
(* Requests                                                                *)

BeginRead(c) ==
    /\ pc = "idle"
    /\ c \in Calls(platform)
    /\ call' = c
    /\ pc' = "first"
    /\ Request(FirstLength[c], FirstLength[c], TimeLimit(c))
    /\ timeout' = 1000 * TimeLimit(c)
    /\ UNCHANGED <<platform, used, sent, parsing>>

\* The device refuses, is gone, or does not answer in time.
RequestFails ==
    /\ pc \in {"first", "second"}
    /\ pc' = "err"
    /\ UNCHANGED <<platform, call, requesting, used, sent, parsing>>

\* An answer the call does not accept: too short, or not what it asked for.  A
\* setting is one byte of any value.
Malformed(n) ==
    /\ pc = "first"
    /\ call # "control"
    /\ call = "setting" => n < 1
    /\ Answered(n, "err")
    /\ UNCHANGED used

\* Every byte of the buffer is decoded; Windows does not look at how many came,
\* beyond the type.
DeviceRead(n) ==
    /\ pc = "first" /\ call = "device"
    /\ IF platform = "windows" THEN n >= 2 ELSE n >= FirstLength["device"]
    /\ used' = FirstLength["device"]
    /\ Answered(n, "ok")

\* b is the bLength of the string, which must have come whole.
StringRead(n, b) ==
    /\ pc = "first" /\ call = "string"
    /\ n >= 2 /\ b >= 2 /\ b <= n
    /\ used' = b
    /\ Answered(n, "ok")

HubRead(n) ==
    /\ pc = "first" /\ call = "hub"
    /\ n >= 9
    /\ used' = 9
    /\ Answered(n, "ok")

SettingRead(n) ==
    /\ pc = "first" /\ call = "setting"
    /\ n >= 1
    /\ used' = 1
    /\ Answered(n, "ok")

\* The first pass gave wTotalLength; Windows takes what did not come for zero.
ConfigHeader(n, total) ==
    /\ pc = "first" /\ call = "config"
    /\ Comes(n)
    /\ platform # "windows" => n >= 9
    /\ Config!TotalOf(n, total)
    /\ total >= 9
    /\ pc' = "second"
    /\ Request(total, total, TimeLimit(call))
    /\ sent' = n
    /\ UNCHANGED <<platform, call, timeout, used, parsing>>

BosHeader(n, total) ==
    /\ pc = "first" /\ call = "bos"
    /\ Comes(n)
    /\ n >= 5
    /\ pc' = "second"
    /\ Request(Smaller(total, BosLimit), Smaller(total, BosLimit), TimeLimit(call))
    /\ sent' = n
    /\ UNCHANGED <<platform, call, timeout, used, parsing>>

-----------------------------------------------------------------------------
(* Parsing                                                                 *)

\* A buffer of so many bytes, of which `came' came from the device, goes to the
\* from_bytes of descriptor kind c.
Parse(c, bytes, came) ==
    /\ call' = c
    /\ pc' = "start"
    /\ length' = bytes
    /\ sent' = came
    /\ pos' = IF c = "config" THEN Config!HeaderLength ELSE Bos!HeaderLength
    /\ UNCHANGED <<platform, requesting, used, end, chain, interfaces, capabilities>>

\* A configuration is parsed from its whole buffer, zero where nothing came; a
\* Binary Object Store from what came.
SecondRead(n) ==
    /\ pc = "second"
    /\ Comes(n)
    /\ Parse(call, IF call = "config" THEN room ELSE n, n)

\* from_bytes is public: a caller may have the bytes from elsewhere.
ParseBytes(c, bytes) ==
    /\ pc = "idle"
    /\ c \in {"config", "bos"}
    /\ Parse(c, bytes, bytes)

ConfigStep ==
    /\ call = "config"
    /\ Config!Next
    /\ UNCHANGED <<platform, call, requesting, used, capabilities>>

BosStep ==
    /\ call = "bos"
    /\ Bos!Next
    /\ UNCHANGED <<platform, call, requesting, used, sent, interfaces>>

-----------------------------------------------------------------------------
(* Control transfers of the caller                                         *)

Milliseconds(us) == us \div 1000

BeginControl(wLength, space, us) ==
    /\ pc = "idle"
    /\ call' = "control"
    /\ pc' = "first"
    /\ Request(wLength, space, Milliseconds(us))
    /\ timeout' = us
    /\ UNCHANGED <<platform, used, sent, parsing>>

\* With a buffer of the caller's.
ControlWithData(wLength, space, us) == BeginControl(wLength, space, us)

\* Without one: Windows hands over an empty one, the others send wLength zero
\* bytes, and refuse to receive.
ControlOut(wLength, us) ==
    BeginControl(wLength, IF platform = "windows" THEN 0 ELSE wLength, us)

ControlIn(wLength, us) ==
    /\ pc = "idle"
    /\ IF platform = "windows"
       THEN BeginControl(wLength, 0, us)
       ELSE /\ call' = "control"
            /\ pc' = "err"
            /\ UNCHANGED <<platform, requesting, used, sent, parsing>>

ControlEnds(n) ==
    /\ pc = "first" /\ call = "control"
    /\ used' = n
    /\ Answered(n, "ok")

\* set_pipe_policy sets the timeout of the Windows control pipe as of any other;
\* where the driver refuses, nothing changes.
SetControlTimeout(ms) ==
    /\ platform = "windows" /\ pc = "idle"
    /\ ep0' = ms
    /\ UNCHANGED <<platform, call, asked, room, timeout, deadline, policy, used, sent, pc, parsing>>

\* The caller has the result; the timeout of the Windows pipe stays.
Return ==
    /\ pc \in {"ok", "err"}
    /\ call' = "none" /\ pc' = "idle" /\ used' = 0
    /\ asked' = 0 /\ room' = 0 /\ timeout' = 0 /\ deadline' = 0 /\ policy' = "none"
    /\ length' = 0 /\ sent' = 0 /\ end' = 0 /\ pos' = 0
    /\ chain' = <<>> /\ interfaces' = <<>> /\ capabilities' = <<>>
    /\ UNCHANGED <<platform, ep0>>

-----------------------------------------------------------------------------
\* What an answer may be as long as.
Lengths == Answers \cup {Smaller(asked, room)}

Answer(n) ==
    \/ Malformed(n)
    \/ DeviceRead(n)
    \/ \E b \in {2, n} : StringRead(n, b)
    \/ HubRead(n)
    \/ SettingRead(n)
    \/ \E total \in TotalLengths : ConfigHeader(n, total) \/ BosHeader(n, total)
    \/ SecondRead(n)
    \/ ControlEnds(n)

RequestEnds == RequestFails \/ \E n \in Lengths : Answer(n)

Begin ==
    \/ \E c \in Calls(platform) : BeginRead(c)
    \/ \E c \in {"config", "bos"}, bytes \in BufferLengths : ParseBytes(c, bytes)
    \/ \E wLength \in SetupLengths, us \in Timeouts :
           \/ \E space \in Rooms : ControlWithData(wLength, space, us)
           \/ ControlOut(wLength, us)
           \/ ControlIn(wLength, us)

ReadNext ==
    \/ Begin
    \/ RequestEnds
    \/ ConfigStep
    \/ BosStep
    \/ \E us \in Timeouts : SetControlTimeout(Milliseconds(us))
    \/ Return

\* The driver ends a request within its deadline, and a parser does not stop.
ReadFairness ==
    /\ WF_readVars(deadline > 0 /\ RequestEnds)
    /\ WF_readVars(ConfigStep)
    /\ WF_readVars(BosStep)

ReadSpec == ReadInit /\ [][ReadNext]_readVars /\ ReadFairness

-----------------------------------------------------------------------------
(* Properties                                                              *)

ReadTypeOK ==
    /\ platform \in Platforms
    /\ call \in {"none", "control"} \cup DOMAIN FirstLength
    /\ {asked, room, timeout, deadline, ep0, used, sent, length, end, pos} \subseteq Nat
    /\ policy \in {"none", "set", "refused"}
    /\ pc \in {"idle", "first", "second", "start", "walk", "ok", "err"}

\* Whatever a device answers, however short and whatever lengths it claims,
\* neither parser reads outside the buffer, behind wTotalLength or behind the
\* end of the descriptor it decodes (descriptor.rs:78 and :385): the slices
\* there would panic.
ReadsInBounds ==
    /\ call = "config" => Config!ReadsInBounds
    /\ call = "bos" => Bos!ReadsInBounds

\* What the parsers return is what the descriptors they passed mean, each
\* attached where it belongs.
ParsedAsDefined ==
    pc \in {"start", "walk", "ok"} =>
        /\ call = "config" => Config!ParsedAsDefined
        /\ call = "bos" => Bos!ParsedAsDefined

\* A request never asks for more than its buffer holds on Linux and macOS, and
\* what a call returns as read was sent by the device.  Two calls accept a
\* short answer: read_device_descriptor on Windows (windows.rs:700) decodes 18
\* bytes whatever came, and a configuration may end in one descriptor that came
\* in part, the rest of it zero.
DecodedWasSent ==
    /\ platform # "windows" => asked <= room
    /\ call = "config" => Config!OnlyTheTailIsMadeUp
    /\ pc \in {"walk", "ok"} /\ call = "bos" => end <= sent
    /\ pc = "ok" /\ call \notin {"config", "bos"} =>
           \/ used <= sent
           \/ call = "device" /\ platform = "windows"
=============================================================================
