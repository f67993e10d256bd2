---------------------------- MODULE BosDescriptor ----------------------------
(***************************************************************************)
(* BosDescriptor::from_bytes of core/descriptor.rs: the walk over the      *)
(* descriptors that follow the 5-byte header of a Binary Object Store.     *)
(* Each starts with its length, its descriptor type and its capability     *)
(* type; those that are device capabilities become a capability of the     *)
(* result, one that is too short for its type an unknown one.              *)
(*                                                                         *)
(* As in ConfigDescriptor, lengths and types are chosen when the walk      *)
(* reads them, and a descriptor is named by its position.  Every byte of   *)
(* the buffer came from the device.                                        *)
(***************************************************************************)
EXTENDS Integers, Sequences

CONSTANTS
    BufferLengths,  \* buf.len(): lengths of the buffers
    TotalLengths,   \* values of wTotalLength
    ByteLengths     \* values of bLength, 0 .. 255 in the code

VARIABLES
    pc,             \* "start", "walk", "ok" or "err"
    length,         \* buf.len()
    end,            \* the walk stops before this position
    pos,            \* position of the walk
    chain,          \* the descriptors passed: [at, length, type]
    capabilities    \* [at, kind, bytes]: `bytes' of the descriptor are decoded

vars == <<pc, length, end, pos, chain, capabilities>>

HeaderLength == 5

\* Bytes of the descriptor that decoding each capability takes.
Minimum == [usb20 |-> 7, superspeed |-> 10, container |-> 20]

\* "unknown" is any other device capability, "other" any other descriptor.
Types == DOMAIN Minimum \cup {"unknown", "other"}

Smaller(a, b) == IF a <= b THEN a ELSE b

-----------------------------------------------------------------------------
\* Fault: a capability is decoded however short it is.
DecodeShort(at, l, t) ==
    IF t \in DOMAIN Minimum
    THEN [at |-> at, kind |-> t, bytes |-> Minimum[t]]
    ELSE [at |-> at, kind |-> "unknown", bytes |-> l]

Decode(at, l, t) ==
    IF t \in DOMAIN Minimum /\ l >= Minimum[t]
    THEN [at |-> at, kind |-> t, bytes |-> Minimum[t]]
    ELSE [at |-> at, kind |-> "unknown", bytes |-> l]

Init ==
    /\ pc = "start"
    /\ length \in BufferLengths
    /\ end = 0
    /\ pos = HeaderLength
    /\ chain = <<>>
    /\ capabilities = <<>>

\* Too short for the header, or not a BOS descriptor.
HeaderFails ==
    /\ pc = "start"
    /\ pc' = "err"
    /\ UNCHANGED <<length, end, pos, chain, capabilities>>

Header(total) ==
    /\ pc = "start"
    /\ length >= HeaderLength
    /\ end' = Smaller(total, length)
    /\ pc' = "walk"
    /\ UNCHANGED <<length, pos, chain, capabilities>>

HasHeader == pos + 3 <= end

Visit(l, t) ==
    /\ pc = "walk"
    /\ HasHeader
    /\ l >= 3
    /\ pos + l <= end
    /\ capabilities' = IF t = "other" THEN capabilities
                                      ELSE Append(capabilities, Decode(pos, l, t))
    /\ chain' = Append(chain, [at |-> pos, length |-> l, type |-> t])
    /\ pos' = pos + l
    /\ UNCHANGED <<pc, length, end>>

\* No room for another header, or a length that cannot be right.
Finish(l) ==
    /\ pc = "walk"
    /\ HasHeader => l < 3 \/ pos + l > end
    /\ pc' = "ok"
    /\ UNCHANGED <<length, end, pos, chain, capabilities>>

-----------------------------------------------------------------------------
Walk == \E l \in ByteLengths : Finish(l) \/ \E t \in Types : Visit(l, t)

Next ==
    \/ HeaderFails
    \/ \E total \in TotalLengths : Header(total)
    \/ Walk

Spec == Init /\ [][Next]_vars

-----------------------------------------------------------------------------
(* Properties                                                              *)

Descriptors == [at : Nat, length : Nat, type : Types]
Capabilities == [at : Nat, kind : Types, bytes : Nat]

\* Every variable holds a value of its kind.
TypeOK ==
    /\ length \in Nat
    /\ end \in Nat
    /\ pos \in Nat
    /\ chain \in Seq(Descriptors)
    /\ capabilities \in Seq(Capabilities)

\* The walk stays in the buffer and before wTotalLength, and no capability is
\* decoded from bytes behind the end of its descriptor.
ReadsInBounds ==
    /\ end <= length
    /\ \A k \in DOMAIN chain :
           HeaderLength <= chain[k].at /\ chain[k].at + chain[k].length <= end
    /\ \A k \in DOMAIN capabilities : capabilities[k].at + capabilities[k].bytes <= end

\* The descriptors passed follow one another without a gap.
Contiguous ==
    /\ \A k \in DOMAIN chain :
           chain[k].at + chain[k].length =
               IF k = Len(chain) THEN pos ELSE chain[k + 1].at
    /\ chain = <<>> => pos = HeaderLength

\* A capability of the type of its descriptor if that is long enough for it, and
\* of no more bytes.
DecodedFrom(c, d) ==
    /\ c.at = d.at
    /\ c.bytes <= d.length
    /\ c.kind # d.type => c.kind = "unknown" /\ d.length < Minimum[d.type]

\* The result has one capability for each device capability descriptor of the
\* walk, decoded from it, in their order.
ParsedAsDefined ==
    LET described == {m \in DOMAIN chain : chain[m].type # "other"}
    IN  /\ Contiguous
        /\ \A m \in described : \E k \in DOMAIN capabilities :
               DecodedFrom(capabilities[k], chain[m])
        /\ \A k \in DOMAIN capabilities : \E m \in described :
               DecodedFrom(capabilities[k], chain[m])
        /\ \A j, k \in DOMAIN capabilities : j < k => capabilities[j].at < capabilities[k].at
=============================================================================
