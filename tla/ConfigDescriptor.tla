-------------------------- MODULE ConfigDescriptor --------------------------
(***************************************************************************)
(* ConfigDescriptor::from_bytes of core/descriptor.rs: the walk over the   *)
(* descriptors that follow the 9-byte header of a configuration, each of   *)
(* which starts with its length and its type.  Interfaces are collected;   *)
(* endpoints, HID descriptors and SuperSpeed companions are attached to    *)
(* the last interface, or to its last endpoint.                            *)
(*                                                                         *)
(* The bytes come from the device and are arbitrary, but only the first    *)
(* `sent' of the buffer came: the rest is zero.  The walk reads each       *)
(* position once, so the length and type it finds there are chosen when it *)
(* gets there.  A descriptor is named by its position; its other fields    *)
(* are copied out of its slice and are not modelled.                       *)
(***************************************************************************)
EXTENDS Integers, Sequences

CONSTANTS
    BufferLengths,  \* buf.len(): lengths of the buffers
    TotalLengths,   \* values of wTotalLength
    ByteLengths     \* values of bLength, 0 .. 255 in the code

VARIABLES
    pc,         \* "start", "walk", "ok" or "err"
    length,     \* buf.len()
    sent,       \* bytes of the buffer the device sent
    end,        \* the walk stops before this position
    pos,        \* position of the walk
    chain,      \* the descriptors passed: [at, length, type]
    interfaces  \* [at, endpoints, hid], endpoints being [at, companion]; a
                \* missing HID descriptor or companion is 0

vars == <<pc, length, sent, end, pos, chain, interfaces>>

HeaderLength == 9
Minimum == [interface |-> 9, endpoint |-> 7, hid |-> 9, companion |-> 6, other |-> 2]
Types == DOMAIN Minimum

Smaller(a, b) == IF a <= b THEN a ELSE b
SetLast(s, v) == [s EXCEPT ![Len(s)] = v]

-----------------------------------------------------------------------------
(* Attaching a descriptor                                                  *)

NewInterface(at) == [at |-> at, endpoints |-> <<>>, hid |-> 0]
NewEndpoint(at) == [at |-> at, companion |-> 0]

AttachEndpoint(s, at) ==
    IF s = <<>> THEN s
    ELSE SetLast(s, [s[Len(s)] EXCEPT !.endpoints = Append(@, NewEndpoint(at))])

AttachHid(s, at) == IF s = <<>> THEN s ELSE SetLast(s, [s[Len(s)] EXCEPT !.hid = at])

\* Fault: companions go to the first endpoint of the interface.
AttachCompanionToFirst(s, at) ==
    IF s = <<>> THEN s
    ELSE IF s[Len(s)].endpoints = <<>> THEN s
    ELSE [s EXCEPT ![Len(s)].endpoints[1].companion = at]

AttachCompanion(s, at) ==
    IF s = <<>> THEN s
    ELSE LET eps == s[Len(s)].endpoints
         IN  IF eps = <<>> THEN s
             ELSE SetLast(s, [s[Len(s)] EXCEPT !.endpoints =
                                SetLast(eps, [eps[Len(eps)] EXCEPT !.companion = at])])

\* What a descriptor of length l and type t at position `at' does to s.
Attach(s, at, l, t) ==
    CASE l < Minimum[t] -> s
      [] l >= Minimum[t] /\ t = "interface" -> Append(s, NewInterface(at))
      [] l >= Minimum[t] /\ t = "endpoint" -> AttachEndpoint(s, at)
      [] l >= Minimum[t] /\ t = "hid" -> AttachHid(s, at)
      [] l >= Minimum[t] /\ t = "companion" -> AttachCompanion(s, at)
      [] OTHER -> s

-----------------------------------------------------------------------------
Init ==
    /\ pc = "start"
    /\ length \in BufferLengths
    /\ sent = length
    /\ end = 0
    /\ pos = HeaderLength
    /\ chain = <<>>
    /\ interfaces = <<>>

\* Too short for the header, or not a configuration descriptor.
HeaderFails ==
    /\ pc = "start"
    /\ pc' = "err"
    /\ UNCHANGED <<length, sent, end, pos, chain, interfaces>>

\* What wTotalLength, bytes 2 and 3, may be when n bytes came.
TotalOf(n, total) ==
    /\ n < 3 => total = 0
    /\ n < 4 => total < 256

Header(total) ==
    /\ pc = "start"
    /\ length >= HeaderLength
    /\ sent >= 2
    /\ TotalOf(sent, total)
    /\ end' = Smaller(total, length)
    /\ pc' = "walk"
    /\ UNCHANGED <<length, sent, pos, chain, interfaces>>

HasHeader == pos + 2 <= end

\* The length and type the walk may find where it is: zero where no byte came.
Reads(l, t) ==
    /\ pos >= sent => l = 0
    /\ pos + 1 >= sent => t = "other"

Visit(l, t) ==
    /\ pc = "walk"
    /\ HasHeader
    /\ Reads(l, t)
    /\ l >= 2
    /\ pos + l <= end
    /\ interfaces' = Attach(interfaces, pos, l, t)
    /\ chain' = Append(chain, [at |-> pos, length |-> l, type |-> t])
    /\ pos' = pos + l
    /\ UNCHANGED <<pc, length, sent, end>>

\* No room for another header, or a length that cannot be right: what was
\* parsed so far is the result.
Finish(l) ==
    /\ pc = "walk"
    /\ HasHeader => Reads(l, "other") /\ (l < 2 \/ pos + l > end)
    /\ pc' = "ok"
    /\ UNCHANGED <<length, sent, end, pos, chain, interfaces>>

-----------------------------------------------------------------------------
Walk == \E l \in ByteLengths : Finish(l) \/ \E t \in Types : Visit(l, t)

Next ==
    \/ HeaderFails
    \/ \E total \in TotalLengths : Header(total)
    \/ Walk

Spec == Init /\ [][Next]_vars

-----------------------------------------------------------------------------
(* Properties                                                              *)

Endpoints == [at : Nat, companion : Nat]
Interfaces == [at : Nat, endpoints : Seq(Endpoints), hid : Nat]
Descriptors == [at : Nat, length : Nat, type : Types]

\* Every variable holds a value of its kind.
TypeOK ==
    /\ length \in Nat
    /\ sent \in 0 .. length
    /\ end \in Nat
    /\ pos \in Nat
    /\ chain \in Seq(Descriptors)
    /\ interfaces \in Seq(Interfaces)

\* No byte outside the buffer or after wTotalLength is read, whatever lengths
\* the device sends: every slice handed to a from_bytes_at lies before `end',
\* and `end' within the buffer.
ReadsInBounds ==
    /\ end <= length
    /\ \A k \in DOMAIN chain :
           HeaderLength <= chain[k].at /\ chain[k].at + chain[k].length <= end

\* A short answer leaves at most one descriptor that the device did not send
\* whole: the last one, of which it sent the first byte at least.
OnlyTheTailIsMadeUp ==
    \A k \in DOMAIN chain :
        /\ chain[k].at < sent
        /\ k # Len(chain) => chain[k].at + chain[k].length <= sent

\* The walk passes from each descriptor to the one that starts where it ends.
Contiguous ==
    /\ \A k \in DOMAIN chain :
           chain[k].at + chain[k].length =
               IF k = Len(chain) THEN pos ELSE chain[k + 1].at
    /\ chain = <<>> => pos = HeaderLength

\* Every descriptor is attached to an interface that comes before it, with no
\* other kept interface in between, and endpoints stay in the buffer's order.
InBufferOrder ==
    \A k \in DOMAIN interfaces :
        LET i == interfaces[k]
            limit == IF k = Len(interfaces) THEN pos ELSE interfaces[k + 1].at
        IN  /\ i.at < limit
            /\ \A j \in DOMAIN i.endpoints : i.at < i.endpoints[j].at /\ i.endpoints[j].at < limit
            /\ \A j, m \in DOMAIN i.endpoints :
                   j < m => i.endpoints[j].at < i.endpoints[m].at

\* The descriptors of type t that are long enough to be taken.
Taken(t) == {k \in DOMAIN chain : chain[k].type = t /\ chain[k].length >= Minimum[t]}

\* The descriptor of type t or u before position k that k belongs to, or 0.
Last(S, k) == IF \E m \in S : m < k THEN CHOOSE m \in S : m < k /\ \A n \in S : n < k => n <= m
                                     ELSE 0
At(k) == IF k = 0 THEN 0 ELSE chain[k].at

\* What from_bytes means: the kept interfaces, with the kept endpoints between
\* one and the next, the last HID descriptor there, and for each endpoint the
\* last companion between it and the next kept endpoint or interface.
AttachedAsDefined ==
    LET ifs == Taken("interface")
        eps == Taken("endpoint")
        owner(k) == At(Last(ifs, k))
        target(k) == LET e == Last(eps, k) IN IF e < Last(ifs, k) THEN 0 ELSE At(e)
    IN  /\ {interfaces[k].at : k \in DOMAIN interfaces} = {At(k) : k \in ifs}
        /\ \A k \in DOMAIN interfaces :
               LET i == interfaces[k]
                   hids == {h \in Taken("hid") : owner(h) = i.at}
               IN  /\ {i.endpoints[j].at : j \in DOMAIN i.endpoints} =
                          {At(e) : e \in {x \in eps : owner(x) = i.at}}
                   /\ i.hid = At(Last(hids, Len(chain) + 1))
                   /\ \A j \in DOMAIN i.endpoints :
                          LET e == i.endpoints[j]
                              comps == {c \in Taken("companion") : target(c) = e.at}
                          IN  e.companion = At(Last(comps, Len(chain) + 1))

\* The result of from_bytes (descriptor.rs:61) is what the descriptors mean, each
\* attached where it belongs and all of them in the order of the buffer.
ParsedAsDefined == AttachedAsDefined /\ InBufferOrder
=============================================================================
