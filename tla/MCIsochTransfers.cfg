\* Windows: up to two events and three buffers at a time.  Linux: buffers below,
\* at and above a multiple of the packet size, one that needs too many packets;
\* two frame addresses and up to three URBs.
SPECIFICATION Spec
CONSTANTS
    Lengths = {0, 1, 5, 6, 7, 9, 13}
    MaxEvents = 2
    MaxBuffers = 3
    PacketSizes = {0, 2, 3}
    DefaultSize = 4
    MaxPackets = 4
    Frames = {f1, f2}
    MaxUrbs = 3
INVARIANTS BufferRegisteredWhilePending OkLeavesNothing PacketsCoverBuffer AnswersFromOwnUrb
CHECK_DEADLOCK FALSE
