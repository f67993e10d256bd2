\* An interrupted reap, and the next call at the same stack address.
SPECIFICATION Spec
CONSTANTS
    Lengths = {1}
    PacketSizes = {2}
    DefaultSize = 4
    MaxPackets = 4
    Frames = {f1}
    MaxUrbs = 2
INVARIANTS OkReapsOwnUrb
CHECK_DEADLOCK FALSE
