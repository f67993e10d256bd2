\* One caller, three calls, each of which may be abandoned.
SPECIFICATION Spec
CONSTANTS
    MaxCalls = 3
    Caller = caller
    Nobody = nobody
INVARIANTS BufferComesBack WritesInOrder
PROPERTIES ReadsInOrder TimedCallCompletes
CHECK_DEADLOCK FALSE
