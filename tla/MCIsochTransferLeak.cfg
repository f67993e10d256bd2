\* Empty and short buffers; up to three buffers and events at a time.
SPECIFICATION Spec
CONSTANTS
    Lengths = {0, 1, 2}
    MaxEvents = 2
    MaxBuffers = 3
INVARIANT AlwaysUnregistered
