\* Room for four descriptors after a header and lengths on both sides of every
\* branch of the walks; a control buffer whose length is 0 in 16 bits; timeouts
\* of zero, half a millisecond and two milliseconds.
SPECIFICATION Spec
CONSTANTS
    BufferLengths = {4, 10, 26}
    TotalLengths = {0, 9, 26, 39}
    ByteLengths = {0, 1, 7, 9}
    CapLengths = {2, 7, 20}
    Answers = {0, 1, 4, 8, 17, 20}
    SetupLengths = {0, 64}
    Rooms = {8, 65536}
    Timeouts = {0, 500, 2000}
    BosLimit = 30
    Ports = {p1, p2}
    Devices = {d1, d2, d3}
    Addresses <- MCAddresses
    Unnumbered = {d2}
    Bare = {d3}
    Nothing = Nothing
INVARIANTS ReadsInBounds ParsedAsDefined DecodedWasSent ListingExact NothingHeldBetweenListings
PROPERTIES CallsReturn OpenReachesListed
