\* Two interfaces with two settings each; one open that leaks.
SPECIFICATION Spec
CONSTANTS
    e1 = e1
    e2 = e2
    e3 = e3
    full = full
    half = half
    Interfaces = {0, 1}
    Alts = {0, 1}
    Endpoints = {e1, e2, e3}
    InEndpoints = {e1, e3}
    Owner <- MCOwner
    Descriptor <- MCDescriptor
    EndpointZero = zero
    CutInfo = cut
    NoInfo = noInfo
    Order <- MCOrder
    Pipes <- MCPipes
    MaxLeaks = 1
    None = none
INVARIANTS SingleSettingExact NothingHeldBetweenCalls PipeIsTheEndpoints
PROPERTIES MissingMeansUnread ImplementsClaims
