\* What the code says of endpoints, taken in the setting that is selected.
SPECIFICATION Spec
CONSTANTS
    e0 = e0
    e1 = e1
    x1 = x1
    e2 = e2
    h1 = h1
    h2 = h2
    h3 = h3
    None = None
    Interfaces <- MCInterfaces
    Primary = 0
    Endpoints <- MCEndpoints
    Owner <- MCOwner
    Alts = {0, 1}
    Alt0 = 0
    EpAlts <- MCEpAlts
    AssocOrder <- MCAssocOrder
    ScanLimit = 3
    Timeouts = {0}
    Handles <- MCHandles
SYMMETRY HandleSymmetry
INVARIANT RouteToOwnerInCurrentSetting
