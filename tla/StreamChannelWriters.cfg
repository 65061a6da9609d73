SPECIFICATION Spec
CONSTANTS
    Streams = {s1, s2}
    Requests <- MCArbitration
    Lengths <- MCDataOnly
    Ports = {9}
    HostPath = HostPath
    NULL = NULL
    Window = 1
    MaxOpen = 1
    MaxRequests = 1
    MaxPunts = 1
SYMMETRY MCSymmetry
INVARIANT SingleWriter
