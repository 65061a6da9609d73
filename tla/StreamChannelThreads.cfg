SPECIFICATION FairSpec
CONSTANTS
    Streams = {s1, s2}
    Requests <- MCArbitration
    Lengths <- MCLengths
    Ports = {9}
    HostPath = HostPath
    NULL = NULL
    Window = 1
    MaxOpen = 2
    MaxRequests = 1
    MaxPunts = 2
INVARIANT LockInv
INVARIANT NoDanglingStream
INVARIANT WriteToLiveStream
INVARIANT PuntsOnceInOrder
PROPERTY ClosedStreamReturns
PROPERTY HostPathDrains
PROPERTY ImplementsChannel
