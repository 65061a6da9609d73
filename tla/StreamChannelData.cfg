SPECIFICATION Spec
CONSTANTS
    Streams = {s1, s2}
    Requests <- MCRequests
    Lengths <- MCDataOnly
    Ports = {258}
    HostPath = HostPath
    NULL = NULL
    Window = 1
    MaxOpen = 1
    MaxRequests = 2
    MaxPunts = 1
SYMMETRY MCSymmetry
INVARIANT TypeOK
INVARIANT PacketOutFaithful
INVARIANT ArbitrationAnswered
INVARIANT PuntFaithful
