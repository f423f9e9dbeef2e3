\* Offsets stay below 2^(IntBits-1): files under 2 GiB with a 32-bit int.
CONSTANTS
    IntBits = 6
    MaxOff = 31
    FileSize = 2
    Deltas <- MCDeltas
SPECIFICATION Spec
INVARIANT TypeOK
PROPERTY LseekReportsHost
