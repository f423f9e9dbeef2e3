\* Offsets reach 2^IntBits + 1: files of 4 GiB and more with a 32-bit int.
CONSTANTS
    IntBits = 6
    MaxOff = 65
    FileSize = 2
    Deltas <- MCDeltas
SPECIFICATION Spec
PROPERTY LseekReportsHost
