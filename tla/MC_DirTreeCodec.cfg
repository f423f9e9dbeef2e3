\* Tree codec: every ordered tree of up to 5 nodes over two names of
\* different lengths (strlen 1 and 2, so filename_len 2 and 3).
CONSTANTS
    a = a
    b = b
    Names <- MCNames
    NameSize <- MCNameSize
    RecHdr = 8
    MaxNodes = 5
SPECIFICATION Spec
INVARIANTS
    WireLayoutIsBFS
    RoundTrip
    LengthAgrees
