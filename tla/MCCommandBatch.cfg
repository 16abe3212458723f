SPECIFICATION Spec
CONSTANTS
    Base = 4
    Bytes = {0, 1}
    MaxRaw = 12
    Types = {1, 6}
    MaxValue = 2
    MaxAdds = 4
INVARIANTS
    RInv
    AcceptsExactly
    InBounds
    WalkExact
    RoundTrip
PROPERTIES
    ParseEnds
