CONSTANTS
    c1 = c1
    c2 = c2
    c3 = c3
    d1 = d1
    d2 = d2
    Nobody = Nobody
    Calls <- ThreeCalls
    Devices <- TwoDevices
SPECIFICATION Spec
INVARIANTS
    OnlyOverlapsOutlive
    RotationsOverlap
    OldPasswordIsRefused
PROPERTIES
    CallsEnd
\* Every call ends.
CHECK_DEADLOCK FALSE
