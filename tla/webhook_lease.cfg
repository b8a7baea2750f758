SPECIFICATION Spec
CONSTANTS
    Events = {e1, e2}
    Subs = {s1}
    Workers = {w1, w2}
    NoDelivery = NoDelivery
    BackoffLen = 1
    MaxFaults = 1
    MaxRotations = 0
    LeaseHolds = TRUE
SYMMETRY Symmetry
INVARIANTS
    TypeOK
    OneWriter
    AttemptsBounded
PROPERTY
    KeepsContract
CHECK_DEADLOCK FALSE
