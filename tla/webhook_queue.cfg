SPECIFICATION Spec
CONSTANTS
    Events = {e1, e2}
    Subs = {s1}
    Workers = {w1}
    NoDelivery = NoDelivery
    BackoffLen = 1
    MaxFaults = 1
    MaxRotations = 1
    LeaseHolds = FALSE
PROPERTY
    EveryRowSettles
CHECK_DEADLOCK FALSE
