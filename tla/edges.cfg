SPECIFICATION Spec
CONSTANTS
    Recorders = {r1, r2}
    MaxEntries = 2
    MaxDated = 4
    MaxCuts = 1
    Traders = {r1, r2}
    MaxQuotes = 1
    MaxShifts = 2
    MaxLosses = 1
    Clients = {r1, r2}
    Keys = {k1, k2}
    NoKey = NoKey
    Limit = 1
    IdleTime = 1
    MaxBuckets = 1
    MaxClock = 2
    MaxUnmetered = 1
SYMMETRY Symmetry
INVARIANT TypeOK
INVARIANT HistoryBounded
INVARIANT QuoteRefusedByAll
INVARIANT ShiftsTracked
INVARIANT QuotaHolds
INVARIANT RevokedNotServed
PROPERTY PrunesOldest
 
CHECK_DEADLOCK FALSE
