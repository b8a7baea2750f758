SPECIFICATION Spec
CONSTANTS
    Requests = {h1, h2}
    Emails = {a, b}
    NoEmail = NoEmail
    MaxUsers = 2
    MaxLogins = 2
    Askers = {h1, h2}
    Cooldown = 2
    Validity = 2
    TimeToLive = 2
    MaxFailed = 2
    MaxCodes = 3
    MaxTime = 3
    MaxFaults = 1
    Callers = {h1, h2}
    MaxAttempts = 2
    MaxLocks = 2
    MaxSpoils = 1
SYMMETRY Symmetry
INVARIANT TypeOK
INVARIANT DeletionEndsSessions
INVARIANT StaleSessionsBounded
INVARIANT GuessesBounded
INVARIANT UsesBounded
INVARIANT LiveCodesBounded
INVARIANT ResendBounded
INVARIANT LockoutHolds
PROPERTY NoResurrection
CHECK_DEADLOCK FALSE
