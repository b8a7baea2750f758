SPECIFICATION Spec
CONSTANTS
    Requests = {h1, h2}
    Emails = {e1, e2, e3}
    Roles = {viewer}
    NoEmail = NoEmail
    NoRole = NoRole
    MaxPending = 1
    MaxRows = 3
    MaxSpare = 1
SYMMETRY Symmetry
INVARIANT TypeOK
INVARIANT PendingBounded
INVARIANT InviteSingleUse
CHECK_DEADLOCK FALSE
