SPECIFICATION Spec
CONSTANTS
    Requests = {h1, h2}
    Emails = {e1}
    Roles = {viewer, editor}
    NoEmail = NoEmail
    NoRole = NoRole
    MaxPending = 1
    MaxRows = 2
    MaxSpare = 1
INVARIANT OnlyPendingExpires
CHECK_DEADLOCK FALSE
