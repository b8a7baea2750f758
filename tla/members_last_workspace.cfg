SPECIFICATION Spec
CONSTANTS
    Requests = {h1, h2}
    Emails = {e1}
    Roles = {viewer}
    NoEmail = NoEmail
    NoRole = NoRole
    MaxPending = 1
    MaxRows = 1
    MaxSpare = 1
INVARIANT AlwaysAWorkspace
CHECK_DEADLOCK FALSE
