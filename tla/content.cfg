SPECIFICATION Spec
CONSTANTS
    Requests = {h1, h2}
    Owner = owner
    Members = {m1}
    NoUser = NoUser
    MaxDocs = 2
SYMMETRY Symmetry
INVARIANT TypeOK
INVARIANT OrphansAreLate
INVARIANT DeletedWorkspaceIsEmpty
PROPERTY WritesAuthorized
CHECK_DEADLOCK FALSE
