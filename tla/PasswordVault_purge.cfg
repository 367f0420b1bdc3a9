SPECIFICATION Spec
CONSTANTS
    Users = {o, u}
    Owner = o
    Requests = {r1}
    Grants = {g1}
    MaxChanges = 2
INVARIANT PurgeDeletes
CHECK_DEADLOCK FALSE
