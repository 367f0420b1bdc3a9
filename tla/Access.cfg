SPECIFICATION Spec
CONSTANTS
    None = None
    AccountUsers = {u}
    AccountRequests = {r1, r2}
    MaxTokens = 3
    PermissionUsers = {u1, u2, adm}
    Modules = {m1, m2}
    Actions = {create, remove}
    ActionGrants = {{}, {create}}
    PermissionSaves = {s1, s2}
    Admins = {adm}
    People = {p1, p2}
    StaffDocuments = {d1, d2}
    Unknown = unknown
    Values = {v, w}
    Blank = blank
    MaxRows = 2
    Edits = {q1, q2, q3}
    VaultUsers = {o, u}
    VaultOwner = o
    VaultRequests = {r1, r2}
    VaultGrants = {g1}
    MaxChanges = 2
    Lengths = {1, 3, 7, 8, 11, 12, 15, 16}
    Uploads = {u1, u2}
    Deletions = {d1, d2}
    Selections = {s1, s2}
    Count = 2
    MaxFaults = 1
    Operations = {o1, o2}
    FirstOperation = o1
    Saves = {h1, h2, h3}
    Deletes = {d1}
    MaxRevision = 2
    Identities = {x, y}
    Created = {k}
    Forms = {f1, f2}
    Imports = {m1, m2}
    MaxWrites = 3
INVARIANTS
    TypesOK
    SessionsHold
    AdministrationStands
    RecordsTellFate
    VaultHolds
    ChangeIsOfWhatWasShown
PROPERTY FilesAreWhole
CHECK_DEADLOCK FALSE
