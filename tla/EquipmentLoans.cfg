SPECIFICATION Spec
CONSTANTS
    Handlers = {h1, h2}
    Users = {u1, u2}
    Nobody = nobody
    MaxLoans = 2
    MaxRequests = 2
    MaxFaults = 1
SYMMETRY LoanSymmetry
INVARIANTS
    TypeOK
    OneInCourse
    HolderIsKnown
