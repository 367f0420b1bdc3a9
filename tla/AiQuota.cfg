SPECIFICATION Spec
CONSTANTS
    Handlers = {h1, h2}
    Nobody = nobody
    Users = {u1, u2}
    Chats = {c1, c2}
    Readings = {r1, r2}
    Threads = {t1}
    Documents = {d1}
    DailyLimit = 3
    HourlyLimit = 2
    Hour = 1
    PendingSpan = 0
    DayLength = 2
    MaxTime = 2
    MaxRevision = 2
    MaxFaults = 1
SYMMETRY QuotaSymmetry
INVARIANTS
    TypeOK
    QuotasHold
    ThreadsSerial
    RevisionsTellFate
    PendingIsAttended
