SPECIFICATION FairSpec
CONSTANTS
    Handlers = {h1, h2}
    Nobody = nobody
    MaxData = 2
    MaxRevision = 2
    MaxCalls = 2
    MaxFaults = 1
INVARIANTS
    TypeOK
    RequestTellsFate
    ChangesAudited
PROPERTIES
    RowIsGuarded
    ImplementsSendOnce
    HandlersFinish
