SPECIFICATION Spec
CONSTANTS
    None = None
    Employees = {"e"}
    Leaders = {"l"}
    PointRequests = {"r1", "r2"}
    PointHandlers = {"h1", "h2"}
    Amounts = {1}
    Users = {"u"}
    ReactionTypes = {"like"}
    MaxPosts = 2
    Comments = {"c1", "c2"}
    FeedHandlers = {"h1", "h2"}
    PageLimit = 1
    MaxBegun = 4
    Celebrants = {"u", "v"}
    BirthdayOf <- SomeBirthdays
    BirthdayRuns = {"r1", "r2"}
    BirthdayPosts = {"p1", "p2"}
    LastDay = 2
    FormIds = {"f"}
    Submissions = {"s"}
    FormHandlers = {"h1", "h2"}
    Schemas <- SomeSchemas
    SubmittedData <- SomeData
    MaxUpdates = 3
    OvertimeIds = {1, 2}
    OvertimeBatches = {"b1", "b2"}
    OvertimeReviews = {"q1"}
    HoursOfDay = 2
    DailyLimit = 2
    MonthlyLimit = 3
    DaysOfMonth = 2
    MaxBatch = 2
    Novelties <- SomeNovelties
    WorkDays = {1, 3, 4}
    Periods <- SomePeriods
    TestUsers = {"test"}
    MaxRows = 2
    RowsPerPage = 1
    MaxChanges = 2
    CesantiasRequests = {"i1", "i2"}
    CesantiasChanges = {"c1", "c2"}
    MaxHistory = 2
    Scans = {"s1", "s2"}
    Phones = {}
    AlertAttempts = 2
    MaxEvents = 2
    MaxMessages = 1
    ThreadAttempts = 2
    Readers = {"r1", "r2"}
INVARIANTS
    TypesOK
    WalletIsLedger
    
    SubmissionsFit
    DayHolds
    ReportsAddUp
    TramiteHolds
    
CHECK_DEADLOCK FALSE
