SPECIFICATION Spec
CONSTANTS
    Handlers = {h1}
    MaxRequests = 2
    LastDay = 1
    WorkDays = {0, 1}
    Asked <- SomeAbsences
    Compensations = {1}
    Adjustments <- SomeAdjustments
    Debt = 1
    DaysPerYear = 1
    YearLength = 2
    Starts = {0}
    Overlaps = {}
    MaxRaced = 0
INVARIANT LimitHolds
