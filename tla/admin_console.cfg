SPECIFICATION Spec
CONSTANTS
    Bookings = {b1}
    DayOf <- MCDayOf
    Lengths = {5, 6}
    DateFilters = {d2}
    StatusFilters = {"confirmed"}
    Rates = {1, 6}
    CustomAmounts = {2}
    MaxCharge = 4
    IntLimit = 8
    MaxLoads = 2
    MaxModals = 1
    MaxCalls = 1
    AnyDay = AnyDay
    AnyStatus = AnyStatus
    NoBooking = NoBooking
    Values = {1, 2}
    Sources = {s1, s2}
    Dates = {1, 2}
    Weekdays = {0}
    Hours = {8, 9, 17}
    DayStart = 9
    DayEnd = 17
    DefaultQuestion = DefaultQuestion
    Questions = {DefaultQuestion}
    MaxEdits = 2
    Blank = Blank
    Nothing = Nothing
    Ids = {1, 2}
    MaxChanges = 2
    MaxSends = 2
    NoId = 0
INVARIANTS
    TypeOK
    ListMatchesFilter
    NoUnsavedChangeIsHidden
    EditsStayWithTheirClosure
PROPERTIES
    ShownAmountIsTaken
