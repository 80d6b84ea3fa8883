SPECIFICATION LiveSpec
CONSTANTS
    Dates = {1, 2}
    LastTick = 7
    Windows <- MCWindows
    MinHours = 2
    MaxHours = 2
    Blocks <- MCBlocks
    MaxChanges = 2
    MaxSubmissions = 2
CHECK_DEADLOCK FALSE
INVARIANTS
    TypeOK
    SelectionIsShown
    SelectionIsOpen
    DateIsBookable
    CreatesAskForOfferedHours
    OfferedDaysCanBeBooked
    ToldTheTruth
PROPERTIES
    SubmissionsEnd
    SlotsSettle
