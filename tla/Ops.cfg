SPECIFICATION Spec
CONSTANTS
    s1 = s1
    None = None
    Sinks <- MCSinks
    FileLevels <- MCFileLevels
    Lines <- MCLines
    Budgets <- MCBudgets
INVARIANTS
    TypeOK
    LinesLand
PROPERTIES
    PublishedWasTrue
    StatusFollows
    CheckerStops
CHECK_DEADLOCK FALSE
