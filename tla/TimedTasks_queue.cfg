SPECIFICATION MCSpec
CONSTANTS
    NumSchedulers = 1
    NumTasks = 2
    NumCallers = 1
    Owner <- OneOwner
    Delays = {1, 2}
    Periods = {0}
    Tolerance = 1
    MaxTime = 2
    MaxSchedules = 2
    Stops = TRUE
    Parts = {"tasks", "heap"}
    NumEntries = 4
    Keys = {1, 2}
    MaxAdds = 6
INVARIANTS
    PeekStands
    HeapIsQueue
PROPERTIES
    NeverFuture
    DueTaskLeaves
    StopEnds
