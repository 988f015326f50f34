SPECIFICATION MCSpec
CONSTANTS
    NumSchedulers = 2
    NumTasks = 1
    NumCallers = 1
    Owner <- OneOwner
    Delays = {1}
    Periods = {0, 1}
    Tolerance = 1
    MaxTime = 1
    MaxSchedules = 2
    Stops = FALSE
    Parts = {"tasks"}
    NumEntries = 0
    Keys = {}
    MaxAdds = 0
INVARIANT QueueInv
 
