\* Two job goroutines and two jobs, two names, two entries: jobs of one entry
\* overlap, a name is removed and added again while they run, and the second job
\* may call Add when the first has just woken the wait.
SPECIFICATION FairSpec
CONSTANTS
    Job = {j1, j2}
    Task = {daily, monthly}
    MaxEntry = 2
    MaxFire = 2
INVARIANT TypeOK
INVARIANT StopNilMeansQuiet
INVARIANT RunsAreAccounted
INVARIANT ShutdownInv
PROPERTY GateSpec
PROPERTY StopReturns
CHECK_DEADLOCK FALSE
