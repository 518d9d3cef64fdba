\* Refuted: nobody but the boot itself is at work.
SPECIFICATION Spec
CONSTANTS
    h1 = h1
    h2 = h2
    NoDay = NoDay
    Asked = {0, 2, 32}
    Handler = {}
    SpecFields = 5
    ParserFields = 6
    MaxBoot = 2
    MaxBusy = 2
INVARIANT MonthlyTaskRegistered
CHECK_DEADLOCK FALSE
