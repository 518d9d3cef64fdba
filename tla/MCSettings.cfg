\* config.json: a handler and a command line, two operations, one fault of the
\* disk.  LevelDB: two requests at a time, a restart, two calls that find it open.
SPECIFICATION SettingsSpec
CONSTANTS
    w = w
    c = c
    v = v
    Default = Default
    Missing = Missing
    Client = {w, c}
    Web = {w}
    Value = {v}
    MaxCall = 2
    MaxFault = 1
    h1 = h1
    h2 = h2
    NoDay = NoDay
    Asked = {0, 2, 32}
    Handler = {h1, h2}
    SpecFields = 5
    ParserFields = 6
    MaxBoot = 2
    MaxBusy = 2
SYMMETRY Symmetry
INVARIANT ConfigTypeOK
INVARIANT SettingsKept
INVARIANT ServiceRunsFile
INVARIANT TypeOK
PROPERTY BootKeepsDay
CHECK_DEADLOCK FALSE
