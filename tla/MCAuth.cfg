\* Two requests at a time beside the command line, two passwords, a restart.
SPECIFICATION Spec
CONSTANTS
    h1 = h1
    h2 = h2
    p = p
    q = q
    Handler = {h1, h2}
    Pass = {p, q}
    Empty = Empty
    Missing = Missing
    MaxBoot = 2
SYMMETRY Symmetry
INVARIANT TypeOK
INVARIANT TokensOutliveRestart
PROPERTY GrantedKnewPass
PROPERTY RefusedForCause
