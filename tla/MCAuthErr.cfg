\* Refuted: an earlier login failed, the right password is not even looked at.
SPECIFICATION Spec
CONSTANTS
    h1 = h1
    h2 = h2
    p = p
    q = q
    Handler = {h1, h2}
    Pass = {p, q}
    Empty = Empty
    Missing = Missing
    MaxBoot = 2
SYMMETRY Symmetry
PROPERTY RightPassLogsIn
