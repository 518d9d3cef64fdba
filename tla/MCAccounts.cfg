\* Two handlers, three ids, one failed statement.
SPECIFICATION Spec
CONSTANTS
    a = a
    b = b
    p = p
    q = q
    h1 = h1
    h2 = h2
    NoUser = NoUser
    NoRequest = NoRequest
    Name = {a, b}
    Pass = {p, q}
    Handler = {h1, h2}
    MaxId = 3
    MaxOutage = 1
SYMMETRY Symmetry
INVARIANT TypeOK
INVARIANT DuplicatesOnlyByRace
PROPERTY DeletedStaysDeleted
