\* UserCache: two readers and two writers; the horizon is longer than TTL +
\* MaxFetch.  NetSpeed: two runs at a time, two interfaces, one counter falls.
SPECIFICATION SamplesSpec
CONSTANTS
    r1 = r1
    r2 = r2
    w1 = w1
    w2 = w2
    Reader = {r1, r2}
    Writer = {w1, w2}
    TTL = 2
    MaxFetch = 1
    MaxTime = 5
    MaxVersion = 3
    s1 = s1
    s2 = s2
    n1 = n1
    n2 = n2
    Sampler = {s1, s2}
    Nic = {n1, n2}
    Word = 4
    MaxByte = 1
    MaxFall = 1
SYMMETRY CacheSymmetry
INVARIANT TypeOK
INVARIANT BoundedStaleness
INVARIANT StaleOnlyByOverlap
INVARIANT SpeedRecovers
CHECK_DEADLOCK FALSE
