\* Refuted: the passwords of an old table are never moved.
SPECIFICATION Spec
CONSTANTS
    User = {u1, u2}
    NoFile = NoFile
    EmptyFile = EmptyFile
    MaxFault = 2
INVARIANT UpgradeMigrates
