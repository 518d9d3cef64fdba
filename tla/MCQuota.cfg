\* One user, three days, two failed statements and two crashes.  The tasks and
\* the handlers treat each row by itself.
SPECIFICATION FairSpec
CONSTANTS
    Id = {u1}
    MaxDay = 3
    MaxFault = 2
INVARIANT TypeOK
PROPERTY CutsExpiredOrRedated
PROPERTY MonthlyResetsAll
PROPERTY ExpiredIsCut
 
