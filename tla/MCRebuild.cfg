\* Rebuild: two users, two failed statements and two crashes.
\* UserIds: a page or task and a menu, two users, two ids, two rebuilds.
SPECIFICATION TableSpec
CONSTANTS
    u1 = u1
    u2 = u2
    User = {u1, u2}
    NoFile = NoFile
    EmptyFile = EmptyFile
    MaxFault = 2
    a = a
    b = b
    Owner = {a, b}
    Nobody = Nobody
    page = page
    menu = menu
    Page = {page}
    Menu = {menu}
    LastId = 2
    MaxEra = 2
SYMMETRY Symmetry
INVARIANT TypeOK
INVARIANT UsersKept
INVARIANT PasswordsKept
INVARIANT HitsWhoWasSeen
