CONSTANTS
    Customers = {c1, c2}
    Admins = {a1}
    Spellings <- MCSpellings
    Normal <- MCNormal
    Contacts = {x, y}
    Sessions = {s1, s2}
    TTLSetting = 1
    NoRow = NoRow
    MaxClock = 2
    MaxTokens = 2
SPECIFICATION Spec
SYMMETRY Symmetry
CONSTRAINT Bounded
INVARIANTS TypeOK OneAccountPerAddress RolesKeptApart
PROPERTIES LockedOutWithinTTL LockStays
