SPECIFICATION Profiles
CONSTANTS
    None = None
    ann = ann  bea = bea  k1 = k1  k2 = k2  d1 = d1  d2 = d2
    Unusable = Unusable
    Users = {ann, bea}
    Passwords = {"p", "q"}
    Callers = {k1, k2}
    Opening <- OpeningTable
    MaxAttempts = 1
    MaxPerDay = 1
    MaxSessions = 3
    MaxCodes = 3
    MaxLinks = 2
    MaxEffort = 3
    Devices = {d1, d2}
    MaxAddresses = 2
    MaxSaved = 3
SYMMETRY Alike
INVARIANTS RotatedOnce CodesBounded HistoryKept OneDefault
CHECK_DEADLOCK FALSE
