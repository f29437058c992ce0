SPECIFICATION TripsSpec
CONSTANTS
    None = None
    ali = ali  bob = bob  v1 = v1  b1 = b1  k1 = k1  k2 = k2
    People = {ali, bob}
    Cars = {v1}
    DriverDocs = {"DL"}
    CarDocs = {"RC"}
    Verdicts = {"VERIFIED"}
    Callers = {k1, k2}
    Opening <- OpeningTable
    MaxEffort = 3
    Bookings = {b1}
    Stops = {0}
    Readings = {4, 5, 9}
    MaxWrong = 1
INVARIANTS EvidenceKept StartedByCode
PROPERTY QuietGoOffline
CHECK_DEADLOCK FALSE
