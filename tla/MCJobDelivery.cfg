SPECIFICATION NoticesSpec
CONSTANTS
    j1 = j1  j2 = j2
    k1 = k1
    w1 = w1  w2 = w2
    b1 = b1  rider = rider  other = other
    t1 = t1  t2 = t2  p1 = p1  p2 = p2
    NoOne = NoOne
    Jobs = {j1, j2}
    Keys = {k1}
    KeyOf <- Twice
    Workers = {w1, w2}
    MaxTries = 2
    MaxKills = 2
    MaxStalls = 1
    Bookings = {b1}
    Users = {rider, other}
    CustomerOf <- Riders
    Reached = {b1}
    NoticeTypes = {"BOOKING_RECEIVED", "BOOKING_CONFIRMED", "TRIP_REMINDER"}
    Tokens = {t1, t2}
    MaxTokens = 1
    Taps = {p1, p2}
    MaxRegistrations = 3
CONSTRAINT Apart
INVARIANTS OnceEach ToldTruly DevicesBounded
PROPERTIES JobsEnd
CHECK_DEADLOCK FALSE
