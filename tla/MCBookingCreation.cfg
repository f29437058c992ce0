SPECIFICATION FairSpec
CONSTANTS
    k1 = k1  k2 = k2
    plain = plain  coded = coded  other = other
    ann = ann  bob = bob
    r1 = r1  r2 = r2  r3 = r3
    None = None
    Keys = {k1}
    Bodies = {plain, coded}
    RiderOf <- Riders
    Coded = {coded}
    Sends <- OneKey
    MaxUses = 1
    MaxUsesPerCustomer = 1
    MaxBookings = 2
    MaxLosses = 1
    Requests = {r1, r2}
INVARIANTS DoneOnce UsesCounted
PROPERTIES ReplayTruth KeyComesFree
CHECK_DEADLOCK FALSE
