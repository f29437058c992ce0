SPECIFICATION Spec
CONSTANTS
    HoldBuffer = 1
    DefaultTrip = 2
    b1 = b1  b2 = b2
    v1 = v1  v2 = v2
    d1 = d1
    a1 = a1  a2 = a2  a3 = a3
    r1 = r1  r2 = r2
    sedan = sedan  suv = suv
    None = None
    Bookings = {b1}
    Vehicles = {v1, v2}
    Drivers = {}
    AllocIds = {a1, a2, a3}
    Classes = {sedan, suv}
    ClassOf <- TwoClasses
    Offers <- OneRide
    Requotes = {2}
    HandEdits <- Maintenance
    Retirable = {v1, v2}
    Requests = {r1, r2}
SYMMETRY Slots
INVARIANTS InMotionHeld AssignedIsHeld
PROPERTIES LifecycleKept
CHECK_DEADLOCK FALSE
