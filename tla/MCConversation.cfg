SPECIFICATION Talk
CONSTANTS
    Nothing = Nothing
    p1 = p1  p2 = p2
    b1 = b1  b2 = b2
    small = small  large = large
    Slots = {p1, p2}
    BookingIds = {b1}
    Cabs = {small, large}
    Seats <- Sizes
    Offers = {{small, large}}
    TripTypes = {"ROUND_TRIP"}
    Times = {1}
    Parties = {1, 2}
    MaxLookups = 2
    MaxMissed = 1
    DateFirst = FALSE
    Today <- FirstDay
    Clocks <- Minutes
    Taps <- TapRows
    Phrases <- Written
    Hours <- HoursWritten
    MaxDays = 1
    MaxAhead = 35
    MaxPage = 6
SYMMETRY Both
INVARIANTS DraftFitsStep BookedAsReviewed CancelAsQuoted PickerIsTrue
CHECK_DEADLOCK FALSE
