SPECIFICATION Spec
CONSTANTS
    r1 = r1  r2 = r2
    Mode = "PARTIAL"
    Estimate = 2
    Prices = {1}
    AdvancePercent = 50
    Extras = {0}
    Named = {3}
    Asks <- OrderAndLink
    Typed = {}
    MaxRows = 2
    MaxAttempts = 1
    Expirers = {"sweeper"}
    Requests = {r1, r2}
SYMMETRY Slots
INVARIANT LedgerBacks
PROPERTY CompletionIsPaid
CHECK_DEADLOCK FALSE
