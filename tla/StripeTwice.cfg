\* Stripe delivers an event again while the first delivery is being handled.
SPECIFICATION Spec
CONSTANTS
    fan = fan
    other = other
    cp = cp
    st = st
    ap = ap
    x1 = x1
    x2 = x2
    Users = {fan, other}
    Payments = {cp, st, ap}
    Provider <- MCProvider
    Buyer <- MCBuyer
    Credits <- MCCredits
    Workers = {x1, x2}
    Serves <- MCTwice
    MaxDeliveries = 2
INVARIANTS
    CreditedOnce
CHECK_DEADLOCK FALSE
