\* CinetPay webhooks race each other and the job; Stripe and Apple do not race.
SPECIFICATION FairSpec
CONSTANTS
    fan = fan
    other = other
    cp = cp
    st = st
    ap = ap
    x1 = x1
    x2 = x2
    Users = {fan, other}
    Payments = {cp, st, ap}
    Provider <- MCProvider
    Buyer <- MCBuyer
    Credits <- MCCredits
    Workers = {x1, x2}
    Serves <- MCOneAtATime
    MaxDeliveries = 2
INVARIANTS
    TypeOK
    ProcessedMeansCredited
PROPERTIES
    ImplementsSettlement
    LostWebhookIsRecovered
CHECK_DEADLOCK FALSE
