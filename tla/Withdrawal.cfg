\* Two administrators, each with requests of his own.
SPECIFICATION Spec
CONSTANTS
    artist1 = artist1
    artist2 = artist2
    w1 = w1
    w2 = w2
    w3 = w3
    admin1 = admin1
    admin2 = admin2
    Users = {artist1, artist2}
    Requests = {w1, w2, w3}
    Admins = {admin1, admin2}
    Handles <- MCSplitDesks
    Amounts = {2, 3, 4}
    Minimum = 3
    Opening <- MCOpening
INVARIANTS
    TypeOK
    Conserved
PROPERTIES
    ImplementsPayout
CHECK_DEADLOCK FALSE
