\* A double click on the button that buys a seat of a competition.
SPECIFICATION Spec
CONSTANTS
    fan1 = fan1
    fan2 = fan2
    artist = artist
    rival = rival
    manager = manager
    duel = duel
    concert = concert
    seat = seat
    gift = gift
    candidate = candidate
    NoUser = NoUser
    Whole = 100
    Users <- MCUsers
    Payers = {fan1, fan2}
    Lanes <- MCLanes
    Managers <- MCManagers
    Sections <- MCSections
    Items = {seat}
    Source <- MCSource
    Price <- MCPrice
    Limited <- MCLimited
    Capacity <- MCCapacity
    Artist1 <- MCArtist1
    Artist2 <- MCArtist2
    Manager <- MCManager
    Gifts = {gift}
    GiftPrice <- MCGiftPrice
    Performers = {artist}
    Candidates = {candidate}
    PoolSize = 2
    Opening <- MCOpening
    Amounts = {8}
    Quantities = {1, 2}
    DedicationPct = 20
INVARIANTS
    OneTicketPerUser
CHECK_DEADLOCK FALSE
