\* Duel requests, rankings, recordings on stage, reminders, badges, seasons.
SPECIFICATION ShowsSpec
CONSTANTS
    NULL = NULL
    t1 = t1  t2 = t2  t3 = t3  u1 = u1  u2 = u2
    Invitations = {i1}  Deciders = {d1, d2, d3}  MaxDuels = 2
    Candidates = {c1, c2}  Finalizers = {f1, f2}  MaxScore = 1
    Performers = {p1, p2}  StageCalls = {s1, s2}  MaxSlots = 2  MaxStageFaults = 1
    Tickets = {t1, t2, t3}  Viewers = {u1, u2}  Holder <- MCHolder
    Donors = {o1, o2, o3}  TopRank = 2  MaxSpent = 2  MaxRuns = 3
    Winners = {w1, w2}  Material = {w1}  Announcers = {a1, a2}
    Artists = {l1, l2}  Bumpers = {z1, z2}  Readers = {j1}  MaxPaid = 2
    Statuses = {"upcoming", "live"}  ConcertEdits = {x1, x2}  ConcertAdmins = {y1}
    UserReports = {r1}  Moderators = {v1, v2}  Verdicts = {"resolved", "dismissed"}
    Rooms = {m1, m2}  Fans = {n1, n2}  MaxHearts = 2
    Likers = {u1}  Togglers = {g1, g2}  MaxLikes = 2  MaxViews = 1
    LiveUpdates = {w3, w4}  Joiners = {k1, k2}  Hosts = {h1, h2}  MaxJoins = 2
    Rows = {1, 2, 3}  Id <- MCId  Column <- MCColumn  Limit = 1
    Sockets = {v1, v2, v3}  MaxRecounts = 2
    NoUser = NoUser  Whole = 100  Managers = {u2}  Sections <- MCSections
    Payees = {u1, u2}  Events = {e1, e2}  Sources = {"gift_duel", "duel_ticket"}
    Credit = 10  Amounts = {10}  MaxRevenues = 2  Prices = {2, 3}  MaxGiven = 2
VIEW PartInFocus
INVARIANTS
    ShowsTypeOK
    DuelsMatchAnswers
    OneRanking
    PerformerIsRecorded
    ToldOnce
    BadgesAreOneRun
    WinnersServed
    TotalsAgree
    DecisionsStand
    AudienceIsServed
CHECK_DEADLOCK FALSE
