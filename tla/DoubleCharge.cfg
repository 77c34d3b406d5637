\* A step fails after the procedure has committed, and the client retries.
SPECIFICATION MembersSpec
CONSTANTS
    NULL = NULL
    u1 = u1  q1 = q1  q2 = q2  q3 = q3  i1 = i1  i2 = i2  gift = gift  vote = vote
    o1 = o1  o2 = o2  o3 = o3  o4 = o4  o5 = o5  a1 = a1  p1 = p1
    Requests = {r1, r2}  Payers = {y1, y2}  Admins = {x1}  Prices = {1, 2}
    Opening = 3  MaxAds = 2  AdVideos = {a1}  Plays = {p1, p2}  Hosts = {v1, v2}
    Accounts = {n1, n2}  DateCalls = {d1}  MaxPurgeFaults = 1
    Tokens = {k1, k2, k3}  Devices = {g1, g2}  MaxPassword = 1
    Applicants = {u1}  ArtistRequests = {q1, q2}  ManagerRequests = {q3}
    AppliedBy <- MCAppliedBy
    Reviewers = {v1, v2}  Direct <- MCDirect
    Subscriptions = {b1}  Webhooks = {h1, h2}  MaxEvents = 3
    Methods = {m1, m2, m3}  Editors = {e1, e2}
    Keys = {i1, i2}  Bodies = {gift, vote}  Posts = {o1, o2, o3, o4, o5}
    KeyOf <- MCKeyOf  BodyOf <- MCBodyOf
    Addresses = {a1, a2}  ProviderAccounts = {p1}  AddressOf <- MCAddressOf
    Signups = {r1, r2}  Welcome = 1  Reward = 1
    Askers = {s1}  Verifiers = {v1, v2}  MaxAttempts = 1  MaxCodes = 2
    PinChecks = {w1, w2}  MaxPinAttempts = 2
    People = {n1, n2}  Phones = {}  Browsers = {g1}  Registrars = {c1, c2}
    Notices = {o6}  MaxRegistered = 2  Settings = {s1, s2}
    UploadCategories = {"sponsor", "attachment"}  Confirms = {c1, c2}
INVARIANTS
    NoDoubleCharge
CHECK_DEADLOCK FALSE
