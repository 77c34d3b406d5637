\* Recordings of one event, with lost webhooks, faults and a restart.
SPECIFICATION FairSpec
CONSTANTS
    duel = duel
    c1 = c1
    c2 = c2
    h1 = h1
    NoSource = NoSource
    Job = Job
    Sources = {duel}
    Starters = {c1, c2}
    Stoppers = {c2}
    Source <- MCSource
    Hooks = {h1}
    MaxRows = 2
    MaxFaults = 1
INVARIANTS
    TypeOK
    EgressAccounted
    ReplaysMatchRecordings
PROPERTIES
    CompletedIsFinal
    EndedIsClosed
CHECK_DEADLOCK FALSE
