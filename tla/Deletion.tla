------------------------------ MODULE Deletion ------------------------------
(***************************************************************************)
(* Accounts that go: a user schedules the deletion of their account, with  *)
(* twenty days of grace, and may cancel it; a job, once a day, bans the    *)
(* accounts whose date has passed. Admins ban and lift bans as well, in a  *)
(* transaction that writes users and profiles. An unbanned account keeps   *)
(* its date, and is banned again by the next run.                          *)
(*                                                                         *)
(* A request about the date is refused to a banned account by the check of *)
(* authenticate, then reads the account, then saves the date: the job may  *)
(* read and ban the account in between, and the save does not look.        *)
(***************************************************************************)
EXTENDS Integers, Null

CONSTANTS
    Accounts,       \* users
    DateCalls,      \* requests about the date, in flight at the same time
    MaxPurgeFaults  \* runs that break off

ASSUME DeletionAssumption == MaxPurgeFaults \in Nat

VARIABLES
    dlDate,         \* deletion_scheduled_at: none, ahead or past
    dlCall,         \* each request: whose it is, the date it is to save and the one it read
    dlBanned,       \* users.is_banned
    dlShown,        \* profiles.is_banned
    dlRun,          \* purgeExpiredAccounts: the rows it read and has still to look at,
                    \* those that were banned when it read them, and if it is running
    dlFaults,
    \* history:
    dlPurged,       \* accounts last banned by the job
    dlRaced         \* accounts whose date was saved while the job had them, or was about
                    \* to be when the job banned them

deletionVars == <<dlDate, dlCall, dlBanned, dlShown, dlRun, dlFaults, dlPurged, dlRaced>>

Dates == {"none", "ahead", "past"}

DeletionTypeOK ==
    /\ dlDate \in [Accounts -> Dates]
    /\ dlCall \in [DateCalls -> [at : {"idle", "checked", "read"}, user : Accounts \cup {NULL},
                                 to : {"none", "ahead"}, had : Dates]]
    /\ dlBanned \subseteq Accounts /\ dlShown \subseteq Accounts
    /\ dlRun \in [on : BOOLEAN, left : SUBSET Accounts, banned : SUBSET Accounts]
    /\ dlFaults \in 0..MaxPurgeFaults
    /\ dlPurged \subseteq Accounts /\ dlRaced \subseteq Accounts

NoCall == [at |-> "idle", user |-> NULL, to |-> "none", had |-> "none"]
NoPurge == [on |-> FALSE, left |-> {}, banned |-> {}]

DeletionInit ==
    /\ dlDate = [u \in Accounts |-> "none"]
    /\ dlCall = [c \in DateCalls |-> NoCall]
    /\ dlBanned = {} /\ dlShown = {}
    /\ dlRun = NoPurge /\ dlFaults = 0
    /\ dlPurged = {} /\ dlRaced = {}

\* mutant: the job stops at the first account that is banned already
StopAtBanned(u) == {}
\* continue: on to the next account.
LeftAfter(u) == dlRun.left \ {u}

\* mutant: accounts in their days of grace are taken as well
Scheduled == {u \in Accounts : dlDate[u] # "none"}
\* The rows the job asks for.
Expired == {u \in Accounts : dlDate[u] = "past"}

-----------------------------------------------------------------------------
\* A request about the date of u is under way.
Asking(u) == \E c \in DateCalls : dlCall[c].user = u

\* authenticate() turns a banned user away.
CheckBan(c, u, to) ==
    /\ dlCall[c] = NoCall /\ u \notin dlBanned
    /\ dlCall' = [dlCall EXCEPT ![c] = [NoCall EXCEPT !.at = "checked", !.user = u, !.to = to]]
    /\ UNCHANGED <<dlDate, dlBanned, dlShown, dlRun, dlFaults, dlPurged, dlRaced>>

RequestDeletion(c, u) == CheckBan(c, u, "ahead")
CancelDeletion(c, u) == CheckBan(c, u, "none")

\* requestAccountDeletion, cancelAccountDeletion: findByPk.
ReadDate(c) ==
    /\ dlCall[c].at = "checked"
    /\ dlCall' = [dlCall EXCEPT ![c] = [@ EXCEPT !.at = "read", !.had = dlDate[dlCall[c].user]]]
    /\ UNCHANGED <<dlDate, dlBanned, dlShown, dlRun, dlFaults, dlPurged, dlRaced>>

\* The save, by id, of the date if it changed: a new date always does, and to cancel
\* writes none where none was read.
SaveDate(c) ==
    LET u == dlCall[c].user IN
    /\ dlCall[c].at = "read"
    /\ IF dlCall[c].to = "none" /\ dlCall[c].had = "none"
         THEN UNCHANGED <<dlDate, dlRaced>>
         ELSE /\ dlDate' = [dlDate EXCEPT ![u] = dlCall[c].to]
              /\ dlRaced' = IF u \in dlRun.left THEN dlRaced \cup {u} ELSE dlRaced
    /\ dlCall' = [dlCall EXCEPT ![c] = NoCall]
    /\ UNCHANGED <<dlBanned, dlShown, dlRun, dlFaults, dlPurged>>

\* A query or the save fails, or the process stops.
AskFails(c) ==
    /\ dlCall[c].at # "idle"
    /\ dlCall' = [dlCall EXCEPT ![c] = NoCall]
    /\ UNCHANGED <<dlDate, dlBanned, dlShown, dlRun, dlFaults, dlPurged, dlRaced>>

GraceEnds(u) ==
    /\ dlDate[u] = "ahead"
    /\ dlDate' = [dlDate EXCEPT ![u] = "past"]
    /\ UNCHANGED <<dlCall, dlBanned, dlShown, dlRun, dlFaults, dlPurged, dlRaced>>

\* purgeExpiredAccounts: findAll, every night. What raced before is over for those it
\* will save.
PurgeStarts ==
    /\ dlRun = NoPurge /\ Expired # {}
    /\ dlRun' = [on |-> TRUE, left |-> Expired, banned |-> dlBanned]
    /\ dlRaced' = dlRaced \ (Expired \ dlBanned)
    /\ UNCHANGED <<dlDate, dlCall, dlBanned, dlShown, dlFaults, dlPurged>>

\* One account: left as it is if it was read banned; saved by id otherwise.
PurgeOne(u) ==
    /\ u \in dlRun.left
    /\ IF u \in dlRun.banned
         THEN /\ dlRun' = [dlRun EXCEPT !.left = LeftAfter(u)]
              /\ UNCHANGED <<dlBanned, dlPurged, dlRaced>>
         ELSE /\ dlRun' = [dlRun EXCEPT !.left = @ \ {u}]
              /\ dlBanned' = dlBanned \cup {u}
              /\ dlPurged' = dlPurged \cup {u}
              /\ dlRaced' = IF Asking(u) THEN dlRaced \cup {u} ELSE dlRaced
    /\ UNCHANGED <<dlDate, dlCall, dlShown, dlFaults>>

PurgeEnds ==
    /\ dlRun.on /\ dlRun.left = {}
    /\ dlRun' = NoPurge
    /\ UNCHANGED <<dlDate, dlCall, dlBanned, dlShown, dlFaults, dlPurged, dlRaced>>

\* A save fails, or the process stops: the next night's run looks again.
PurgeFails ==
    /\ dlRun.on /\ dlFaults < MaxPurgeFaults
    /\ dlFaults' = dlFaults + 1
    /\ dlRun' = NoPurge
    /\ UNCHANGED <<dlDate, dlCall, dlBanned, dlShown, dlPurged, dlRaced>>

\* banFromPlatform and unbanFromPlatform, one transaction each.
Ban(u) ==
    /\ dlBanned' = dlBanned \cup {u} /\ dlShown' = dlShown \cup {u}
    /\ dlPurged' = dlPurged \ {u}
    /\ UNCHANGED <<dlDate, dlCall, dlRun, dlFaults, dlRaced>>

Unban(u) ==
    /\ dlBanned' = dlBanned \ {u} /\ dlShown' = dlShown \ {u}
    /\ dlPurged' = dlPurged \ {u}
    /\ UNCHANGED <<dlDate, dlCall, dlRun, dlFaults, dlRaced>>

DeletionNext ==
    \/ \E u \in Accounts :
         \/ GraceEnds(u) \/ PurgeOne(u) \/ Ban(u) \/ Unban(u)
         \/ \E c \in DateCalls : RequestDeletion(c, u) \/ CancelDeletion(c, u)
    \/ \E c \in DateCalls : ReadDate(c) \/ SaveDate(c) \/ AskFails(c)
    \/ PurgeStarts \/ PurgeEnds \/ PurgeFails

\* The job runs every night, goes on to the next account, and comes to its end.
DeletionFairness ==
    /\ WF_deletionVars(PurgeStarts)
    /\ WF_deletionVars(\E u \in Accounts : PurgeOne(u))
    /\ WF_deletionVars(PurgeEnds)

DeletionSpec == DeletionInit /\ [][DeletionNext]_deletionVars /\ DeletionFairness

-----------------------------------------------------------------------------
(* Properties.                                                             *)

\* An account the job banned is one whose date has passed: it takes nobody whose days
\* of grace are not over or who changed his mind. Left out are those whose date was
\* saved between the query of the job and its own save, and those about whose date a
\* request was under way at that save, which checked the ban before: neither looks
\* again at what it read.
CancelStands ==
    \A u \in dlPurged \ dlRaced : u \in dlBanned => dlDate[u] = "past"

\* An account whose date has passed is banned in the end, unless the date is
\* changed, also when an admin lifts the ban, some are banned already, or a run
\* breaks off.
DueIsPurged ==
    \A u \in Accounts : dlDate[u] = "past" ~> u \in dlBanned \/ dlDate[u] # "past"
=============================================================================
