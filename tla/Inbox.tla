------------------------------- MODULE Inbox -------------------------------
(***************************************************************************)
(* What reaches a user outside of the application. The devices he is       *)
(* pushed on (DeviceSpec): push_subscriptions, which browsers and phones   *)
(* register and take back while notices are under way, and which a notice  *)
(* clears of endpoints that are gone. And what he asked for                *)
(* (PreferenceSpec): the row of his preferences, made when he looks at it. *)
(*                                                                         *)
(* Neither table has a unique key, so a search that finds nothing and the  *)
(* insert after it are two steps. findOne without an order takes the first *)
(* row of its index; the ids are random, so a new row may come first.      *)
(* Of the other rows that handlers make when they do not find them, or     *)
(* whether they are there or not, only the number is followed (FoundSpec). *)
(***************************************************************************)
EXTENDS Tables, Integers, FiniteSets

CONSTANTS
    People,         \* users
    Phones,         \* devices with an FCM token
    Browsers,       \* devices with a Web Push endpoint
    Registrars,     \* requests that register a device
    Notices,        \* calls of notifyUser
    MaxRegistered,  \* bound: rows of devices, and rows ever made of what is found
    Settings        \* requests for the preferences of a user, or for another row

ASSUME InboxAssumption ==
    /\ IsFiniteSet(Settings) /\ MaxRegistered \in Nat
    /\ Phones \cap Browsers = {}

VARIABLES
    dvRows,         \* push_subscriptions: whose row, for which device, or NULL
    dvCall,         \* what a registration has in hand, or NULL
    dvNotice,       \* what a notice has in hand, or NULL
    dvDead,         \* endpoints and tokens that are gone for good
    \* history:
    dvHolder,       \* who registered a device last and did not take it back
    dvMixed         \* devices with registrations that overlapped something

deviceVars == <<dvRows, dvCall, dvNotice, dvDead, dvHolder, dvMixed>>

AllDevices == Phones \cup Browsers
Registered == 1..MaxRegistered
PushRow == [user : People, device : AllDevices]
PushCall == [user : People, device : AllDevices, row : Registered \cup {NULL},
             other : BOOLEAN]           \* the row is another user's
PushNotice == [user : People, pushed : BOOLEAN, rows : SUBSET Registered]

ASSUME DeviceAssumption ==
    /\ NULL \notin People /\ NULL \notin Registered
    /\ NULL \notin PushRow /\ NULL \notin PushCall /\ NULL \notin PushNotice

DeviceTypeOK ==
    /\ dvRows \in [Registered -> PushRow \cup {NULL}]
    /\ dvCall \in [Registrars -> PushCall \cup {NULL}]
    /\ dvNotice \in [Notices -> PushNotice \cup {NULL}]
    /\ dvDead \subseteq AllDevices
    /\ dvHolder \in [AllDevices -> People \cup {NULL}]
    /\ dvMixed \subseteq AllDevices

DeviceInit ==
    /\ dvRows = [r \in Registered |-> NULL]
    /\ dvCall = [c \in Registrars |-> NULL]
    /\ dvNotice = [n \in Notices |-> NULL]
    /\ dvDead = {}
    /\ dvHolder = [d \in AllDevices |-> NULL]
    /\ dvMixed = {}

RowsWhere(user, device) ==
    {r \in Registered : dvRows[r] = [user |-> user, device |-> device]}
RowsOf(device) == UNION {RowsWhere(u, device) : u \in People}
Registering(device) ==
    {c \in Registrars : dvCall[c] # NULL /\ dvCall[c].device = device}
Without(rows) == [r \in Registered |-> IF r \in rows THEN NULL ELSE dvRows[r]]
FirstOf(rows) == {r \in rows : \A s \in rows : r <= s}
\* Ids no call has in hand: an id is never used again.
FreshRows ==
    {r \in Registered :
       /\ dvRows[r] = NULL
       /\ \A c \in Registrars : dvCall[c] = NULL \/ dvCall[c].row # r
       /\ \A n \in Notices :
            dvNotice[n] = NULL \/ r \notin dvNotice[n].rows}

-----------------------------------------------------------------------------
\* mutant: only a row of the user himself is looked for
FoundOfUser(user, device) == RowsWhere(user, device)
\* Whoever the device is registered for.
Found(user, device) == RowsOf(device)

\* subscribePush, registerFcmToken.
RegistrationReads(c, u, d) ==
    /\ dvCall[c] = NULL /\ d \notin dvDead
    /\ \E r \in IF Found(u, d) = {} THEN {NULL} ELSE FirstOf(Found(u, d)) :
         dvCall' = [dvCall EXCEPT ![c] =
                      [user |-> u, device |-> d, row |-> r,
                       other |-> r # NULL /\ dvRows[r].user # u]]
    /\ dvMixed' = IF Registering(d) = {} THEN dvMixed ELSE dvMixed \cup {d}
    /\ UNCHANGED <<dvRows, dvNotice, dvDead, dvHolder>>

\* save() writes the user if it is another one, to the row if it is still there.
RegistrationSaves(c) ==
    /\ dvCall[c] # NULL
    /\ LET it == dvCall[c]
           its == [user |-> it.user, device |-> it.device]
       IN  /\ IF it.row = NULL
              THEN \E r \in FreshRows : dvRows' = [dvRows EXCEPT ![r] = its]
              ELSE dvRows' =
                     [dvRows EXCEPT ![it.row] =
                        IF @ # NULL /\ it.other THEN its ELSE @]
           /\ dvHolder' = [dvHolder EXCEPT ![it.device] = it.user]
    /\ dvCall' = [dvCall EXCEPT ![c] = NULL]
    /\ UNCHANGED <<dvNotice, dvDead, dvMixed>>

\* unsubscribePush, unregisterFcmToken: one DELETE.
Unregisters(u, d) ==
    /\ RowsWhere(u, d) # {}
    /\ dvRows' = Without(RowsWhere(u, d))
    /\ dvHolder' = [dvHolder EXCEPT ![d] = IF @ = u THEN NULL ELSE @]
    /\ dvMixed' = IF Registering(d) = {} THEN dvMixed ELSE dvMixed \cup {d}
    /\ UNCHANGED <<dvCall, dvNotice, dvDead>>

\* The browser drops the subscription, the application is removed.
Dies(d) ==
    /\ d \notin dvDead
    /\ dvDead' = dvDead \cup {d}
    /\ UNCHANGED <<dvRows, dvCall, dvNotice, dvHolder, dvMixed>>

-----------------------------------------------------------------------------
\* notifyUser, once the notice is stored: the devices of the user.
NoticeReads(n, u) ==
    LET his == UNION {RowsWhere(u, d) : d \in AllDevices}
    IN  /\ dvNotice[n] = NULL /\ his # {}
        /\ dvNotice' = [dvNotice EXCEPT ![n] = [user |-> u, pushed |-> FALSE, rows |-> his]]
        /\ UNCHANGED <<dvRows, dvCall, dvDead, dvHolder, dvMixed>>

\* mutant: the answer is not looked at
RefusedOrNot(rows) == rows
\* 404 or 410 for a browser, an unregistered token for a phone.
Refused(rows) == {r \in rows : dvRows[r] # NULL /\ dvRows[r].device \in dvDead}

\* The browsers and the phones; the providers say which are gone. (What is in hand of
\* a row is its endpoint, which no save changes.)
NoticeIsPushed(n) ==
    /\ dvNotice[n] # NULL /\ ~dvNotice[n].pushed
    /\ dvNotice' = [dvNotice EXCEPT ![n].pushed = TRUE, ![n].rows = Refused(@)]
    /\ UNCHANGED <<dvRows, dvCall, dvDead, dvHolder, dvMixed>>

\* The row of a browser by its id, that of a phone by user and token.
Purged(n, r) ==
    IF dvRows[r] = NULL THEN {}
    ELSE IF dvRows[r].device \in Browsers THEN {r}
    ELSE RowsWhere(dvNotice[n].user, dvRows[r].device)

Purge(n, r) ==
    /\ dvNotice[n] # NULL /\ dvNotice[n].pushed /\ r \in dvNotice[n].rows
    /\ dvRows' = Without(Purged(n, r))
    /\ dvNotice' = [dvNotice EXCEPT ![n].rows = @ \ {r}]
    /\ UNCHANGED <<dvCall, dvDead, dvHolder, dvMixed>>

\* Done, or broken off: nothing waits for a notice.
NoticeEnds(n) ==
    /\ dvNotice[n] # NULL
    /\ dvNotice' = [dvNotice EXCEPT ![n] = NULL]
    /\ UNCHANGED <<dvRows, dvCall, dvDead, dvHolder, dvMixed>>

DeviceNext ==
    \/ \E u \in People, d \in AllDevices :
         \/ \E c \in Registrars : RegistrationReads(c, u, d)
         \/ Unregisters(u, d)
    \/ \E c \in Registrars : RegistrationSaves(c)
    \/ \E d \in AllDevices : Dies(d)
    \/ \E n \in Notices :
         \/ \E u \in People : NoticeReads(n, u)
         \/ \E r \in Registered : Purge(n, r)
         \/ NoticeIsPushed(n) \/ NoticeEnds(n)

DeviceSpec == DeviceInit /\ [][DeviceNext]_deviceVars

-----------------------------------------------------------------------------
(* Preferences: one user, one category of mail.                            *)

VARIABLES
    pfRows,         \* rows of his preferences, in the order of their index
    pfCall,         \* what a request for them has in hand, or NULL
    \* history:
    pfAsked,        \* what he asked for last: TRUE, FALSE, or NULL for nothing
    pfLooked,       \* he has opened his preferences
    pfMixed         \* what requests that overlapped were about

preferenceVars == <<pfRows, pfCall, pfAsked, pfLooked, pfMixed>>

Flags == {"mail", "push"}
\* A request to look has no flag.
Patch == {[flag |-> NULL, to |-> NULL]} \cup [flag : Flags, to : BOOLEAN]
PrefRow == [Flags -> BOOLEAN]
SettingRows == 1..Cardinality(Settings)
PrefCall == [patch : Patch, row : SettingRows \cup {NULL}, read : PrefRow \cup {NULL}]

ASSUME PreferenceAssumption ==
    /\ NULL \notin Flags /\ NULL \notin BOOLEAN /\ NULL \notin SettingRows
    /\ NULL \notin PrefRow /\ NULL \notin PrefCall

PreferenceTypeOK ==
    /\ pfRows \in [SettingRows -> PrefRow \cup {NULL}]
    /\ pfCall \in [Settings -> PrefCall \cup {NULL}]
    /\ pfAsked \in [Flags -> BOOLEAN \cup {NULL}]
    /\ pfLooked \in BOOLEAN /\ pfMixed \subseteq Flags

PreferenceInit ==
    /\ pfRows = [r \in SettingRows |-> NULL]
    /\ pfCall = [s \in Settings |-> NULL]
    /\ pfAsked = [f \in Flags |-> NULL]
    /\ pfLooked = FALSE /\ pfMixed = {}

MyRows == {r \in SettingRows : pfRows[r] # NULL}
TheRow == FirstOf(MyRows)
AtWork == {s \in Settings : pfCall[s] # NULL}
\* What a new row has: mail is off, push is on.
NewPreferences == [f \in Flags |-> f = "push"]

\* findOrCreate: the search ...
PreferencesFound(s, p) ==
    /\ pfCall[s] = NULL
    /\ \E r \in IF MyRows = {} THEN {NULL} ELSE TheRow :
         pfCall' = [pfCall EXCEPT ![s] =
                      [patch |-> p, row |-> r,
                       read |-> IF r = NULL THEN NULL ELSE pfRows[r]]]
    /\ pfMixed' = IF \E t \in AtWork : pfCall[t].row = NULL THEN Flags
                  ELSE pfMixed \cup ({pfCall[t].patch.flag : t \in AtWork}
                                \cap {p.flag} \cap Flags)
    /\ UNCHANGED <<pfRows, pfAsked, pfLooked>>

\* ... and the insert, wherever its id comes.
PreferencesCreated(s) ==
    /\ s \in AtWork /\ pfCall[s].row = NULL
    /\ \E r \in SettingRows \ MyRows :
         /\ pfRows' = [pfRows EXCEPT ![r] = NewPreferences]
         /\ pfCall' = [pfCall EXCEPT ![s].row = r, ![s].read = NewPreferences]
    /\ pfLooked' = TRUE
    /\ UNCHANGED <<pfAsked, pfMixed>>

\* mutant: the row is written as it was read
PatchedRead(row, it) == [it.read EXCEPT ![it.patch.flag] = it.patch.to]
\* Only the flag that was changed.
Patched(row, it) == [row EXCEPT ![it.patch.flag] = it.patch.to]

\* updateEmailPreferences writes the flag if it was different; a look ends here.
PreferencesSaved(s) ==
    /\ s \in AtWork /\ pfCall[s].row # NULL
    /\ LET it == pfCall[s]
           f == it.patch.flag
       IN  /\ pfRows' = IF f = NULL \/ it.read[f] = it.patch.to THEN pfRows
                        ELSE [pfRows EXCEPT ![it.row] = Patched(@, it)]
           /\ pfAsked' = IF f = NULL THEN pfAsked ELSE [pfAsked EXCEPT ![f] = it.patch.to]
    /\ pfCall' = [pfCall EXCEPT ![s] = NULL]
    /\ UNCHANGED <<pfLooked, pfMixed>>

PreferenceNext ==
    \E s \in Settings :
      \/ \E p \in Patch : PreferencesFound(s, p)
      \/ PreferencesCreated(s) \/ PreferencesSaved(s)

PreferenceSpec == PreferenceInit /\ [][PreferenceNext]_preferenceVars

\* push_enabled !== false; emailAllowed.
Reached(f) == \A r \in TheRow : pfRows[r][f]

-----------------------------------------------------------------------------
(* Rows that are found or made: how many there are of one.                 *)

\* findOrCreate, of the row with these values in these columns. Admins who grant a
\* role look for the profiles too. A manager's is made when he looks at it.
FollowArtist == [table |-> "artist_followers", by |-> {"artist_id", "follower_id"}]
SetUiPreferences == [table |-> "user_ui_preferences", by |-> {"user_id"}]
UpdateArtistProfile == [table |-> "artist_profiles", by |-> {"user_id"}]
UpdateManagerProfile == [table |-> "manager_profiles", by |-> {"user_id"}]
GetMyManagerProfile == UpdateManagerProfile
Finders == {FollowArtist, SetUiPreferences, UpdateArtistProfile, UpdateManagerProfile,
            GetMyManagerProfile}

\* upsert: INSERT ... ON DUPLICATE KEY UPDATE. The job writes a row per currency.
SetCurrency == [table |-> "user_currency_preferences", by |-> {"user_id"}]
UpsertSetting == [table |-> "platform_settings", by |-> {"key"}]
RefreshExchangeRates == [table |-> "exchange_rates", by |-> {"currency_code"}]
Upserters == {SetCurrency, UpsertSetting, RefreshExchangeRates}

\* create, whether there is one or not.
BanFromStream ==
    [table |-> "stream_bans", by |-> {"stream_id", "stream_type", "banned_user_id"}]
BanFromCompetition ==
    [table |-> "competition_bans", by |-> {"competition_id", "banned_user_id"}]
IssueWarning == [table |-> "account_warnings", by |-> {"user_id"}]
Creators == {BanFromStream, BanFromCompetition, IssueWarning}

Seekable == Finders \cup Upserters \cup Creators

ASSUME FoundAssumption == NULL \notin Seekable

\* mutant: no index
NeverUnique(row) == FALSE
\* The database keeps a second row of it out.
Unique(row) == \E k \in UniqueKeys(row.table) : k \subseteq row.by

VARIABLES
    fdSought,   \* the row that is followed, or NULL at first
    fdRows,     \* how many there are of it
    fdCall,     \* what each request does
    \* history:
    fdMade,     \* how many were made
    fdTold      \* how often it was notified that one was

foundVars == <<fdSought, fdRows, fdCall, fdMade, fdTold>>

FoundTypeOK ==
    /\ fdSought \in Seekable \cup {NULL}
    /\ fdRows \in Nat /\ fdMade \in Nat /\ fdTold \in Nat
    /\ fdCall \in [Settings -> {"idle", "absent", "made"}]

FoundInit ==
    /\ fdSought = NULL
    /\ fdRows = 0 /\ fdMade = 0 /\ fdTold = 0
    /\ fdCall = [s \in Settings |-> "idle"]

SawNone == {s \in Settings : fdCall[s] = "absent"}
Telling == {s \in Settings : fdCall[s] = "made"}
Does(s, stage) == fdCall' = [fdCall EXCEPT ![s] = stage]

\* The rows like this one are counted from here on.
Seek(row) ==
    /\ fdSought = NULL /\ fdSought' = row
    /\ UNCHANGED <<fdRows, fdCall, fdMade, fdTold>>

\* findOrCreate finds nothing; or nothing is looked for. (What is found is only
\* patched.)
FindsNone(s) ==
    /\ fdCall[s] = "idle" /\ fdMade < MaxRegistered
    /\ \/ fdSought \in Finders /\ fdRows = 0
       \/ fdSought \in Creators
    /\ Does(s, "absent")
    /\ UNCHANGED <<fdSought, fdRows, fdMade, fdTold>>

\* The INSERT. A duplicate is found after all, "une seule fois, a la creation du suivi"
\* is told.
MakesRow(s) ==
    /\ fdCall[s] = "absent"
    /\ IF Unique(fdSought) /\ fdRows > 0
       THEN Does(s, "idle") /\ UNCHANGED <<fdRows, fdMade>>
       ELSE /\ fdRows' = fdRows + 1 /\ fdMade' = fdMade + 1
            /\ Does(s, IF fdSought \in {FollowArtist, IssueWarning}
                       THEN "made" ELSE "idle")
    /\ UNCHANGED <<fdSought, fdTold>>

\* notifyUser: the artist, or who is warned.
TellsOfRow(s) ==
    /\ fdCall[s] = "made"
    /\ fdTold' = fdTold + 1
    /\ Does(s, "idle")
    /\ UNCHANGED <<fdSought, fdRows, fdMade>>

\* An error, or a crash.
FoundBreaksOff(s) ==
    /\ fdCall[s] # "idle"
    /\ Does(s, "idle")
    /\ UNCHANGED <<fdSought, fdRows, fdMade, fdTold>>

UpsertsRow ==
    /\ fdSought \in Upserters /\ fdMade < MaxRegistered
    /\ LET made == IF Unique(fdSought) /\ fdRows > 0 THEN 0 ELSE 1
       IN  fdRows' = fdRows + made /\ fdMade' = fdMade + made
    /\ UNCHANGED <<fdSought, fdCall, fdTold>>

\* unfollowArtist: every row that has the values.
UnfollowArtist ==
    /\ fdSought = FollowArtist /\ fdRows > 0
    /\ fdRows' = 0
    /\ UNCHANGED <<fdSought, fdCall, fdMade, fdTold>>

\* liftStreamBan, liftCompetitionBan: one row, by its id.
LiftBan ==
    /\ fdSought \in {BanFromStream, BanFromCompetition} /\ fdRows > 0
    /\ fdRows' = fdRows - 1
    /\ UNCHANGED <<fdSought, fdCall, fdMade, fdTold>>

FoundNext ==
    \/ \E row \in Seekable : Seek(row)
    \/ \E s \in Settings :
         FindsNone(s) \/ MakesRow(s) \/ TellsOfRow(s) \/ FoundBreaksOff(s)
    \/ UpsertsRow \/ UnfollowArtist \/ LiftBan

FoundSpec == FoundInit /\ [][FoundNext]_foundVars

-----------------------------------------------------------------------------
(* Properties.                                                             *)

\* A device is pushed on for the user who registered it last, as long as he does not
\* take it back or it is gone, and for nobody else, unless it was registered while
\* something else was done about it.
DevicesAreTheirUsers ==
    \A d \in AllDevices \ dvMixed :
      Registering(d) = {} =>
        /\ \A r \in RowsOf(d) : dvRows[r].user = dvHolder[d]
        /\ Cardinality(RowsOf(d)) =< 1
        /\ d \notin dvDead /\ dvHolder[d] # NULL => RowsOf(d) # {}

\* He is sent what he asked for, unless requests overlapped. What he asked nothing
\* about is sent, but mail only until he opens his preferences: that makes a row with
\* every category off. (jobs/notify.js: "on ne bloque que si l'utilisateur a
\* EXPLICITEMENT desactive la categorie".)
SentAsAsked ==
    AtWork = {} =>
      \A f \in Flags \ pfMixed :
        Reached(f) = IF pfAsked[f] # NULL THEN pfAsked[f] ELSE f = "push" \/ ~pfLooked

\* There is one row of what has a unique key. Of the profiles, which have none, there
\* are more only when requests looked for them at once: never more than requests. Who
\* is followed is told no more often than the following began.
RowsByRaceOnly ==
    /\ fdSought # NULL =>
         (Unique(fdSought) \/ fdSought \in Upserters => fdRows <= 1)
    /\ fdSought \in Finders => fdRows + Cardinality(SawNone) <= Cardinality(Settings)
    /\ fdTold + Cardinality(Telling) <= fdMade

\* The right devices, what was asked for, and one row of each kind.
ReachedAsAsked == DevicesAreTheirUsers /\ SentAsAsked /\ RowsByRaceOnly
=============================================================================
