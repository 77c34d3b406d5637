------------------------------ MODULE Erasure ------------------------------
(***************************************************************************)
(* Rows made and rows erased, under the foreign keys of the schema. An     *)
(* INSERT is refused when a key finds no row; a DELETE takes the rows that *)
(* hang on what it erases with it, or clears the column that named it. The *)
(* services rely on it: deleteUser erases the profile and the user, the    *)
(* rest is 'left to DB-level cascade'.                                     *)
(*                                                                         *)
(* One table is followed at a time, with a row of each table it names, and *)
(* so on, and two users.                                                   *)
(***************************************************************************)
EXTENDS Tables, Integers

\* NULL is the name of no table; users and concerts name no rows.
ASSUME ErasureAssumption == NULL \notin {"users", "concerts"} \cup DOMAIN Columns

VARIABLES
    erTable,    \* the table whose rows are made, or NULL at first
    erColumns,  \* the rows there are: [row -> [column -> row or NULL]]
    erHidden,   \* those that are soft-deleted
    erAsked,    \* a row a request is about to insert, or NULL
    \* history:
    erRefused   \* the columns for which a key refused a row that named a row there is

erasureVars == <<erTable, erColumns, erHidden, erAsked, erRefused>>

Rows == DOMAIN erColumns
TableOf(r) == r[1]
NamesOf(t) == {c.column : c \in ColumnsOf(t)}
\* Of the tables a column without a key can name, one stands for the others.
Named(c) == IF c.key = NULL THEN {CHOOSE t \in c.names : TRUE} ELSE c.names
NamedBy(t) == UNION {Named(c) : c \in ColumnsOf(t)}

\* The tables a row of t can hang on, through others too.
Above(t) ==
    LET Up[n \in 0..4] ==
          IF n = 0 THEN {} ELSE UNION {NamedBy(p) : p \in {t} \cup Up[n - 1]}
    IN  Up[4]

\* The row of p that stands before the first row of t is made.
Stands(p, t) == <<p, IF p = t THEN 2 ELSE 1>>
Standing(t) ==
    {<<"users", 1>>, <<"users", 2>>} \cup {Stands(p, t) : p \in Above(t) \ {"users"}}

\* A row of p as it stands, or is asked for: of the first user. Its optional columns
\* are empty but for those that make it go with the row they name.
First(p, t) ==
    LET Value == [c \in ColumnsOf(p) |->
          IF ~c.required /\ (c.rule # "cascade" \/ c.key = p) THEN NULL
          ELSE IF c.key \in Named(c) THEN Stands(c.key, t)
          ELSE Stands(CHOOSE q \in Named(c) : TRUE, t)]
    IN  [n \in NamesOf(p) |-> Value[CHOOSE c \in DOMAIN Value : c.column = n]]

ErasureTypeOK ==
    /\ erTable \in DOMAIN Columns \cup {NULL}
    /\ \A r \in Rows : DOMAIN erColumns[r] = NamesOf(TableOf(r))
    /\ erHidden \subseteq Rows
    /\ erAsked = NULL \/ TableOf(erAsked.row) = erTable
    /\ erRefused \subseteq {<<erTable, n>> : n \in NamesOf(erTable)}

ErasureInit ==
    /\ erTable = NULL
    /\ erColumns = [r \in {} |-> NULL]
    /\ erHidden = {}
    /\ erAsked = NULL
    /\ erRefused = {}

\* The rows of t are made from here on.
Follow(t) ==
    /\ erTable = NULL
    /\ erTable' = t
    /\ erColumns' = [r \in Standing(t) |-> First(TableOf(r), t)]
    /\ UNCHANGED <<erHidden, erAsked, erRefused>>

-----------------------------------------------------------------------------
(* Rows made.                                                              *)

\* What a column of a new row can hold: a row the request has seen.
CanHold(c, x) ==
    IF x = NULL THEN ~c.required
    ELSE TableOf(x) \in c.names /\ x \in Rows \ erHidden

\* A request names rows it sees; until it inserts, they can go. A profile has
\* the id of its user.
Ask ==
    /\ erAsked = NULL /\ erTable # NULL
    /\ <<erTable, 1>> \notin Rows
    /\ \E plain \in {First(erTable, erTable)}, c \in ColumnsOf(erTable),
          x \in Rows \cup {NULL} :
         /\ CanHold(c, x)
         /\ \A d \in ColumnsOf(erTable) \ {c} : CanHold(d, plain[d.column])
         /\ erAsked' = [row |-> <<erTable, 1>>,
                        columns |-> [plain EXCEPT ![c.column] = x]]
    /\ UNCHANGED <<erTable, erColumns, erHidden, erRefused>>

\* The key of c finds the row x.
KeyHolds(c, x) == c.key = NULL \/ x = NULL \/ (TableOf(x) = c.key /\ x \in Rows)

Insert ==
    /\ erAsked # NULL
    /\ LET Held(c) == erAsked.columns[c.column]
           failed == {c \in ColumnsOf(erTable) : ~KeyHolds(c, Held(c))}
       IN  /\ erColumns' = IF failed = {}
                             THEN [r \in Rows \cup {erAsked.row} |->
                                     IF r = erAsked.row THEN erAsked.columns
                                                        ELSE erColumns[r]]
                             ELSE erColumns
           /\ erRefused' = erRefused \cup
                {<<erTable, c.column>> : c \in {d \in failed : Held(d) \in Rows}}
    /\ erAsked' = NULL
    /\ UNCHANGED <<erTable, erHidden>>

-----------------------------------------------------------------------------
(* Rows erased.                                                            *)

\* A key of r with ON DELETE CASCADE names one of the rows.
HangsOn(r, rows) ==
    \E c \in ColumnsOf(TableOf(r)) : c.rule = "cascade" /\ erColumns[r][c.column] \in rows

\* mutant: ON DELETE takes only what names the erased rows themselves
OneLevelDown(roots) == roots \cup {r \in Rows : HangsOn(r, roots)}
\* The rows that go with the rows 'roots': the fewest that have with them whatever
\* hangs on one of them.
GoWith(roots) ==
    LET Closed == {rows \in SUBSET Rows :
                     /\ roots \cap Rows \subseteq rows
                     /\ \A r \in Rows : HangsOn(r, rows) => r \in rows}
    IN  {r \in Rows : \A rows \in Closed : r \in rows}

\* DELETE of the rows, with ON DELETE SET NULL in those that stay.
Erase(roots) ==
    \E gone \in {GoWith(roots)} :
      /\ erColumns' = [r \in Rows \ gone |->
           [n \in DOMAIN erColumns[r] |->
              IF /\ erColumns[r][n] \in gone
                 /\ \E c \in ColumnsOf(TableOf(r)) : c.column = n /\ c.rule = "set null"
              THEN NULL ELSE erColumns[r][n]]]
      /\ erHidden' = erHidden \ gone
      /\ UNCHANGED <<erTable, erAsked, erRefused>>

\* The account and its profile, in one transaction.
DeleteUser(u) ==
    TableOf(u) = "users" /\ u \in Rows /\ Erase({u, <<"profiles", u[2]>>})

DeleteRow(t, r) == TableOf(r) = t /\ r \in Rows /\ Erase({r})

DeleteDuel(r) == DeleteRow("duels", r)
DeleteLive(r) == DeleteRow("artist_lives", r)
DeleteArtistConcert(r) == DeleteRow("artist_concerts", r)
DeleteGift(r) == DeleteRow("virtual_gifts", r)
LiftStreamBan(r) == DeleteRow("stream_bans", r)
LiftCompetitionBan(r) == DeleteRow("competition_bans", r)
DeleteNotification(r) == DeleteRow("notifications", r)
DeleteReward(r) == DeleteRow("leaderboard_rewards", r)
DeleteRole(r) == DeleteRow("user_roles", r)
Unfollow(r) == DeleteRow("artist_followers", r)

\* deleteSeason erases the season's rewards, then the season: two statements.
DeleteSeasonRewards(s) ==
    /\ TableOf(s) = "leaderboard_seasons" /\ s \in Rows
    /\ Erase({r \in Rows : /\ TableOf(r) = "leaderboard_rewards"
                           /\ erColumns[r]["season_id"] = s})
DeleteSeason(s) ==
    /\ \A r \in Rows : TableOf(r) = "leaderboard_rewards" => erColumns[r]["season_id"] # s
    /\ DeleteRow("leaderboard_seasons", s)

\* paranoid: destroy() sets deleted_at, and the services see the row no more.
Paranoid == {"comments", "blogs", "lifestyle_videos", "replay_videos"}
Hide(r) ==
    /\ r \in Rows /\ TableOf(r) \in Paranoid
    /\ erHidden' = erHidden \cup {r}
    /\ UNCHANGED <<erTable, erColumns, erAsked, erRefused>>

ErasureNext ==
    \/ \E t \in DOMAIN Columns : Follow(t)
    \/ Ask
    \/ Insert
    \/ \E r \in Rows :
         \/ DeleteUser(r)
         \/ DeleteDuel(r) \/ DeleteLive(r) \/ DeleteArtistConcert(r)
         \/ DeleteGift(r) \/ DeleteReward(r)
         \/ LiftStreamBan(r) \/ LiftCompetitionBan(r)
         \/ DeleteNotification(r) \/ DeleteRole(r) \/ Unfollow(r)
         \/ DeleteSeasonRewards(r) \/ DeleteSeason(r)
         \/ Hide(r)

ErasureSpec == ErasureInit /\ [][ErasureNext]_erasureVars

-----------------------------------------------------------------------------
(* Properties.                                                             *)

\* The columns without a key that can name a row that is gone.
MayDangle == [
    comments |-> {"content_id"}, competition_bans |-> {"banned_by", "banned_user_id"},
    competition_gifts |-> {"candidate_id", "gift_id"},
    competition_votes |-> {"candidate_id"},
    competitions |-> {"current_performer_id", "forced_focus_participant_id"},
    duels |-> {"current_timer_target_id"}, gift_transactions |-> {"gift_id", "live_id"},
    idempotency_keys |-> {"user_id"}, leaderboard_rewards |-> {"season_id"},
    live_chat_messages |-> {"live_id"}, live_join_requests |-> {"live_id"},
    live_likes |-> {"live_id"}, live_reports |-> {"live_id"},
    platform_settings |-> {"updated_by"}, profiles |-> {"referred_by"},
    replay_access |-> {"replay_id"}, replay_likes |-> {"replay_id"},
    revenue_distributions |-> {"payer_id"},
    season_winners |-> {"meeting_proposed_by", "season_id"},
    sponsor_ad_plays |-> {"event_id", "request_id", "triggered_by"},
    sponsor_ad_videos |-> {"event_id", "uploaded_by"},
    sponsor_requests |-> {"event_id"},
    stream_bans |-> {"banned_by", "banned_user_id", "stream_id"},
    stream_recordings |-> {"artist_id", "created_by", "replay_id", "source_id"},
    user_gifts |-> {"gift_id"}, video_interactions |-> {"video_id"},
    webrtc_signaling |-> {"target_id"}]

\* What the proof of NothingElseDangles takes from the schema; TLC evaluates it.
\* A column has a name of its own in its table, and a key has its ON DELETE.
ASSUME ColumnsAssumption ==
    \A t \in DOMAIN Columns :
      /\ \A c, d \in Columns[t] : c.column = d.column => c = d
      /\ \A c \in Columns[t] :
           c.names # {} /\ (c.key # NULL => c.rule \in {"cascade", "set null"})

\* Four steps up reach all that a row can hang on; nothing hangs on a dedication.
ASSUME AboveAssumption ==
    \A t \in DOMAIN Columns :
      /\ \A p \in {t} \cup Above(t) : NamedBy(p) \subseteq Above(t)
      /\ "concert_dedications" \notin Above(t)

\* A column without a key that is not in MayDangle names a sponsor's video, or is one
\* of these: the proof shows that such videos stay, that no dedication is accepted, and
\* that a session goes only with its user, who is the user of the one it replaced.
ASSUME UnkeyedAssumption ==
    \A t \in DOMAIN Columns : \A c \in Columns[t] :
      \/ c.key # NULL
      \/ t \in DOMAIN MayDangle /\ c.column \in MayDangle[t]
      \/ c.names = {"sponsor_ad_videos"}
      \/ t = "concert_dedications"
      \/ t = "refresh_tokens" /\ c.column = "replaced_by"

\* What deleteUser leaves 'to DB-level cascade' is taken care of: whatever is
\* erased, and however late a request inserts what it had seen, only these columns
\* name a row that is gone; nothing that hung on a row of a user is left in the air.
NothingElseDangles ==
    \A r \in Rows : \A n \in DOMAIN erColumns[r] :
      \/ erColumns[r][n] \in Rows \cup {NULL}
      \/ TableOf(r) \in DOMAIN MayDangle /\ n \in MayDangle[TableOf(r)]

\* "buys a ticket for an artist_concert (fallback: admin concerts)": a row that
\* names what the service found is not refused while that still exists.
FoundIsAccepted == erRefused = {}
=============================================================================
