------------------------------ MODULE Shows ------------------------------
(***************************************************************************)
(* Events and what goes with them: duel requests, competitions, concerts   *)
(* and their approval, monthly badges, seasons, likes, lives, the lists    *)
(* they are read from, and the sums that are made of what they brought in. *)
(* These parts share no table, and no step of one reads or writes what     *)
(* another has: a behaviour of them together is an interleaving of their   *)
(* own behaviours, and a property that speaks of one part holds of them    *)
(* all if it holds while the others stand still. Those are the behaviours  *)
(* of this module.                                                         *)
(***************************************************************************)
EXTENDS Duels, Competition, Reminders, Seasons, Leaderboard, Approval,
        Audience, Listing, Reports

VARIABLE focus      \* the part that moves

Parts == {"duels", "ranking", "stage", "reminders", "badges", "seasons",
          "leaderboard", "approval", "reports", "likes", "hearts", "lives",
          "joins", "lists", "presence", "revenues", "engagement"}

showsVars == <<duelVars, rankVars, stageVars, reminderVars, badgeVars,
               seasonVars, leaderboardVars, approvalVars, reportVars,
               likeVars, heartVars, liveVars, joinVars, listVars,
               presenceVars, revenueVars, engagementVars, focus>>

\* Of the part that moves: the others are as they began.
ShowsTypeOK ==
    /\ focus \in Parts
    /\ focus = "duels" => DuelTypeOK
    /\ focus = "ranking" => RankTypeOK
    /\ focus = "stage" => StageTypeOK
    /\ focus = "reminders" => ReminderTypeOK
    /\ focus = "badges" => BadgeTypeOK
    /\ focus = "seasons" => SeasonTypeOK
    /\ focus = "leaderboard" => LeaderboardTypeOK
    /\ focus = "approval" => ApprovalTypeOK
    /\ focus = "reports" => ReportTypeOK
    /\ focus = "likes" => LikeTypeOK
    /\ focus = "hearts" => HeartTypeOK
    /\ focus = "lives" => LiveTypeOK
    /\ focus = "joins" => JoinTypeOK
    /\ focus = "lists" => ListTypeOK
    /\ focus = "presence" => PresenceTypeOK
    /\ focus = "revenues" => RevenueTypeOK
    /\ focus = "engagement" => EngagementTypeOK

ShowsInit ==
    /\ focus \in Parts
    /\ DuelInit
    /\ RankInit
    /\ StageInit
    /\ ReminderInit
    /\ BadgeInit
    /\ SeasonInit
    /\ LeaderboardInit
    /\ ApprovalInit
    /\ ReportInit
    /\ LikeInit
    /\ HeartInit
    /\ LiveInit
    /\ JoinInit
    /\ ListInit
    /\ PresenceInit
    /\ RevenueInit
    /\ EngagementInit

\* The other parts stand still.
Only(part) ==
    /\ focus = part /\ UNCHANGED focus
    /\ part # "duels" => UNCHANGED duelVars
    /\ part # "ranking" => UNCHANGED rankVars
    /\ part # "stage" => UNCHANGED stageVars
    /\ part # "reminders" => UNCHANGED reminderVars
    /\ part # "badges" => UNCHANGED badgeVars
    /\ part # "seasons" => UNCHANGED seasonVars
    /\ part # "leaderboard" => UNCHANGED leaderboardVars
    /\ part # "approval" => UNCHANGED approvalVars
    /\ part # "reports" => UNCHANGED reportVars
    /\ part # "likes" => UNCHANGED likeVars
    /\ part # "hearts" => UNCHANGED heartVars
    /\ part # "lives" => UNCHANGED liveVars
    /\ part # "joins" => UNCHANGED joinVars
    /\ part # "lists" => UNCHANGED listVars
    /\ part # "presence" => UNCHANGED presenceVars
    /\ part # "revenues" => UNCHANGED revenueVars
    /\ part # "engagement" => UNCHANGED engagementVars

ShowsNext ==
    \/ Only("duels") /\ DuelNext
    \/ Only("ranking") /\ RankNext
    \/ Only("stage") /\ StageNext
    \/ Only("reminders") /\ ReminderNext
    \/ Only("badges") /\ BadgeNext
    \/ Only("seasons") /\ SeasonNext
    \/ Only("leaderboard") /\ LeaderboardNext
    \/ Only("approval") /\ ApprovalNext
    \/ Only("reports") /\ ReportNext
    \/ Only("likes") /\ LikeNext
    \/ Only("hearts") /\ HeartNext
    \/ Only("lives") /\ LiveNext
    \/ Only("joins") /\ JoinNext
    \/ Only("lists") /\ ListNext
    \/ Only("presence") /\ PresenceNext
    \/ Only("revenues") /\ RevenueNext
    \/ Only("engagement") /\ EngagementNext

ShowsSpec == ShowsInit /\ [][ShowsNext]_showsVars

-----------------------------------------------------------------------------
\* What is shown of points and of money agrees with what they were given for.
TotalsAgree ==
    /\ DriftByOverlapOnly
    /\ focus = "revenues" => RevenuesAddUp
    /\ focus = "engagement" => EngagementAddsUp

\* What is approved was seen, and a verdict is of a review.
DecisionsStand == AudienceSeesApproved /\ VerdictsAreLogged
=============================================================================
