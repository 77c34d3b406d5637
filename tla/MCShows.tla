---------------------------- MODULE MCShows ----------------------------
(***************************************************************************)
(* One invitation, one competition, one concert, one season, with two or   *)
(* three requests about each in flight.                                    *)
(***************************************************************************)
EXTENDS Shows, TLC

CONSTANTS t1, t2, t3, u1, u2

\* The first viewer has two tickets.
MCHolder == t1 :> u1 @@ t2 :> u1 @@ t3 :> u2

\* Three rows, two of them made in one second; dates and bans in another order.
MCId == [r \in 1..3 |-> r]
MCColumn ==
    [c \in Columns |-> IF c = "created_at" THEN <<2, 1, 1>> ELSE <<1, 2, 1>>]

\* Gifts leave 20 % to the platform; a ticket is shared by all.
MCSections ==
    LET none == [platform |-> 20, artist |-> 0, artists |-> 0, manager |-> 0,
                 winnerShare |-> 50, enabled |-> FALSE]
    IN  [gift |-> none,
         duel_ticket |-> [none EXCEPT !.artists = 60, !.manager = 20]]

\* The VIEW: the parts that are not in focus are as they were at first.
PartInFocus ==
    <<focus,
      CASE focus = "duels" -> duelVars
        [] focus = "ranking" -> rankVars
        [] focus = "stage" -> stageVars
        [] focus = "reminders" -> reminderVars
        [] focus = "badges" -> badgeVars
        [] focus = "seasons" -> seasonVars
        [] focus = "leaderboard" -> leaderboardVars
        [] focus = "approval" -> approvalVars
        [] focus = "reports" -> reportVars
        [] focus = "likes" -> likeVars
        [] focus = "hearts" -> heartVars
        [] focus = "lives" -> liveVars
        [] focus = "joins" -> joinVars
        [] focus = "lists" -> listVars
        [] focus = "presence" -> presenceVars
        [] focus = "revenues" -> revenueVars
        [] focus = "engagement" -> engagementVars>>
=============================================================================
