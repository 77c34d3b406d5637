------------------------------ MODULE Seasons ------------------------------
(***************************************************************************)
(* What rankings bring: the winners of one season, and the badges of one   *)
(* month, two state machines that share no row.                            *)
(*                                                                         *)
(* Winners (SeasonSpec): an admin enters them, tells those who were not    *)
(* told, by a loop that notifies and then stamps each row, and has each    *)
(* reward distributed by a stored procedure; a winner confirms that the    *)
(* reward arrived. Rows are read without a lock and saved by id, the       *)
(* changed columns only; the procedure locks the row it works on.          *)
(*                                                                         *)
(* Badges (BadgeSpec), assignMonthlyBadges: what each donor spent this     *)
(* month is read, in several queries, and sorted; the month's badges are   *)
(* destroyed and made again one by one, each followed by a notice. Nothing *)
(* makes the writes one transaction. A run that breaks off is followed by  *)
(* another: BullMQ takes up a stalled job again.                           *)
(***************************************************************************)
EXTENDS Integers, SequencesExt, Null

CONSTANTS
    Winners,        \* rows of season_winners, made or to be made
    Material,       \* winners whose rank's reward is credits or a gift
    Announcers,     \* requests to notifyWinners
    Donors,         \* users who spend
    TopRank,        \* 10 in the code
    MaxSpent,       \* bound: what a donor spends
    MaxRuns         \* bound: runs of the job

ASSUME SeasonAssumption ==
    /\ Material \subseteq Winners /\ NULL \notin Winners
    /\ IsFiniteSet(Donors) /\ TopRank \in Nat \ {0}
    /\ MaxSpent \in Nat /\ MaxRuns \in Nat

VARIABLES
    swMade,         \* rows that exist
    swStamped,      \* notified_winner_at is set
    swTold,         \* how often each winner was notified, up to 2
    swCall,         \* each announcer's call: rows it has still to do, the one it has told
    swReward,       \* reward_status
    swPaid,         \* winners whose wallet or inventory was credited
    \* history:
    swTwice,        \* winners two calls had in hand at once, or a call that broke off
                    \* between notice and stamp
    swPatched       \* winners whose stamp or status an admin wrote himself

seasonVars == <<swMade, swStamped, swTold, swCall, swReward, swPaid, swTwice, swPatched>>

NoCall == [left |-> {}, told |-> NULL]

SeasonTypeOK ==
    /\ swMade \subseteq Winners /\ swStamped \subseteq Winners /\ swPaid \subseteq Winners
    /\ swTwice \subseteq Winners /\ swPatched \subseteq Winners
    /\ swTold \in [Winners -> 0..2]
    /\ swCall \in [Announcers -> [left : SUBSET Winners, told : Winners \cup {NULL}]]
    /\ swReward \in [Winners -> {"pending", "distributed", "received"}]

SeasonInit ==
    /\ swMade = {} /\ swStamped = {} /\ swPaid = {}
    /\ swTwice = {} /\ swPatched = {}
    /\ swTold = [w \in Winners |-> 0]
    /\ swCall = [a \in Announcers |-> NoCall]
    /\ swReward = [w \in Winners |-> "pending"]

InHand(w) == \E a \in Announcers : w \in swCall[a].left
ToldOnly(w) == \E a \in Announcers : swCall[a].told = w

\* mutant: every winner of the season
AllWinners == swMade
\* The rows with notified_winner_at NULL.
NotYetTold == swMade \ swStamped

-----------------------------------------------------------------------------
\* createSeasonWinner: the statuses are given, or as they are at first.
CreateWinner(w) ==
    /\ w \notin swMade
    /\ swMade' = swMade \cup {w}
    /\ UNCHANGED <<swStamped, swTold, swCall, swReward, swPaid, swTwice, swPatched>>

\* notifyWinners: findAll ...
FindWinners(a) ==
    /\ swCall[a] = NoCall /\ NotYetTold # {}
    /\ swCall' = [swCall EXCEPT ![a] = [left |-> NotYetTold, told |-> NULL]]
    /\ swTwice' = swTwice \cup {w \in NotYetTold : InHand(w)}
    /\ UNCHANGED <<swMade, swStamped, swTold, swReward, swPaid, swPatched>>

\* ... for each, the notice (its failure is caught) ...
TellWinner(a, w) ==
    /\ w \in swCall[a].left /\ swCall[a].told = NULL
    /\ swTold' = [swTold EXCEPT ![w] = IF @ = 2 THEN 2 ELSE @ + 1]
    /\ swCall' = [swCall EXCEPT ![a] = [@ EXCEPT !.told = w]]
    /\ UNCHANGED <<swMade, swStamped, swReward, swPaid, swTwice, swPatched>>

\* ... and the stamp.
StampWinner(a) ==
    /\ swCall[a].told # NULL
    /\ swStamped' = swStamped \cup {swCall[a].told}
    /\ swCall' = [swCall EXCEPT ![a] = [left |-> @.left \ {@.told}, told |-> NULL]]
    /\ UNCHANGED <<swMade, swTold, swReward, swPaid, swTwice, swPatched>>

\* A save fails, or the process stops.
CallBreaksOff(a) ==
    /\ swCall[a] # NoCall
    /\ swCall' = [swCall EXCEPT ![a] = NoCall]
    /\ swTwice' = swTwice \cup {w \in Winners : w = swCall[a].told}
    /\ UNCHANGED <<swMade, swStamped, swTold, swReward, swPaid, swPatched>>

\* distribute_season_reward: one transaction; the status is not looked at.
DistributeReward(w) ==
    /\ w \in swMade
    /\ swReward' =
         [swReward EXCEPT ![w] = IF w \in Material THEN "received" ELSE "distributed"]
    /\ swPaid' = IF w \in Material THEN swPaid \cup {w} ELSE swPaid
    /\ UNCHANGED <<swMade, swStamped, swTold, swCall, swTwice, swPatched>>

\* markRewardReceived, before or after it was given.
MarkReceived(w) ==
    /\ w \in swMade
    /\ swReward' = [swReward EXCEPT ![w] = "received"]
    /\ UNCHANGED <<swMade, swStamped, swTold, swCall, swPaid, swTwice, swPatched>>

\* updateWinner: an admin writes the stamp, or the status.
PatchWinner(w) ==
    /\ w \in swMade
    /\ \/ /\ swStamped' = IF w \in swStamped THEN swStamped \ {w} ELSE swStamped \cup {w}
          /\ UNCHANGED swReward
       \/ \E status \in {"pending", "distributed", "received"} :
            /\ swReward[w] # status
            /\ swReward' = [swReward EXCEPT ![w] = status]
            /\ UNCHANGED swStamped
    /\ swPatched' = swPatched \cup {w}
    /\ UNCHANGED <<swMade, swTold, swCall, swPaid, swTwice>>

SeasonNext ==
    \/ \E w \in Winners :
         CreateWinner(w) \/ DistributeReward(w) \/ MarkReceived(w) \/ PatchWinner(w)
    \/ \E a \in Announcers :
         \/ FindWinners(a) \/ StampWinner(a) \/ CallBreaksOff(a)
         \/ \E w \in Winners : TellWinner(a, w)

SeasonSpec == SeasonInit /\ [][SeasonNext]_seasonVars

-----------------------------------------------------------------------------
(* Badges.                                                                 *)

VARIABLES
    bgSpent,        \* gifts and votes of each donor, this month
    bgRows,         \* user_badges of the month: the donor, the rank, the run that made it
    bgRun,          \* the number of the last run
    bgTop,          \* the donors as the run has sorted them, best first
    bgAt,           \* where the run is
    bgNext          \* the rank it gives next

badgeVars == <<bgSpent, bgRows, bgRun, bgTop, bgAt, bgNext>>

Tops == UNION {{s \in [1..n -> Donors] : \A j, k \in 1..n : s[j] = s[k] => j = k} :
                 n \in 0..Cardinality(Donors)}
Badge == [donor : Donors, rank : 1..TopRank, run : 1..MaxRuns]

BadgeTypeOK ==
    /\ bgSpent \in [Donors -> 0..MaxSpent]
    /\ bgRows \subseteq Badge
    /\ bgRun \in 0..MaxRuns
    /\ bgTop \in Tops
    /\ bgAt \in {"idle", "ranked", "awarding"} /\ bgNext \in 1..TopRank + 1

BadgeInit ==
    /\ bgSpent = [d \in Donors |-> 0]
    /\ bgRows = {} /\ bgRun = 0
    /\ bgTop = <<>> /\ bgAt = "idle" /\ bgNext = 1

\* mutant: the badges of an earlier run stay
KeepBadges == bgRows
\* UserBadge.destroy of the month's three kinds.
DestroyBadges == {}

\* mutant: every donor of the month
EveryRank(rank) == TRUE
\* The ranks that earn a badge.
EarnsBadge(rank) == rank =< TopRank

Ranked(s) ==
    /\ Range(s) = {d \in Donors : bgSpent[d] > 0}
    /\ \A j, k \in DOMAIN s : j < k => bgSpent[s[j]] >= bgSpent[s[k]]

Spend(d) ==
    /\ bgSpent[d] < MaxSpent
    /\ bgSpent' = [bgSpent EXCEPT ![d] = @ + 1]
    /\ UNCHANGED <<bgRows, bgRun, bgTop, bgAt, bgNext>>

\* The queries and the sort. Nobody spent: the run ends before the destroy.
RankDonors ==
    /\ bgAt = "idle" /\ bgRun < MaxRuns
    /\ bgRun' = bgRun + 1
    /\ \E s \in Tops : Ranked(s) /\ bgTop' = s
    /\ bgAt' = IF bgTop' = <<>> THEN "idle" ELSE "ranked"
    /\ UNCHANGED <<bgSpent, bgRows, bgNext>>

Clear ==
    /\ bgAt = "ranked"
    /\ bgRows' = DestroyBadges
    /\ bgAt' = "awarding"
    /\ UNCHANGED <<bgSpent, bgRun, bgTop, bgNext>>

\* The badge of one rank, and its notice.
Award ==
    /\ bgAt = "awarding" /\ bgNext \in DOMAIN bgTop /\ EarnsBadge(bgNext)
    /\ bgRows' = bgRows \cup {[donor |-> bgTop[bgNext], rank |-> bgNext, run |-> bgRun]}
    /\ bgNext' = bgNext + 1
    /\ UNCHANGED <<bgSpent, bgRun, bgTop, bgAt>>

Stop == bgAt' = "idle" /\ bgTop' = <<>> /\ bgNext' = 1 /\ UNCHANGED <<bgSpent, bgRows, bgRun>>

RunEnds ==
    /\ bgAt = "awarding"
    /\ bgNext > Len(bgTop) \/ ~EarnsBadge(bgNext)
    /\ Stop

\* A failing query or notice, or a crash.
RunBreaks == bgAt # "idle" /\ Stop

BadgeNext ==
    \/ \E d \in Donors : Spend(d)
    \/ RankDonors \/ Clear \/ Award \/ RunEnds \/ RunBreaks

BadgeSpec == BadgeInit /\ [][BadgeNext]_badgeVars

-----------------------------------------------------------------------------
(* Properties.                                                             *)

\* However often notifyWinners is called, and wherever a call breaks off, a winner
\* is told once when stamped, or about to be, and not before, unless two calls had
\* the row at once, one broke off between notice and stamp, or an admin wrote the
\* stamp; and a winner who was credited reads received, whoever saved the row since.
WinnersServed ==
    \A w \in Winners \ swPatched :
      /\ w \notin swTwice => swTold[w] = IF w \in swStamped \/ ToldOnly(w) THEN 1 ELSE 0
      /\ w \in swPaid => swReward[w] = "received"

\* The month's badges are the best ranks of one run: no donor has two, no rank
\* is given twice and none is skipped, wherever an earlier run broke off and
\* however the order changed since.
BadgesAreOneRun ==
    /\ \A x, y \in bgRows : x.run = y.run /\ (x.donor = y.donor \/ x.rank = y.rank => x = y)
    /\ {x.rank : x \in bgRows} = 1..Cardinality(bgRows)
=============================================================================
