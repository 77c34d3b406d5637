---------------------------- MODULE Leaderboard ----------------------------
(***************************************************************************)
(* The sorted set in Redis that mirrors the board of one season of         *)
(* artists. Votes and gifts are committed to the database and then, not    *)
(* awaited, added to the set; a duel's winner is only written to the       *)
(* database. A reader that finds no set queries the database and fills it. *)
(* The set expires; what is added then starts a set of one member.         *)
(*                                                                         *)
(* Only the seasons a process believes active are added to: it keeps their *)
(* list for a minute, and nothing makes it look earlier.                   *)
(*                                                                         *)
(* The season keeps its type and dates, fewer than two hundred artists     *)
(* have points, a vote is of one credit and so is the price of the gift.   *)
(***************************************************************************)
EXTENDS Integers, FiniteSets, FiniteSetsExt, Null

CONSTANTS
    Artists,        \* artists with a profile
    Bumpers,        \* requests that paid and have still to add to the set
    Readers,        \* requests for the top of the board
    MaxPaid         \* votes and gifts together

ASSUME LeaderboardAssumption ==
    /\ NULL \notin Artists
    /\ IsFiniteSet(Artists) /\ IsFiniteSet(Bumpers)
    /\ MaxPaid \in Nat

VARIABLES
    lbVotes,        \* credits voted for each artist
    lbGifts,        \* credits of gifts
    lbWinner,       \* winner_id of the duel of the season
    lbSeason,       \* is_active of the season, "none" before its row
    lbListed,       \* the process's list of active seasons has it
    lbSet,          \* the sorted set: member to score
    lbBump,         \* what each request will add: artist and kind
    lbReader,       \* each reader: how far it is, the rows it read
    \* history:
    lbSeen,         \* the winner the rows of the set counted
    lbDrifted       \* the set was started by an addition, misses a lost one or one of
                    \* a season not listed, was filled while one was on its way, or
                    \* over a set with another winner

leaderboardVars == <<lbVotes, lbGifts, lbWinner, lbSeason, lbListed, lbSet, lbBump,
                     lbReader, lbSeen, lbDrifted>>

NoBump == [artist |-> NULL, kind |-> "vote"]
NoReader == [at |-> "idle", rows |-> <<>>, winner |-> NULL, clean |-> FALSE]
Warm == DOMAIN lbSet # {}

LeaderboardTypeOK ==
    /\ lbVotes \in [Artists -> 0..MaxPaid] /\ lbGifts \in [Artists -> 0..MaxPaid]
    /\ lbWinner \in Artists \cup {NULL} /\ lbSeen \in Artists \cup {NULL}
    /\ DOMAIN lbSet \subseteq Artists /\ \A a \in DOMAIN lbSet : lbSet[a] \in Nat
    /\ lbBump \in [Bumpers -> {NoBump} \cup [artist : Artists, kind : {"vote", "gift"}]]
    /\ \A r \in Readers : /\ lbReader[r].at \in {"idle", "cold", "read"}
                          /\ DOMAIN lbReader[r].rows \subseteq Artists
                          /\ lbReader[r].winner \in Artists \cup {NULL}
                          /\ lbReader[r].clean \in BOOLEAN
    /\ lbDrifted \in BOOLEAN
    /\ lbSeason \in {"none", "on", "off"} /\ lbListed \in BOOLEAN

LeaderboardInit ==
    /\ lbVotes = [a \in Artists |-> 0] /\ lbGifts = [a \in Artists |-> 0]
    /\ lbWinner = NULL /\ lbSeen = NULL
    /\ lbSet = <<>>
    /\ lbSeason = "none" /\ lbListed = FALSE
    /\ lbBump = [b \in Bumpers |-> NoBump]
    /\ lbReader = [r \in Readers |-> NoReader]
    /\ lbDrifted = FALSE

\* mutant: a gift is added as a vote is
SamePoints(kind) == 10
\* SCORE: what a credit adds to the set.
Points(kind) == IF kind = "vote" THEN 10 ELSE 5

\* ARTIST_SQL, with the winner of the duel; artists without points have no row.
SeasonScore(a, winner) == lbVotes[a] * 10 + lbGifts[a] * 5 + IF winner = a THEN 50 ELSE 0
SeasonRows ==
    [a \in {x \in Artists : SeasonScore(x, lbWinner) > 0} |-> SeasonScore(a, lbWinner)]

\* A score goes up, or a row comes in with it.
WithScore(set, a, points) ==
    [x \in DOMAIN set \cup {a} |->
       (IF x \in DOMAIN set THEN set[x] ELSE 0) + IF x = a THEN points ELSE 0]

\* Scores are written over those that are there, or come in.
WithRows(set, rows) ==
    [x \in DOMAIN set \cup DOMAIN rows |-> IF x \in DOMAIN rows THEN rows[x] ELSE set[x]]

PaidTo == [a \in Artists |-> lbVotes[a] + lbGifts[a]]
Paid == MapThenSumSet(LAMBDA a : PaidTo[a], Artists)

\* The set is empty, or holds what a reader of the same state put there.
FilledAlone(r) == Warm => ~lbDrifted /\ lbSeen = lbReader[r].winner

\* The rows a reader has read were not up to date with what was added to the set.
Overtaken == [r \in Readers |-> [lbReader[r] EXCEPT !.clean = FALSE]]

-----------------------------------------------------------------------------
\* deduct_wallet_and_vote and send_gift_with_distribution commit.
PayFor(b, a, kind) ==
    /\ lbBump[b] = NoBump /\ Paid < MaxPaid
    /\ lbVotes' = [lbVotes EXCEPT ![a] = IF kind = "vote" THEN @ + 1 ELSE @]
    /\ lbGifts' = [lbGifts EXCEPT ![a] = IF kind = "gift" THEN @ + 1 ELSE @]
    /\ lbBump' = [lbBump EXCEPT ![b] = [artist |-> a, kind |-> kind]]
    /\ UNCHANGED <<lbWinner, lbSeason, lbListed, lbSet, lbReader, lbSeen, lbDrifted>>

\* updateDuel writes winner_id, and may write another. recordWin is not called.
SetWinner(a) ==
    /\ lbWinner # a
    /\ lbWinner' = a
    /\ UNCHANGED <<lbVotes, lbGifts, lbSeason, lbListed, lbSet, lbBump, lbReader,
                   lbSeen, lbDrifted>>

\* createSeason and updateSeason: the admin's; neither calls invalidateActiveSeasons.
SwitchSeason(to) ==
    /\ lbSeason # to
    /\ lbSeason' = to
    /\ UNCHANGED <<lbVotes, lbGifts, lbWinner, lbListed, lbSet, lbBump, lbReader,
                   lbSeen, lbDrifted>>

\* recordVote, recordGift, bump: ZINCRBY makes the set when there is none.
Bump(b) ==
    /\ lbBump[b] # NoBump /\ lbListed
    /\ lbSet' = WithScore(lbSet, lbBump[b].artist, Points(lbBump[b].kind))
    /\ lbDrifted' = (lbDrifted \/ ~Warm)
    /\ lbReader' = Overtaken
    /\ lbBump' = [lbBump EXCEPT ![b] = NoBump]
    /\ UNCHANGED <<lbVotes, lbGifts, lbWinner, lbSeason, lbListed, lbSeen>>

\* activeSeasons: the minute is over, and an addition reads the list again.
ListSeasons(b) ==
    /\ lbBump[b] # NoBump
    /\ lbListed' = (lbSeason = "on")
    /\ UNCHANGED <<lbVotes, lbGifts, lbWinner, lbSeason, lbSet, lbBump, lbReader,
                   lbSeen, lbDrifted>>

\* The list does not have the season, Redis does not answer, or the process stops.
BumpLost(b) ==
    /\ lbBump[b] # NoBump
    /\ lbDrifted' = TRUE /\ lbReader' = Overtaken
    /\ lbBump' = [lbBump EXCEPT ![b] = NoBump]
    /\ UNCHANGED <<lbVotes, lbGifts, lbWinner, lbSeason, lbListed, lbSet, lbSeen>>

\* The set's seven days are over.
SetExpires ==
    /\ Warm
    /\ lbSet' = <<>>
    /\ UNCHANGED <<lbVotes, lbGifts, lbWinner, lbSeason, lbListed, lbBump, lbReader,
                   lbSeen, lbDrifted>>

\* topN: ZCARD is 0, or fails; a reader of a set that is there changes nothing ...
SeesCold(r) ==
    /\ lbReader[r].at = "idle" /\ ~Warm /\ lbSeason # "none"
    /\ lbReader' = [lbReader EXCEPT ![r] = [NoReader EXCEPT !.at = "cold"]]
    /\ UNCHANGED <<lbVotes, lbGifts, lbWinner, lbSeason, lbListed, lbSet, lbBump,
                   lbSeen, lbDrifted>>

\* ... getSeasonLeaderboard ...
ReadsSeason(r) ==
    /\ lbReader[r].at = "cold"
    /\ lbReader' = [lbReader EXCEPT ![r] =
         IF DOMAIN SeasonRows = {} THEN NoReader
         ELSE [at |-> "read", rows |-> SeasonRows, winner |-> lbWinner,
               clean |-> \A b \in Bumpers : lbBump[b] = NoBump]]
    /\ UNCHANGED <<lbVotes, lbGifts, lbWinner, lbSeason, lbListed, lbSet, lbBump,
                   lbSeen, lbDrifted>>

\* ... and ZADD, which writes over the scores that are there; or its failure.
FillsSet(r) ==
    /\ lbReader[r].at = "read"
    /\ \/ /\ lbSet' = WithRows(lbSet, lbReader[r].rows)
          /\ lbSeen' = lbReader[r].winner
          /\ lbDrifted' = ~(FilledAlone(r) /\ lbReader[r].clean)
       \/ UNCHANGED <<lbSet, lbSeen, lbDrifted>>
    /\ lbReader' = [lbReader EXCEPT ![r] = NoReader]
    /\ UNCHANGED <<lbVotes, lbGifts, lbWinner, lbSeason, lbListed, lbBump>>

LeaderboardNext ==
    \/ \E b \in Bumpers :
         \/ \E a \in Artists, kind \in {"vote", "gift"} : PayFor(b, a, kind)
         \/ ListSeasons(b) \/ Bump(b) \/ BumpLost(b)
    \/ \E a \in Artists : SetWinner(a)
    \/ \E to \in {"on", "off"} : SwitchSeason(to)
    \/ SetExpires
    \/ \E r \in Readers : SeesCold(r) \/ ReadsSeason(r) \/ FillsSet(r)

LeaderboardSpec == LeaderboardInit /\ [][LeaderboardNext]_leaderboardVars

-----------------------------------------------------------------------------
(* Properties.                                                             *)

InSet(a) == IF a \in DOMAIN lbSet THEN lbSet[a] ELSE 0
Adding == [a \in Artists |-> [b \in Bumpers |->
             IF lbBump[b].artist = a THEN Points(lbBump[b].kind) ELSE 0]]
ToCome(a) == MapThenSumSet(LAMBDA b : Adding[a][b], Bumpers)

\* While it was not started by an addition, misses none (lost, or made while the list
\* of active seasons did not have this one) and was not filled
\* from rows that already held one still to be made, or that one made since was not
\* in, the set with the additions to come has every vote and every gift once, and
\* the wins of the time when it was filled.
DriftByOverlapOnly ==
    Warm /\ ~lbDrifted =>
      \A a \in Artists : InSet(a) + ToCome(a) = SeasonScore(a, lbSeen)
=============================================================================
