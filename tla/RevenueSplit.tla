---------------------------- MODULE RevenueSplit ----------------------------
(***************************************************************************)
(* How a charge is shared between the platform, one or two artists and a   *)
(* manager: the stored procedure distribute_event_revenue, as an operator  *)
(* from its arguments to the shares it works out and credits to wallets.   *)
(* (The columns of revenue_distributions they are then recorded in are     *)
(* INTEGER, so a row may say something else: see Reports.)                 *)
(*                                                                         *)
(* Amounts are DECIMAL(18,2) variables, so they are integers of cents      *)
(* here; percentages are DECIMAL(9,4), so they are integers of 1/Whole of  *)
(* the charge (Whole = 100 for whole percents, 1000000 for all decimals).  *)
(***************************************************************************)
EXTENDS Integers

CONSTANTS
    Whole,      \* the number of percentage units that make 100 %
    NoUser,     \* SQL NULL in a user id column
    Managers,   \* the users who hold the role 'manager' in user_roles
    Sections    \* economic_config: the sections it has, as key -> percentages

ASSUME WholeAssumption == Whole \in Nat \ {0}

\* The percentages of a section. artist_pct is used with one artist,
\* artists_pct with one or two; an absent key is COALESCEd to 0 (to 50 % for
\* winner_share_pct).
Section == [platform: Nat, artist: Nat, artists: Nat, manager: Nat,
            winnerShare: Nat, enabled: BOOLEAN]

SimpleSources  == {"gift_concert", "gift_duel", "gift_live", "gift_competition", "vote"}
SponsorSources == {"sponsor_concert", "sponsor_duel"}
EventSources   == {"concert_ticket", "concert_replay", "duel_ticket", "duel_replay"}

\* The section of economic_config that rules a source type.
SectionKey(source) == IF source \in SimpleSources \ {"vote"} THEN "gift" ELSE source

\* ROUND(amount * pct / 100, 2): half a cent goes up.
Share(amount, pct) == (2 * amount * pct + Whole) \div (2 * Whole)

\* A charge nothing is distributed of: no row, no wallet credited.
Undistributed ==
    [platform |-> 0, artist1 |-> NoUser, credits1 |-> 0, artist2 |-> NoUser,
     credits2 |-> 0, manager |-> NoUser, managerCredits |-> 0]

HasRole(u) == u \in Managers

\* A gift or a vote: the recipient takes all that the platform leaves, booked
\* under the manager columns when the recipient is a manager.
SimpleSplit(total, cut, artist1) ==
    IF artist1 = NoUser
    THEN [Undistributed EXCEPT !.platform = cut]
    ELSE IF HasRole(artist1)
         THEN [Undistributed EXCEPT !.platform = cut, !.manager = artist1,
                                    !.managerCredits = total - cut]
         ELSE [Undistributed EXCEPT !.platform = cut, !.artist1 = artist1,
                                    !.credits1 = total - cut]

\* The first artist's part of a pool two artists share.
FirstOfTwo(pool, pct, artist1, artist2, winner) ==
    IF winner \notin {artist1, artist2}
    THEN (pool + 1) \div 2
    ELSE IF winner = artist1 THEN Share(pool, pct.winnerShare)
                             ELSE pool - Share(pool, pct.winnerShare)

\* A ticket, a replay or a sponsorship: every share is a percentage of the
\* charge, rounded on its own. A share without its recipient is booked and
\* credited to nobody.
EventSplit(total, pct, artist1, artist2, manager, winner) ==
    LET forManager == Share(total, pct.manager)
        pool       == Share(total, pct.artists)
        two        == artist1 # NoUser /\ artist2 # NoUser
        alone      == IF artist1 # NoUser THEN Share(total, pct.artist + pct.artists) ELSE 0
        first      == IF two THEN FirstOfTwo(pool, pct, artist1, artist2, winner) ELSE alone
    IN  [platform |-> Share(total, pct.platform),
         artist1 |-> artist1, credits1 |-> first,
         artist2 |-> artist2, credits2 |-> IF two THEN pool - first ELSE 0,
         manager |-> IF forManager > 0 THEN manager ELSE NoUser,
         managerCredits |-> forManager]

\* distribute_event_revenue.
Distribute(source, total, artist1, artist2, manager, winner) ==
    LET key     == SectionKey(source)
        pct     == Sections[key]
        nothing == total <= 0 \/ key \notin DOMAIN Sections
        sponsor == source \in SponsorSources
    IN  IF nothing THEN Undistributed
        ELSE IF source \in SimpleSources
        THEN SimpleSplit(total, Share(total, pct.platform), artist1)
        ELSE IF sponsor /\ ~pct.enabled
        THEN [Undistributed EXCEPT !.platform = total]
        ELSE EventSplit(total, pct, artist1, artist2, manager, winner)

\* What the wallet of u receives from a distribution: one upsert per non-NULL
\* recipient column.
Received(d, u) ==
      (IF d.artist1 = u THEN d.credits1 ELSE 0)
    + (IF d.artist2 = u THEN d.credits2 ELSE 0)
    + (IF d.manager = u THEN d.managerCredits ELSE 0)

\* All the shares, recipients or not.
Booked(d) == d.platform + d.credits1 + d.credits2 + d.managerCredits

-----------------------------------------------------------------------------
\* A section whose percentages share out no more than the charge.
SharesWithinWhole(pct) ==
    /\ pct \in Section
    /\ pct.winnerShare <= Whole
    /\ pct.platform + pct.artist + pct.artists + pct.manager <= Whole
=============================================================================
