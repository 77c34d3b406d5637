------------------------------ MODULE Reports ------------------------------
(***************************************************************************)
(* What users and admins are told of money: the queries that sum           *)
(* revenue_distributions for a recipient (wallet.service.js), for all of   *)
(* them and by source (admin.service.js), next to what the wallets got;    *)
(* and those that rank senders and recipients of gifts and votes           *)
(* (leaderboard.service.js, gift.service.js). A gift that was sent has no  *)
(* price of its own: it counts at the price of the catalog today.          *)
(*                                                                         *)
(* A wallet gets its share to the cent, but the columns of a distribution  *)
(* for shares are INTEGER: what MySQL keeps there is a whole number of     *)
(* credits, rounded half away from zero.                                   *)
(***************************************************************************)
EXTENDS RevenueSplit, Null, Sequences, FiniteSetsExt

CONSTANTS
    Payees,         \* users who may receive
    Events,         \* what is paid for
    Sources,        \* source types
    Credit,         \* a credit, in the units of Amounts: 100 cents
    Amounts,        \* what is charged at a time
    MaxRevenues,    \* bound: distributions
    Prices,         \* of the gift in the catalog
    MaxGiven        \* bound: gifts sent and votes cast

ASSUME ReportsAssumption ==
    /\ Sources \subseteq SimpleSources \cup SponsorSources \cup EventSources
    /\ Credit \in Nat \ {0}
    /\ \A key \in DOMAIN Sections : SharesWithinWhole(Sections[key])
    /\ IsFiniteSet(Payees) /\ IsFiniteSet(Events) /\ IsFiniteSet(Sources)
    /\ NoUser \notin Payees /\ Amounts \subseteq Nat
    /\ Prices \subseteq Nat /\ NULL \notin Prices
    /\ MaxRevenues \in Nat /\ MaxGiven \in Nat

SumOf(amount, S) == MapThenSumSet(LAMBDA x : amount[x], S)

-----------------------------------------------------------------------------
(* Revenues.                                                               *)

VARIABLES
    rvRows,     \* revenue_distributions
    \* history:
    rvGot       \* what the wallet of each user got

revenueVars == <<rvRows, rvGot>>

Payee == Payees \cup {NoUser}
Shares == [platform : Nat, artist1 : Payee, credits1 : Nat, artist2 : Payee,
           credits2 : Nat, manager : Payee, managerCredits : Nat]
RevenueRow == [event : Events, source : Sources, total : Amounts, shares : Shares]

RevenueTypeOK ==
    /\ rvRows \in Seq(RevenueRow) /\ Len(rvRows) =< MaxRevenues
    /\ rvGot \in [Payees -> Nat]

\* What an INTEGER column keeps of a share.
InColumn(share) == Credit * ((2 * share + Credit) \div (2 * Credit))

InRow(shares) ==
    [column \in DOMAIN shares |->
       IF column \in {"platform", "credits1", "credits2", "managerCredits"}
       THEN InColumn(shares[column]) ELSE shares[column]]

RevenueInit == rvRows = <<>> /\ rvGot = [u \in Payees |-> 0]

\* A charge is distributed: a row, and a wallet for each recipient. Nothing happens
\* when there is nothing to share or no section that says how.
RevenueComes(event, source, total, artist1, artist2, manager, winner) ==
    LET shares == Distribute(source, total, artist1, artist2, manager, winner)
    IN  /\ Len(rvRows) < MaxRevenues
        /\ total > 0 /\ SectionKey(source) \in DOMAIN Sections
        /\ rvRows' = Append(rvRows, [event |-> event, source |-> source,
                                   total |-> total, shares |-> InRow(shares)])
        /\ rvGot' = [u \in Payees |-> rvGot[u] + Received(shares, u)]

\* A gift and a vote are for someone, and for nobody else.
RevenueNext ==
    \E event \in Events, source \in Sources, total \in Amounts :
      \E artist1, artist2, manager, winner \in Payee :
        /\ source \in SimpleSources => artist1 # NoUser /\ artist2 = NoUser
        /\ artist1 # artist2 \/ artist1 = NoUser
        /\ winner \in {artist1, artist2, NoUser}
        /\ RevenueComes(event, source, total, artist1, artist2, manager, winner)

RevenueSpec == RevenueInit /\ [][RevenueNext]_revenueVars

Roles(u, i) == {role \in {"artist1", "artist2", "manager"} : rvRows[i].shares[role] = u}

\* mutant: only what one gets as an artist
AsArtist(u, shares) ==
    CASE shares.artist1 = u -> shares.credits1
      [] shares.artist2 = u -> shares.credits2
      [] OTHER -> 0
\* CASE WHEN artist1_id = :uid .. WHEN artist2_id = :uid .. WHEN manager_id = :uid:
\* the first that is so.
MyCredits(u, shares) ==
    IF shares.artist1 = u THEN shares.credits1
    ELSE IF shares.artist2 = u THEN shares.credits2
    ELSE IF shares.manager = u THEN shares.managerCredits ELSE 0

Mine(u) == {i \in DOMAIN rvRows : Roles(u, i) # {}}
MySum(u, rows) == SumOf([i \in rows |-> MyCredits(u, rvRows[i].shares)], rows)

\* GROUP BY source_id, source_type HAVING total_received > 0.
RevenuesByEvent(u) ==
    LET total == [group \in Events \X Sources |->
                    MySum(u, {i \in Mine(u) : <<rvRows[i].event, rvRows[i].source>> = group})]
    IN  [group \in {g \in Events \X Sources : total[g] > 0} |-> total[group]]

RevenueBreakdown(u) ==
    LET total == [s \in Sources |-> MySum(u, {i \in Mine(u) : rvRows[i].source = s})]
    IN  [source \in {s \in Sources : total[s] > 0} |-> total[source]]

EventTransactions(u, e) ==
    [i \in {j \in Mine(u) : rvRows[j].event = e} |-> MyCredits(u, rvRows[i].shares)]

\* The three columns are summed apart, and then together.
TopEarners ==
    LET As(u, id, credits) ==
          LET rows == {i \in DOMAIN rvRows : rvRows[i].shares[id] = u}
          IN  SumOf([i \in rows |-> rvRows[i].shares[credits]], rows)
    IN  [u \in Payees |-> As(u, "artist1", "credits1") + As(u, "artist2", "credits2")
                          + As(u, "manager", "managerCredits")]

\* What artists and managers got of each source.
RevenueStats ==
    [s \in Sources |->
       LET rows == {i \in DOMAIN rvRows : rvRows[i].source = s}
       IN  SumOf([i \in rows |-> rvRows[i].shares.credits1 + rvRows[i].shares.credits2
                                 + rvRows[i].shares.managerCredits], rows)]

\* What an admin is shown of a distribution, next to its total.
CompareDistribution(i) ==
    LET shares == rvRows[i].shares
    IN  [total |-> rvRows[i].total, platform |-> shares.platform,
         artists |-> shares.credits1 + shares.credits2, manager |-> shares.managerCredits]

-----------------------------------------------------------------------------
(* Gifts and votes of an event.                                            *)

VARIABLES
    gvPrice,    \* the gift's in the catalog, or NULL when it was deleted
    gvGifts,    \* gift_transactions: from, to, and the event
    gvVotes,    \* duel_votes, of one credit each
    \* history:
    gvPaid,     \* what each sender paid for what he sent
    gvChanged   \* the price changed after a gift was sent

engagementVars == <<gvPrice, gvGifts, gvVotes, gvPaid, gvChanged>>

Given == [from : Payees, to : Payees, event : Events]

EngagementTypeOK ==
    /\ gvPrice \in Prices \cup {NULL}
    /\ gvGifts \in Seq(Given) /\ gvVotes \in Seq(Given)
    /\ gvPaid \in [Payees -> Nat] /\ gvChanged \in BOOLEAN

EngagementInit ==
    /\ gvPrice = NULL /\ gvGifts = <<>> /\ gvVotes = <<>>
    /\ gvPaid = [u \in Payees |-> 0] /\ gvChanged = FALSE

Pays(u, amount) == gvPaid' = [gvPaid EXCEPT ![u] = @ + amount]

\* Bought and sent.
GiftIsSent(given) ==
    /\ gvPrice # NULL /\ Len(gvGifts) + Len(gvVotes) < MaxGiven
    /\ gvGifts' = Append(gvGifts, given) /\ Pays(given.from, gvPrice)
    /\ UNCHANGED <<gvPrice, gvVotes, gvChanged>>

VoteIsCast(given) ==
    /\ Len(gvGifts) + Len(gvVotes) < MaxGiven
    /\ gvVotes' = Append(gvVotes, given) /\ Pays(given.from, 1)
    /\ UNCHANGED <<gvPrice, gvGifts, gvChanged>>

\* createGift, updateGift; and deleteGift, which no key of the table prevents.
GiftIsPriced(price) ==
    /\ price # gvPrice
    /\ gvPrice' = price
    /\ gvChanged' = (gvChanged \/ gvGifts # <<>>)
    /\ UNCHANGED <<gvGifts, gvVotes, gvPaid>>

EngagementNext ==
    \/ \E given \in Given : GiftIsSent(given) \/ VoteIsCast(given)
    \/ \E price \in Prices \cup {NULL} : GiftIsPriced(price)

EngagementSpec == EngagementInit /\ [][EngagementNext]_engagementVars

\* COALESCE(price, 0) over LEFT JOIN virtual_gifts.
WorthOfGift == IF gvPrice = NULL THEN 0 ELSE gvPrice

\* The rows whose columns hold these values.
RowsOf(table, values) == {i \in DOMAIN table : \A c \in DOMAIN values : table[i][c] = values[c]}

\* The gifts and votes that are of someone, or for someone, or of an event.
Worth(values) ==
    Cardinality(RowsOf(gvGifts, values)) * WorthOfGift + Cardinality(RowsOf(gvVotes, values))

AllTimeArtists(u) == Worth([to |-> u])
AllTimeDonors(u)  == Worth([from |-> u])
\* mutant: by who received
EngagementReceived(event, u) == Worth([event |-> event, to |-> u])
GiftEngagement(event, u) == Worth([event |-> event, from |-> u])

\* JOIN virtual_gifts, and votes do not count: nobody, when the gift is deleted.
TopDonors(event) ==
    LET gifts(u) == Cardinality(RowsOf(gvGifts, [event |-> event, from |-> u]))
    IN  IF gvPrice = NULL THEN {}
        ELSE {u \in Payees : gifts(u) > 0 /\ \A v \in Payees : gifts(v) =< gifts(u)}

-----------------------------------------------------------------------------
(* Properties.                                                             *)

\* Apart by no more than the rounding of so many columns.
Near(shown, got, columns) ==
    2 * shown - 2 * got \in -(Credit * columns) .. Credit * columns

\* The sums one is shown by event, by source and by transaction are the same. So is
\* what his wallet got, but for half a credit of rounding per row, unless he has two
\* roles in one distribution, of which the queries count one: admins, who are shown
\* both, see no less. Of all sources they see all there is, taken by someone or not; and of
\* one distribution parts that make up no more than its total (the shares, rounded,
\* may be a cent over it), and all of it when it is of a source that is cut in two,
\* but for the rounding of the columns.
RevenuesAddUp ==
    /\ \A u \in Payees :
         LET byEvent  == RevenuesByEvent(u)
             bySource == RevenueBreakdown(u)
             shown    == SumOf(byEvent, DOMAIN byEvent)
             roles    == SumOf([i \in Mine(u) |-> Cardinality(Roles(u, i))], Mine(u))
         IN  /\ shown = SumOf(bySource, DOMAIN bySource)
             /\ shown = SumOf([e \in Events |-> LET my == EventTransactions(u, e)
                                                IN  SumOf(my, DOMAIN my)], Events)
             /\ shown =< TopEarners[u] /\ Near(TopEarners[u], rvGot[u], roles)
             /\ roles = Cardinality(Mine(u)) => shown = TopEarners[u]
    /\ SumOf(RevenueStats, Sources) >= SumOf(TopEarners, Payees)
    /\ \A i \in DOMAIN rvRows :
         LET c     == CompareDistribution(i)
             parts == c.platform + c.artists + c.manager
         IN  /\ 2 * parts =< 2 * (c.total + 1) + 4 * Credit
             /\ rvRows[i].source \in SimpleSources => Near(parts, c.total, 2)

\* While the price of the gift stays, donors rank by what they paid. Whatever it is
\* today, what was given is what was received, and the sum of what was given at the
\* events; and the top donor of an event without votes leads its ranking.
EngagementAddsUp ==
    /\ ~gvChanged => \A u \in Payees : AllTimeDonors(u) = gvPaid[u]
    /\ SumOf([u \in Payees |-> AllTimeDonors(u)], Payees)
         = SumOf([u \in Payees |-> AllTimeArtists(u)], Payees)
    /\ \A u \in Payees :
         AllTimeDonors(u) = SumOf([e \in Events |-> GiftEngagement(e, u)], Events)
    /\ gvVotes = <<>> =>
         \A e \in Events : \A u \in TopDonors(e), v \in Payees :
           GiftEngagement(e, v) =< GiftEngagement(e, u)
=============================================================================
