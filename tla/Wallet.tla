------------------------------- MODULE Wallet -------------------------------
(***************************************************************************)
(* The credit wallets and every way of spending from them: paid votes,     *)
(* gifts, tickets, replays and dedications. Each operation is one stored   *)
(* procedure, that is one MySQL transaction on a connection of its own     *)
(* (callProcedure), at the default level REPEATABLE READ: a plain SELECT   *)
(* sees the snapshot taken at the first one, an UPDATE, an upsert or a     *)
(* SELECT ... FOR UPDATE sees and locks the latest committed row.          *)
(*                                                                         *)
(* So a procedure that decides on plain SELECTs takes two steps here: Begin *)
(* reads the snapshot, Commit does the conditional debit and the writes on *)
(* the rows as they are then. Between them the exit handler may roll the   *)
(* transaction back (deadlock victim, lock wait timeout, lost connection). *)
(* A procedure whose first statement is a locking one takes one step.      *)
(***************************************************************************)
EXTENDS RevenueSplit, Sequences, FiniteSets

CONSTANTS
    Users,       \* the accounts, each with a wallet (created at registration)
    Payers,      \* the users whose purchases are followed
    Lanes,       \* [Payers -> the requests a payer can have in flight at a time]
    Items,       \* what is ticketed: duels, concerts, replays, competitions
    Source,      \* [Items -> source type or "unshared"]
    Price,       \* [Items -> cents]
    Limited,     \* the concerts with a max_tickets
    Capacity,    \* [Limited -> max_tickets]
    Artist1, Artist2, Manager,   \* [Items -> Users \cup {NoUser}]
    Gifts, GiftPrice,            \* virtual_gifts and [Gifts -> cents]
    Performers,  \* the artists votes, gifts and dedications are addressed to
    Candidates,  \* the candidates of the running competition
    PoolSize,    \* connections of the process's pool to MySQL
    Opening,     \* [Users -> balance before the modelled history]
    Amounts,     \* the amounts votes, dedications and competition gifts take
    Quantities,  \* how many gifts one purchase takes
    DedicationPct \* the platform's share of a dedication

\* A session is one connection: a payer and one of his requests in flight.
Sessions == UNION {{u} \X Lanes[u] : u \in Payers}
SessionsOf(u) == {u} \X Lanes[u]
Payer(s) == s[1]

ASSUME WalletAssumption ==
    /\ NoUser \notin Users
    /\ Payers \subseteq Users
    /\ Performers \subseteq Users
    /\ Managers \subseteq Users
    /\ IsFiniteSet(Payers) /\ Payers # {}
    /\ \A u \in Payers : IsFiniteSet(Lanes[u]) /\ Lanes[u] # {}
    /\ Source \in [Items -> EventSources \cup {"unshared"}]
    /\ Price \in [Items -> Nat]
    /\ Limited \subseteq Items
    /\ Capacity \in [Limited -> Nat]
    /\ Artist1 \in [Items -> Users \cup {NoUser}]
    /\ Artist2 \in [Items -> Users \cup {NoUser}]
    /\ Manager \in [Items -> Users \cup {NoUser}]
    /\ GiftPrice \in [Gifts -> Nat]
    /\ PoolSize \in Nat \ {0}
    /\ Opening \in [Users -> Nat]
    /\ Amounts \subseteq Nat \ {0}
    /\ Quantities \subseteq Nat \ {0}
    /\ DedicationPct \in 0..Whole
    /\ \A key \in DOMAIN Sections : SharesWithinWhole(Sections[key])

VARIABLES
    balance,    \* user_wallets.balance, in cents
    tickets,    \* how many rows a payer has in *_tickets / replay_access for an item
    sold,       \* artist_concerts.tickets_sold (a count of the rows otherwise)
    inventory,  \* the user_gifts rows of a payer and a gift: their quantities
    voted,      \* competition_votes, whose key is (voter, candidate)
    tally,      \* competition_candidates.total_votes + total_gifts_credits
    tx,         \* the transactions between their snapshot and their writes
    \* history, what an auditor would keep:
    held,       \* gifts a payer has paid for and not sent yet
    books       \* credits charged, booked to their owners, in escrow as gifts;
                \* distributions

vars == <<balance, tickets, sold, inventory, voted, tally, tx, held, books>>

NoTx == [op |-> "none"]

\* A ticket purchase, or a purchase of n gifts whose snapshot had a row or not.
Transaction ==
    {NoTx} \cup [op: {"ticket"}, item: Items]
           \cup [op: {"gift"}, gift: Gifts, n: Quantities, seen: BOOLEAN]

Init ==
    /\ balance = Opening
    /\ tickets = [u \in Payers |-> [i \in Items |-> 0]]
    /\ sold = [i \in Items |-> 0]
    /\ inventory = [u \in Payers |-> [g \in Gifts |-> <<>>]]
    /\ voted = {}
    /\ tally = [c \in Candidates |-> 0]
    /\ tx = [s \in Sessions |-> NoTx]
    /\ held = [u \in Payers |-> [g \in Gifts |-> 0]]
    /\ books = [charged |-> 0, booked |-> 0, escrow |-> 0, splits |-> 0]

-----------------------------------------------------------------------------
(* Helpers.                                                                *)

\* A transaction holds a connection of the pool until it ends; a session opens
\* one at a time.
HasConnection(s) ==
    /\ tx[s] = NoTx
    /\ Cardinality({t \in Sessions : tx[t] # NoTx}) < PoolSize

CanPayUnguarded(u, n) == TRUE    \* mutant: WHERE balance >= n is dropped
\* UPDATE user_wallets SET balance = balance - n WHERE balance >= n finds a row.
CanPay(u, n) == balance[u] >= n

\* The debit of u and the upserts of the distribution d.
MoveCredits(u, n, d) ==
    balance' = [v \in Users |->
                  balance[v] - (IF v = u THEN n ELSE 0) + Received(d, v)]

\* The auditor's view of a charge n, a distribution d and gifts put in escrow.
Record(n, d, e) ==
    books' = [charged |-> books.charged + n,
              booked  |-> books.booked + Booked(d),
              escrow  |-> books.escrow + e,
              splits  |-> books.splits + 1]

SoldOutLate(i) == i \in Limited /\ sold[i] > Capacity[i]     \* mutant: off by one
\* IF v_tickets_sold >= v_max_tickets.
SoldOut(i) == i \in Limited /\ sold[i] >= Capacity[i]

HasTicketNever(u, i) == FALSE                              \* mutant: check dropped
\* SELECT id INTO v_existing of the user's ticket.
HasTicket(u, i) == tickets[u][i] > 0

RowsAlwaysNew(rows, n, seen) == Append(rows, n)             \* mutant: no upsert
\* The user_gifts rows after a purchase of n: a new one if the snapshot had
\* none, else UPDATE, which adds to every row the user has by now.
RowsAfterPurchase(rows, n, seen) ==
    IF seen THEN [r \in DOMAIN rows |-> rows[r] + n] ELSE Append(rows, n)

RowsKeptOnSend(rows) == IF rows[1] <= 1 THEN rows ELSE <<rows[1] - 1>> \* mutant
\* The row after one unit is sent: the last unit deletes it.
RowsAfterSend(rows) == IF rows[1] <= 1 THEN <<>> ELSE <<rows[1] - 1>>

\* What a ticket, a replay or a competition seat distributes: nothing when it
\* is free, for a concert without an artist account and for a competition.
TicketSplit(i) ==
    IF \/ Price[i] = 0
       \/ Source[i] = "unshared"
       \/ Source[i] = "concert_ticket" /\ Artist1[i] = NoUser
    THEN Undistributed
    ELSE Distribute(Source[i], Price[i], Artist1[i], Artist2[i], Manager[i], NoUser)

\* mutant: the artist is credited the whole charge
DedicationSplitGross(n, artist) ==
    [Undistributed EXCEPT !.platform = Share(n, DedicationPct),
                          !.artist1 = artist, !.credits1 = n]
\* purchase_concert_dedication_from_wallet splits by a percentage of its own.
DedicationSplit(n, artist) ==
    [Undistributed EXCEPT !.platform = Share(n, DedicationPct),
                          !.artist1 = artist,
                          !.credits1 = n - Share(n, DedicationPct)]

-----------------------------------------------------------------------------
(* Tickets, replays and competition seats.                                 *)

\* The snapshot of purchase_*_ticket and purchase_replay_access: the event has
\* room and the user has no row yet, or the procedure stops here.
BeginTicket(s, i) ==
    /\ HasConnection(s)
    /\ ~SoldOut(i)
    /\ ~HasTicket(Payer(s), i)
    /\ tx' = [tx EXCEPT ![s] = [op |-> "ticket", item |-> i]]
    /\ UNCHANGED <<balance, tickets, sold, inventory, voted, tally, held, books>>

\* The conditional debit, the ticket row, tickets_sold and the distribution.
CommitTicket(s) ==
    LET u == Payer(s)
        i == tx[s].item
        d == TicketSplit(i)
    IN  /\ tx[s].op = "ticket"
        /\ CanPay(u, Price[i])
        /\ MoveCredits(u, Price[i], d)
        /\ tickets' = [tickets EXCEPT ![u][i] = @ + 1]
        /\ sold' = [sold EXCEPT ![i] = @ + 1]
        /\ Record(Price[i], d, 0)
        /\ tx' = [tx EXCEPT ![s] = NoTx]
        /\ UNCHANGED <<inventory, voted, tally, held>>

-----------------------------------------------------------------------------
(* Virtual gifts.                                                          *)

\* purchase_gift_from_wallet: the snapshot is the one of SELECT price, so the
\* later SELECT quantity INTO v_existing sees it too, and fails on two rows.
BeginGift(s, g, n) ==
    /\ HasConnection(s)
    /\ Len(inventory[Payer(s)][g]) <= 1
    /\ tx' = [tx EXCEPT ![s] = [op |-> "gift", gift |-> g, n |-> n,
                                seen |-> inventory[Payer(s)][g] # <<>>]]
    /\ UNCHANGED <<balance, tickets, sold, inventory, voted, tally, held, books>>

\* The debit; then a new row, or n more on every row the user has by now.
CommitGift(s) ==
    LET u == Payer(s)
        g == tx[s].gift
        n == tx[s].n
        cost == GiftPrice[g] * n
    IN  /\ tx[s].op = "gift"
        /\ CanPay(u, cost)
        /\ MoveCredits(u, cost, Undistributed)
        /\ inventory' = [inventory EXCEPT ![u][g] =
                                           RowsAfterPurchase(@, n, tx[s].seen)]
        /\ held' = [held EXCEPT ![u][g] = @ + n]
        /\ Record(cost, Undistributed, cost)
        /\ tx' = [tx EXCEPT ![s] = NoTx]
        /\ UNCHANGED <<tickets, sold, voted, tally>>

\* ROLLBACK: the balance is too low, or the exit handler fired.
Rollback(s) ==
    /\ tx[s] # NoTx
    /\ tx' = [tx EXCEPT ![s] = NoTx]
    /\ UNCHANGED <<balance, tickets, sold, inventory, voted, tally, held, books>>

\* send_gift_with_distribution: SELECT quantity ... FOR UPDATE fails on two
\* rows; the last unit deletes the row; the price goes to the recipient.
SendGift(s, g, to) ==
    LET u == Payer(s)
        d == Distribute("gift_duel", GiftPrice[g], to, NoUser, NoUser, NoUser)
    IN  /\ HasConnection(s)
        /\ Len(inventory[u][g]) = 1
        /\ inventory[u][g][1] > 0
        /\ inventory' = [inventory EXCEPT ![u][g] = RowsAfterSend(@)]
        /\ MoveCredits(u, 0, d)
        /\ held' = [held EXCEPT ![u][g] = @ - 1]
        /\ Record(0, d, -GiftPrice[g])
        /\ UNCHANGED <<tickets, sold, voted, tally, tx>>

-----------------------------------------------------------------------------
(* Votes, dedications and competition gifts: the debit comes first.        *)

\* deduct_wallet_and_vote, for an artist of a duel.
VoteForDuel(s, n, artist) ==
    LET d == Distribute("vote", n, artist, NoUser, NoUser, NoUser)
    IN  /\ HasConnection(s)
        /\ CanPay(Payer(s), n)
        /\ MoveCredits(Payer(s), n, d)
        /\ Record(n, d, 0)
        /\ UNCHANGED <<tickets, sold, inventory, voted, tally, tx, held>>

\* purchase_concert_dedication_from_wallet.
BuyDedication(s, n, artist) ==
    LET d == DedicationSplit(n, artist)
    IN  /\ HasConnection(s)
        /\ CanPay(Payer(s), n)
        /\ MoveCredits(Payer(s), n, d)
        /\ Record(n, d, 0)
        /\ UNCHANGED <<tickets, sold, inventory, voted, tally, tx, held>>

\* competition_vote: a second vote of the voter for the candidate meets the
\* unique key, and the whole transaction is rolled back.
VoteForCandidate(s, n, c) ==
    /\ HasConnection(s)
    /\ CanPay(Payer(s), n)
    /\ <<Payer(s), c>> \notin voted
    /\ MoveCredits(Payer(s), n, Undistributed)
    /\ voted' = voted \cup {<<Payer(s), c>>}
    /\ tally' = [tally EXCEPT ![c] = @ + n]
    /\ Record(n, Undistributed, 0)
    /\ UNCHANGED <<tickets, sold, inventory, tx, held>>

\* send_competition_gift to a candidate: only the tally moves.
GiftToCandidate(s, n, c) ==
    /\ HasConnection(s)
    /\ CanPay(Payer(s), n)
    /\ MoveCredits(Payer(s), n, Undistributed)
    /\ tally' = [tally EXCEPT ![c] = @ + n]
    /\ Record(n, Undistributed, 0)
    /\ UNCHANGED <<tickets, sold, inventory, voted, tx, held>>

\* send_competition_gift to the competition's manager: a tip, distributed.
TipManager(s, n, manager) ==
    LET d == Distribute("gift_competition", n, manager, NoUser, NoUser, NoUser)
    IN  /\ HasConnection(s)
        /\ CanPay(Payer(s), n)
        /\ MoveCredits(Payer(s), n, d)
        /\ Record(n, d, 0)
        /\ UNCHANGED <<tickets, sold, inventory, voted, tally, tx, held>>

-----------------------------------------------------------------------------
Next ==
    \E s \in Sessions :
        \/ \E i \in Items : BeginTicket(s, i)
        \/ CommitTicket(s)
        \/ \E g \in Gifts, n \in Quantities : BeginGift(s, g, n)
        \/ CommitGift(s)
        \/ Rollback(s)
        \/ \E g \in Gifts, to \in Performers \cup Managers : SendGift(s, g, to)
        \/ \E n \in Amounts, a \in Performers : VoteForDuel(s, n, a)
        \/ \E n \in Amounts, a \in Performers : BuyDedication(s, n, a)
        \/ \E n \in Amounts, c \in Candidates : VoteForCandidate(s, n, c)
        \/ \E n \in Amounts, c \in Candidates : GiftToCandidate(s, n, c)
        \/ \E n \in Amounts, m \in Managers : TipManager(s, n, m)

Spec == Init /\ [][Next]_vars

-----------------------------------------------------------------------------
(* Properties.                                                             *)

\* Types; a balance is never negative, whatever interleaves with a debit.
TypeOK ==
    /\ balance \in [Users -> Nat]
    /\ tickets \in [Payers -> [Items -> Nat]]
    /\ sold \in [Items -> Nat]
    /\ inventory \in [Payers -> [Gifts -> Seq(Nat)]]
    /\ voted \subseteq Payers \X Candidates
    /\ tally \in [Candidates -> Nat]
    /\ tx \in [Sessions -> Transaction]
    /\ held \in [Payers -> [Gifts -> Int]]
    /\ books \in [charged: Nat, booked: Nat, escrow: Int, splits: Nat]

InFlight(S, i) == {s \in S : tx[s] = [op |-> "ticket", item |-> i]}

\* "One per user": nobody pays twice for the same event or replay
\* (already_purchased in the four purchase procedures). The check reads a
\* snapshot and *_tickets has no unique key, so two requests break it.
OneTicketPerUser == \A u \in Payers, i \in Items : tickets[u][i] <= 1

\* What does hold: a user gets as many tickets of an event as he had purchases
\* of it in flight together, so one if his requests come one at a time.
DuplicateTicketsByRaceOnly ==
    \A u \in Payers, i \in Items :
        tickets[u][i] + Cardinality(InFlight(SessionsOf(u), i))
            <= Cardinality(SessionsOf(u))

\* purchase_concert_ticket_from_wallet compares tickets_sold of its snapshot
\* with max_tickets: a concert can be oversold, but by no more than the
\* purchases the pool lets in flight with the last one it had room for.
OversoldByRaceOnly ==
    \A i \in Limited :
        sold[i] + Cardinality(InFlight(Sessions, i))
            < Capacity[i] + PoolSize

\* Purchases in flight together are the only way to a second ticket of one user,
\* and to a seat too many.
TicketsByRaceOnly == DuplicateTicketsByRaceOnly /\ OversoldByRaceOnly

\* Of a payer whose requests come one at a time: what he can send is what he
\* paid for and has not sent, in one row. A purchase and a send never lose,
\* duplicate or strand units.
InventoryMatchesPurchases ==
    \A u \in Payers, g \in Gifts :
        Cardinality(SessionsOf(u)) = 1 =>
            \/ inventory[u][g] = <<>> /\ held[u][g] = 0
            \/ inventory[u][g] = <<held[u][g]>> /\ held[u][g] > 0

\* Whatever a payer sends at once: a gift is never sent that nobody paid for,
\* although racing purchases can leave two rows, or add to both of them, or
\* add to a row a send has deleted.
NoUnpaidGift == \A u \in Payers, g \in Gifts : held[u][g] >= 0

\* The platform never shares out credits nobody was charged for, its own part
\* and the gifts still to be sent included, except a cent for each distribution:
\* the shares are rounded half up one by one.
Solvent == books.booked + books.escrow <= books.charged + books.splits

=============================================================================
