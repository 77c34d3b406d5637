---------------------------- MODULE WalletProofs ----------------------------
(***************************************************************************)
(* The safety properties of module Wallet, for every set of users, items,  *)
(* gifts, prices and percentages, and any number of requests in flight:    *)
(* what the spending procedures guarantee although they decide on          *)
(* snapshots.                                                              *)
(***************************************************************************)
EXTENDS Wallet, RevenueSplitProofs, FiniteSetTheorems, SequenceTheorems, TLAPS

-----------------------------------------------------------------------------
(* Distributions.                                                          *)

\* A distribution as the wallets see it.
Payable(d) == Booked(d) \in Nat /\ \A v : Received(d, v) \in Nat

\* A distribution of amounts books and pays amounts.
LEMMA AmountedIsPayable ==
    ASSUME NEW d, Amounted(d)
    PROVE  Payable(d)
    BY DEF Amounted, Payable, Received, Booked

\* What is not distributed books nothing.
LEMMA NothingIsPayable ==
    Payable(Undistributed) /\ Booked(Undistributed) = 0
    BY DEF Payable, Booked, Received, Undistributed

\* A distribution pays amounts, and a cent more than the total at most.
LEMMA DistributionIsPayable ==
    ASSUME NEW source \in SimpleSources \cup SponsorSources \cup EventSources,
           NEW n \in Nat, NEW a1, NEW a2, NEW m, NEW w
    PROVE  /\ Payable(Distribute(source, n, a1, a2, m, w))
           /\ Booked(Distribute(source, n, a1, a2, m, w)) <= n + 1
    <1> DEFINE d == Distribute(source, n, a1, a2, m, w)
    <1>1. Amounted(d) /\ Booked(d) <= n + 1
        BY DistributionWithinACent, WalletAssumption DEF WalletAssumption
    <1> HIDE DEF d
    <1>2. Payable(d)
        BY <1>1, AmountedIsPayable
    <1> QED BY <1>1, <1>2 DEF d

\* So does what a ticket is shared out as.
LEMMA TicketSplitIsPayable ==
    ASSUME NEW i \in Items
    PROVE  Payable(TicketSplit(i)) /\ Booked(TicketSplit(i)) <= Price[i] + 1
    <1>1. Price[i] \in Nat /\ Source[i] \in EventSources \cup {"unshared"}
        BY WalletAssumption DEF WalletAssumption
    <1>2. CASE TicketSplit(i) = Undistributed
        BY <1>1, <1>2, NothingIsPayable
    <1>3. CASE TicketSplit(i) # Undistributed
        <2>1. Source[i] \in EventSources
            BY <1>1, <1>3 DEF TicketSplit
        <2>2. TicketSplit(i) = Distribute(Source[i], Price[i], Artist1[i],
                                          Artist2[i], Manager[i], NoUser)
            BY <1>3 DEF TicketSplit
        <2> QED BY <1>1, <2>1, <2>2, DistributionIsPayable
    <1> QED BY <1>2, <1>3

\* So does what a dedication is shared out as.
LEMMA DedicationSplitIsPayable ==
    ASSUME NEW n \in Nat, NEW artist
    PROVE  Payable(DedicationSplit(n, artist)) /\ Booked(DedicationSplit(n, artist)) <= n + 1
    <1> DEFINE d == DedicationSplit(n, artist)
               cut == Share(n, DedicationPct)
    <1>1. DedicationPct \in Nat /\ DedicationPct <= Whole
        BY WalletAssumption, WholeAssumption DEF WalletAssumption
    <1>2. cut \in Nat /\ cut <= n
        BY <1>1, ShareWithin
    <1>3. /\ d.platform = cut /\ d.credits1 = n - cut
          /\ d.credits2 = 0 /\ d.managerCredits = 0
        BY DEF DedicationSplit, Undistributed
    <1> HIDE DEF cut, d
    <1>4. Amounted(d) /\ Booked(d) = n
        BY <1>2, <1>3 DEF Amounted, Booked
    <1>5. Payable(d) /\ Booked(d) <= n + 1
        BY <1>2, <1>4, AmountedIsPayable
    <1> QED BY <1>5 DEF d

-----------------------------------------------------------------------------
(* Rows and types.                                                         *)

\* A table of tables with one value changed.
LEMMA NestedUpdate ==
    ASSUME NEW A, NEW B, NEW C, NEW f \in [A -> [B -> C]],
           NEW a \in A, NEW b \in B, NEW c \in C
    PROVE  [f EXCEPT ![a][b] = c] \in [A -> [B -> C]]
    OBVIOUS

\* A session is of the payer whose lane it is.
LEMMA SessionsHavePayers ==
    ASSUME NEW s \in Sessions
    PROVE  Payer(s) \in Payers /\ Payer(s) \in Users /\ s \in SessionsOf(Payer(s))
    BY WalletAssumption DEF WalletAssumption, Sessions, SessionsOf, Payer

\* The rows a purchase leaves.
LEMMA RowsAfterPurchaseType ==
    ASSUME NEW rows \in Seq(Nat), NEW n \in Nat, NEW seen \in BOOLEAN
    PROVE  LET new == RowsAfterPurchase(rows, n, seen)
           IN  /\ new \in Seq(Nat)
               /\ seen => /\ Len(new) = Len(rows)
                          /\ \A r \in 1..Len(rows) : new[r] = rows[r] + n
               /\ ~seen => Len(new) = Len(rows) + 1 /\ new[Len(rows) + 1] = n
    <1>1. Len(rows) \in Nat /\ DOMAIN rows = 1..Len(rows)
          /\ \A r \in 1..Len(rows) : rows[r] \in Nat
        BY ElementOfSeq, LenProperties
    <1>2. CASE seen
        <2> DEFINE new == [r \in 1..Len(rows) |-> rows[r] + n]
        <2>1. RowsAfterPurchase(rows, n, seen) = new
            BY <1>1, <1>2 DEF RowsAfterPurchase
        <2>2. new \in [1..Len(rows) -> Nat]
            BY <1>1
        <2>3. new \in Seq(Nat) /\ Len(new) = Len(rows)
            BY <1>1, <2>2
        <2> QED BY <1>2, <2>1, <2>3
    <1>3. CASE ~seen
        <2>1. RowsAfterPurchase(rows, n, seen) = Append(rows, n)
            BY <1>3 DEF RowsAfterPurchase
        <2>2. Append(rows, n) \in Seq(Nat) /\ Len(Append(rows, n)) = Len(rows) + 1
              /\ Append(rows, n)[Len(rows) + 1] = n
            BY AppendProperties
        <2> QED BY <1>3, <2>1, <2>2
    <1> QED BY <1>2, <1>3

\* What a send leaves of one row is rows.
LEMMA RowsAfterSendType ==
    ASSUME NEW rows \in Seq(Nat), Len(rows) = 1
    PROVE  RowsAfterSend(rows) \in Seq(Nat)
    <1>1. rows[1] \in Nat
        <2>1. 1 \in 1..Len(rows)
            OBVIOUS
        <2> QED BY <2>1, ElementOfSeq
    <1> DEFINE less == rows[1] - 1
    <1>2. CASE rows[1] <= 1
        BY <1>2, EmptySeq DEF RowsAfterSend
    <1>3. CASE ~(rows[1] <= 1)
        <2>1. less \in Nat /\ RowsAfterSend(rows) = <<less>>
            BY <1>1, <1>3 DEF RowsAfterSend
        <2> HIDE DEF less
        <2>2. <<less>> \in Seq(Nat)
            BY <2>1
        <2> QED BY <2>1, <2>2
    <1> QED BY <1>2, <1>3

\* A debit that is covered and a payable distribution keep the balances.
LEMMA MoveCreditsType ==
    ASSUME balance \in [Users -> Nat],
           NEW u \in Users, NEW n \in Nat, balance[u] >= n,
           NEW d, Payable(d), MoveCredits(u, n, d)
    PROVE  balance' \in [Users -> Nat]
    <1>1. \A v \in Users :
              balance[v] - (IF v = u THEN n ELSE 0) + Received(d, v) \in Nat
        BY DEF Payable
    <1> QED BY <1>1 DEF MoveCredits

BooksType == books \in [charged: Nat, booked: Nat, escrow: Int, splits: Nat]

\* Recording a distribution keeps the types of the books.
LEMMA RecordType ==
    ASSUME BooksType, NEW n \in Nat, NEW e \in Int, NEW d, Payable(d),
           Record(n, d, e)
    PROVE  BooksType'
    BY DEF BooksType, Record, Payable

\* What a debit that is distributed and recorded leaves.
LEMMA ChargeType ==
    ASSUME balance \in [Users -> Nat], BooksType,
           NEW u \in Users, NEW n \in Nat, NEW e \in Int, NEW d, Payable(d),
           CanPay(u, n), MoveCredits(u, n, d), Record(n, d, e)
    PROVE  balance' \in [Users -> Nat] /\ BooksType'
    <1>1. BooksType'
        BY RecordType
    <1>2. balance[u] >= n
        BY DEF CanPay
    <1> QED BY <1>1, <1>2, MoveCreditsType

\* A distribution that books what was charged, or a cent more, keeps the books solvent.
LEMMA RecordKeepsSolvent ==
    ASSUME BooksType, Solvent, NEW n \in Nat, NEW e \in Int,
           NEW d, Payable(d), Booked(d) + e <= n + 1, Record(n, d, e)
    PROVE  Solvent'
    BY DEF BooksType, Record, Payable, Solvent

\* What a transaction in flight refers to.
LEMMA TransactionFacts ==
    ASSUME TypeOK, NEW s \in Sessions
    PROVE  /\ tx[s].op = "ticket" => tx[s].item \in Items
           /\ tx[s].op = "gift" => /\ tx[s].gift \in Gifts
                                   /\ tx[s].n \in Nat
                                   /\ tx[s].seen \in BOOLEAN
    <1>1. Quantities \subseteq Nat
        BY WalletAssumption DEF WalletAssumption
    <1>2. tx[s] \in Transaction
        BY DEF TypeOK
    <1>3. CASE tx[s] = NoTx
        BY <1>3 DEF NoTx
    <1>4. CASE tx[s] \in [op: {"ticket"}, item: Items]
        BY <1>4
    <1>5. CASE tx[s] \in [op: {"gift"}, gift: Gifts, n: Quantities, seen: BOOLEAN]
        BY <1>1, <1>5
    <1> QED BY <1>2, <1>3, <1>4, <1>5 DEF Transaction

-----------------------------------------------------------------------------
(* Types.                                                                  *)

\* The initial states satisfy TypeOK.
LEMMA TypeInit == Init => TypeOK
    BY WalletAssumption, EmptySeq
    DEF WalletAssumption, Init, TypeOK, Transaction

\* Every step keeps the types.
LEMMA TypeNext == TypeOK /\ [Next]_vars => TypeOK'
    <1> SUFFICES ASSUME TypeOK, [Next]_vars PROVE TypeOK'
        OBVIOUS
    <1> USE WalletAssumption, SessionsHavePayers
    <1>0. balance \in [Users -> Nat] /\ BooksType /\ 0 \in Int
        BY DEF TypeOK, BooksType
    <1>1. ASSUME NEW s \in Sessions, NEW i \in Items, BeginTicket(s, i)
          PROVE  TypeOK'
        BY <1>1 DEF BeginTicket, TypeOK, Transaction
    <1>2. ASSUME NEW s \in Sessions, CommitTicket(s)
          PROVE  TypeOK'
        <2>1. tx[s].item \in Items
            BY <1>2, TransactionFacts DEF CommitTicket
        <2> DEFINE i == tx[s].item
        <2>2. Payable(TicketSplit(i)) /\ Price[i] \in Nat
            BY <2>1, TicketSplitIsPayable DEF WalletAssumption
        <2>3. /\ CanPay(Payer(s), Price[i])
              /\ MoveCredits(Payer(s), Price[i], TicketSplit(i))
              /\ Record(Price[i], TicketSplit(i), 0)
            BY <1>2 DEF CommitTicket
        <2>4. balance' \in [Users -> Nat] /\ BooksType'
            BY <1>0, <2>2, <2>3, ChargeType
        <2>5. tickets' \in [Payers -> [Items -> Nat]]
            <3> DEFINE u == Payer(s)
            <3>1. tickets' = [tickets EXCEPT ![u][i] = @ + 1]
                BY <1>2 DEF CommitTicket
            <3>2. /\ tickets[u][i] + 1 \in Nat /\ u \in Payers
                  /\ tickets \in [Payers -> [Items -> Nat]]
                <4>1. u \in Payers /\ i \in Items /\ tickets \in [Payers -> [Items -> Nat]]
                    BY <2>1 DEF TypeOK
                <4> HIDE DEF i, u
                <4> QED BY ONLY <4>1
            <3> HIDE DEF i, u
            <3> QED BY ONLY <2>1, <3>1, <3>2, NestedUpdate
        <2>9. sold' \in [Items -> Nat]
            <3>1. sold' = [sold EXCEPT ![i] = @ + 1]
                BY <1>2 DEF CommitTicket
            <3>2. i \in Items /\ sold \in [Items -> Nat]
                BY <2>1 DEF TypeOK
            <3> HIDE DEF i
            <3> QED BY ONLY <3>1, <3>2
        <2>6. tx' \in [Sessions -> Transaction]
            BY <1>2 DEF CommitTicket, TypeOK, Transaction
        <2> QED BY <1>2, <2>4, <2>5, <2>6, <2>9
                DEF CommitTicket, TypeOK, BooksType
    <1>3. ASSUME NEW s \in Sessions, NEW g \in Gifts, NEW n \in Quantities,
                 BeginGift(s, g, n)
          PROVE  TypeOK'
        BY <1>3 DEF BeginGift, TypeOK, Transaction
    <1>4. ASSUME NEW s \in Sessions, CommitGift(s)
          PROVE  TypeOK'
        <2> DEFINE u == Payer(s)
                   g == tx[s].gift
                   n == tx[s].n
                   cost == GiftPrice[g] * n
        <2>1. g \in Gifts /\ n \in Nat /\ tx[s].seen \in BOOLEAN
            BY <1>4, TransactionFacts DEF CommitGift
        <2>2. cost \in Nat
            BY <2>1 DEF WalletAssumption
        <2>3. /\ CanPay(u, cost) /\ MoveCredits(u, cost, Undistributed)
              /\ Record(cost, Undistributed, cost)
            BY <1>4 DEF CommitGift
        <2>4. balance' \in [Users -> Nat] /\ BooksType'
            <3> HIDE DEF cost
            <3> QED BY <1>0, <2>2, <2>3, NothingIsPayable, ChargeType
        <2>5. RowsAfterPurchase(inventory[u][g], n, tx[s].seen) \in Seq(Nat)
            <3>1. inventory[u][g] \in Seq(Nat)
                BY <2>1 DEF TypeOK
            <3> HIDE DEF u, g, n
            <3> QED BY <2>1, <3>1, RowsAfterPurchaseType
        <2>6. inventory' \in [Payers -> [Gifts -> Seq(Nat)]]
            <3> DEFINE new == RowsAfterPurchase(inventory[u][g], n, tx[s].seen)
            <3>1. inventory' = [inventory EXCEPT ![u][g] = new]
                BY <1>4 DEF CommitGift
            <3>2. u \in Payers /\ inventory \in [Payers -> [Gifts -> Seq(Nat)]]
                BY DEF TypeOK
            <3> HIDE DEF u, g, n, new
            <3>3. new \in Seq(Nat)
                BY <2>5 DEF new
            <3> QED BY ONLY <2>1, <3>1, <3>2, <3>3, NestedUpdate
        <2>7. held' \in [Payers -> [Gifts -> Int]]
            <3>1. held' = [held EXCEPT ![u][g] = @ + n]
                BY <1>4 DEF CommitGift
            <3>2. u \in Payers /\ held \in [Payers -> [Gifts -> Int]]
                BY DEF TypeOK
            <3>3. held[u][g] + n \in Int
                BY <2>1, <3>2
            <3> HIDE DEF u, g, n
            <3> QED BY ONLY <2>1, <3>1, <3>2, <3>3, NestedUpdate
        <2>8. tx' \in [Sessions -> Transaction]
            BY <1>4 DEF CommitGift, TypeOK, Transaction
        <2> QED BY <1>4, <2>4, <2>6, <2>7, <2>8
                DEF CommitGift, TypeOK, BooksType
    <1>5. ASSUME NEW s \in Sessions, Rollback(s)
          PROVE  TypeOK'
        BY <1>5 DEF Rollback, TypeOK, Transaction
    <1>6. ASSUME NEW s \in Sessions, NEW g \in Gifts,
                 NEW to \in Performers \cup Managers, SendGift(s, g, to)
          PROVE  TypeOK'
        <2> DEFINE d == Distribute("gift_duel", GiftPrice[g], to, NoUser, NoUser, NoUser)
        <2>1. GiftPrice[g] \in Nat
            BY DEF WalletAssumption
        <2>2. Payable(d)
            BY <2>1, DistributionIsPayable DEF SimpleSources
        <2> HIDE DEF d
        <2>3. MoveCredits(Payer(s), 0, d) /\ Record(0, d, -GiftPrice[g])
            BY <1>6 DEF SendGift, d
        <2>4. balance' \in [Users -> Nat]
            BY <1>0, <2>2, <2>3, MoveCreditsType
        <2>5. BooksType'
            BY <1>0, <2>1, <2>2, <2>3, RecordType
        <2>6. inventory' \in [Payers -> [Gifts -> Seq(Nat)]]
            BY <1>6, RowsAfterSendType DEF SendGift, TypeOK
        <2>7. held' \in [Payers -> [Gifts -> Int]]
            <3>1. held' = [held EXCEPT ![Payer(s)][g] = @ - 1]
                BY <1>6 DEF SendGift
            <3>2. /\ Payer(s) \in Payers /\ g \in Gifts
                  /\ held \in [Payers -> [Gifts -> Int]]
                BY DEF TypeOK
            <3>3. held[Payer(s)][g] - 1 \in Int
                BY ONLY <3>2
            <3> QED BY ONLY <3>1, <3>2, <3>3, NestedUpdate
        <2> QED BY <1>6, <2>4, <2>5, <2>6, <2>7 DEF SendGift, TypeOK, BooksType
    <1>7. ASSUME NEW s \in Sessions, NEW n \in Amounts, NEW a \in Performers,
                 VoteForDuel(s, n, a)
          PROVE  TypeOK'
        <2> DEFINE d == Distribute("vote", n, a, NoUser, NoUser, NoUser)
        <2>1. n \in Nat
            BY DEF WalletAssumption
        <2>2. Payable(d)
            BY <2>1, DistributionIsPayable DEF SimpleSources
        <2> HIDE DEF d
        <2>3. CanPay(Payer(s), n) /\ MoveCredits(Payer(s), n, d) /\ Record(n, d, 0)
            BY <1>7 DEF VoteForDuel, d
        <2>4. balance' \in [Users -> Nat] /\ BooksType'
            BY <1>0, <2>1, <2>2, <2>3, ChargeType
        <2> QED BY <1>7, <2>4 DEF VoteForDuel, TypeOK, BooksType
    <1>8. ASSUME NEW s \in Sessions, NEW n \in Amounts, NEW a \in Performers,
                 BuyDedication(s, n, a)
          PROVE  TypeOK'
        <2>1. n \in Nat
            BY DEF WalletAssumption
        <2> DEFINE d == DedicationSplit(n, a)
        <2>2. Payable(d)
            BY <2>1, DedicationSplitIsPayable
        <2>3. CanPay(Payer(s), n) /\ MoveCredits(Payer(s), n, d) /\ Record(n, d, 0)
            BY <1>8 DEF BuyDedication
        <2> HIDE DEF d
        <2>4. balance' \in [Users -> Nat] /\ BooksType'
            BY <1>0, <2>1, <2>2, <2>3, ChargeType
        <2> QED BY <1>8, <2>4 DEF BuyDedication, TypeOK, BooksType
    <1>9. ASSUME NEW s \in Sessions, NEW n \in Amounts, NEW c \in Candidates,
                 VoteForCandidate(s, n, c) \/ GiftToCandidate(s, n, c)
          PROVE  TypeOK'
        <2>1. n \in Nat
            BY DEF WalletAssumption
        <2>5. /\ CanPay(Payer(s), n) /\ MoveCredits(Payer(s), n, Undistributed)
              /\ Record(n, Undistributed, 0)
            BY <1>9 DEF VoteForCandidate, GiftToCandidate
        <2>2. balance' \in [Users -> Nat] /\ BooksType'
            BY <1>0, <2>1, <2>5, NothingIsPayable, ChargeType
        <2>3. tally' \in [Candidates -> Nat]
            <3>1. tally' = [tally EXCEPT ![c] = @ + n]
                BY <1>9 DEF VoteForCandidate, GiftToCandidate
            <3> QED BY ONLY <2>1, <3>1, TypeOK DEF TypeOK
        <2>4. voted' \subseteq Payers \X Candidates
            BY <1>9 DEF VoteForCandidate, GiftToCandidate, TypeOK
        <2> QED BY <1>9, <2>2, <2>3, <2>4
                DEF VoteForCandidate, GiftToCandidate, TypeOK, BooksType
    <1>10. ASSUME NEW s \in Sessions, NEW n \in Amounts, NEW m \in Managers,
                  TipManager(s, n, m)
           PROVE  TypeOK'
        <2> DEFINE d == Distribute("gift_competition", n, m, NoUser, NoUser, NoUser)
        <2>1. n \in Nat
            BY DEF WalletAssumption
        <2>2. Payable(d)
            BY <2>1, DistributionIsPayable DEF SimpleSources
        <2> HIDE DEF d
        <2>3. CanPay(Payer(s), n) /\ MoveCredits(Payer(s), n, d) /\ Record(n, d, 0)
            BY <1>10 DEF TipManager, d
        <2>4. balance' \in [Users -> Nat] /\ BooksType'
            BY <1>0, <2>1, <2>2, <2>3, ChargeType
        <2> QED BY <1>10, <2>4 DEF TipManager, TypeOK, BooksType
    <1>11. CASE UNCHANGED vars
        BY <1>11 DEF vars, TypeOK
    <1> QED BY <1>1, <1>2, <1>3, <1>4, <1>5, <1>6, <1>7, <1>8, <1>9, <1>10, <1>11
            DEF Next

\* No sequence of requests, raced or rolled back in any order, overdraws a
\* wallet or leaves a row out of its type.
THEOREM TypeCorrect == Spec => []TypeOK
    BY TypeInit, TypeNext, PTL DEF Spec

-----------------------------------------------------------------------------
(* Solvency: every action records one distribution, and a distribution is  *)
(* within a cent of what is charged for it.                                *)

\* Every step keeps the books solvent.
LEMMA SolventNext == TypeOK /\ Solvent /\ [Next]_vars => Solvent'
    <1> SUFFICES ASSUME TypeOK, Solvent, [Next]_vars PROVE Solvent'
        OBVIOUS
    <1>0. BooksType
        BY DEF TypeOK, BooksType
    <1>1. ASSUME NEW s \in Sessions, CommitTicket(s)
          PROVE  Solvent'
        <2> DEFINE i == tx[s].item
        <2>1. i \in Items
            BY <1>1, TransactionFacts DEF CommitTicket
        <2>2. /\ Payable(TicketSplit(i)) /\ Price[i] \in Nat
              /\ Booked(TicketSplit(i)) + 0 <= Price[i] + 1
            BY <2>1, WalletAssumption, TicketSplitIsPayable DEF WalletAssumption, Payable
        <2>3. Record(Price[i], TicketSplit(i), 0)
            BY <1>1 DEF CommitTicket
        <2> HIDE DEF i
        <2> QED BY <1>0, <2>2, <2>3, RecordKeepsSolvent
    <1>2. ASSUME NEW s \in Sessions, CommitGift(s)
          PROVE  Solvent'
        <2> DEFINE cost == GiftPrice[tx[s].gift] * tx[s].n
        <2>1. cost \in Nat
            BY <1>2, WalletAssumption, TransactionFacts
            DEF CommitGift, WalletAssumption
        <2>2. Record(cost, Undistributed, cost)
            BY <1>2 DEF CommitGift
        <2> HIDE DEF cost
        <2> QED BY <1>0, <2>1, <2>2, NothingIsPayable, RecordKeepsSolvent
    <1>3. ASSUME NEW s \in Sessions, NEW g \in Gifts,
                 NEW to \in Performers \cup Managers, SendGift(s, g, to)
          PROVE  Solvent'
        <2> DEFINE d == Distribute("gift_duel", GiftPrice[g], to, NoUser, NoUser, NoUser)
                   n == GiftPrice[g]
        <2>1. n \in Nat
            BY WalletAssumption DEF WalletAssumption
        <2>2. Payable(d) /\ Booked(d) <= n + 1
            BY <2>1, DistributionIsPayable DEF SimpleSources
        <2>3. Record(0, d, -n)
            BY <1>3 DEF SendGift
        <2> HIDE DEF d, n
        <2> DEFINE e == -n
        <2>4. e \in Int /\ Booked(d) + e <= 0 + 1
            BY <2>1, <2>2 DEF Payable
        <2> HIDE DEF e
        <2>5. Record(0, d, e)
            BY <2>3 DEF e
        <2> QED BY <1>0, <2>2, <2>4, <2>5, RecordKeepsSolvent
    <1>4. ASSUME NEW s \in Sessions, NEW n \in Amounts, NEW a \in Performers,
                 VoteForDuel(s, n, a)
          PROVE  Solvent'
        <2> DEFINE d == Distribute("vote", n, a, NoUser, NoUser, NoUser)
        <2>1. n \in Nat
            BY WalletAssumption DEF WalletAssumption
        <2>2. Payable(d) /\ Booked(d) <= n + 1
            BY <2>1, DistributionIsPayable DEF SimpleSources
        <2>3. Record(n, d, 0)
            BY <1>4 DEF VoteForDuel
        <2> HIDE DEF d
        <2> QED BY <1>0, <2>1, <2>2, <2>3, RecordKeepsSolvent DEF Payable
    <1>5. ASSUME NEW s \in Sessions, NEW n \in Amounts, NEW a \in Performers,
                 BuyDedication(s, n, a)
          PROVE  Solvent'
        <2>1. n \in Nat
            BY WalletAssumption DEF WalletAssumption
        <2>2. Payable(DedicationSplit(n, a)) /\ Booked(DedicationSplit(n, a)) <= n + 1
            BY <2>1, DedicationSplitIsPayable
        <2>3. Record(n, DedicationSplit(n, a), 0)
            BY <1>5 DEF BuyDedication
        <2> QED BY <1>0, <2>1, <2>2, <2>3, RecordKeepsSolvent DEF Payable
    <1>6. ASSUME NEW s \in Sessions, NEW n \in Amounts, NEW c \in Candidates,
                 VoteForCandidate(s, n, c) \/ GiftToCandidate(s, n, c)
          PROVE  Solvent'
        <2> DEFINE d == Undistributed
        <2>1. n \in Nat /\ Record(n, d, 0)
            BY <1>6, WalletAssumption
            DEF WalletAssumption, VoteForCandidate, GiftToCandidate
        <2>2. Payable(d) /\ Booked(d) + 0 <= n + 1
            BY <2>1, NothingIsPayable
        <2> HIDE DEF d
        <2>3. 0 \in Int
            OBVIOUS
        <2> QED BY <1>0, <2>1, <2>2, <2>3, RecordKeepsSolvent
    <1>7. ASSUME NEW s \in Sessions, NEW n \in Amounts, NEW m \in Managers,
                 TipManager(s, n, m)
          PROVE  Solvent'
        <2> DEFINE d == Distribute("gift_competition", n, m, NoUser, NoUser, NoUser)
        <2>1. n \in Nat
            BY WalletAssumption DEF WalletAssumption
        <2>2. Payable(d) /\ Booked(d) <= n + 1
            BY <2>1, DistributionIsPayable DEF SimpleSources
        <2>3. Record(n, d, 0)
            BY <1>7 DEF TipManager
        <2> HIDE DEF d
        <2> QED BY <1>0, <2>1, <2>2, <2>3, RecordKeepsSolvent DEF Payable
    <1>8. CASE UNCHANGED books
        BY <1>8 DEF Solvent
    <1> QED BY <1>1, <1>2, <1>3, <1>4, <1>5, <1>6, <1>7, <1>8
            DEF Next, vars, BeginTicket, BeginGift, Rollback

\* The platform never shares out credits nobody was charged for, but for a cent
\* for each distribution: whatever the prices, the percentages that sum to at
\* most 100, and the interleaving of the procedures.
THEOREM SolventAlways == Spec => []Solvent
    <1>1. Init => Solvent
        BY DEF Init, Solvent
    <1> QED BY <1>1, SolventNext, TypeCorrect, PTL DEF Spec

-----------------------------------------------------------------------------
(* Gifts. One row alone never holds more than was paid for and not sent;   *)
(* two rows, which a race of purchases leaves, can no longer be sent from. *)

LoneRowIsPaidFor ==
    \A u \in Payers, g \in Gifts :
        /\ held[u][g] >= 0
        /\ Len(inventory[u][g]) = 1 => inventory[u][g][1] <= held[u][g]

\* Every step keeps a lone row within what is paid for.
LEMMA LoneRowNext ==
    TypeOK /\ LoneRowIsPaidFor /\ [Next]_vars => LoneRowIsPaidFor'
    <1> SUFFICES ASSUME TypeOK, LoneRowIsPaidFor, [Next]_vars,
                        NEW v \in Payers, NEW h \in Gifts
                 PROVE  /\ held'[v][h] >= 0
                        /\ Len(inventory'[v][h]) = 1
                               => inventory'[v][h][1] <= held'[v][h]
        BY DEF LoneRowIsPaidFor
    <1>0. /\ held[v][h] \in Int /\ inventory[v][h] \in Seq(Nat)
          /\ held[v][h] >= 0
          /\ Len(inventory[v][h]) = 1 => inventory[v][h][1] <= held[v][h]
        BY DEF TypeOK, LoneRowIsPaidFor
    <1>1. ASSUME NEW s \in Sessions, CommitGift(s)
          PROVE  /\ held'[v][h] >= 0
                 /\ Len(inventory'[v][h]) = 1
                        => inventory'[v][h][1] <= held'[v][h]
        <2> DEFINE u == Payer(s)
                   g == tx[s].gift
                   n == tx[s].n
                   rows == inventory[v][h]
                   new == RowsAfterPurchase(rows, n, tx[s].seen)
        <2>1. u \in Payers /\ g \in Gifts /\ n \in Nat /\ tx[s].seen \in BOOLEAN
            BY <1>1, TransactionFacts, SessionsHavePayers DEF CommitGift
        <2>2. CASE v = u /\ h = g
            <3>1. inventory'[v][h] = new /\ held'[v][h] = held[v][h] + n
                BY <1>1, <2>1, <2>2 DEF CommitGift, TypeOK
            <3>2. /\ Len(rows) \in Nat
                  /\ tx[s].seen => /\ Len(new) = Len(rows)
                                   /\ \A r \in 1..Len(rows) : new[r] = rows[r] + n
                  /\ ~tx[s].seen => Len(new) = Len(rows) + 1 /\ new[Len(rows) + 1] = n
                <4> HIDE DEF n, new, rows
                <4>1. rows \in Seq(Nat)
                    BY <1>0 DEF rows
                <4> QED BY <2>1, <4>1, RowsAfterPurchaseType, LenProperties DEF new
            <3>3. Len(rows) = 1 => rows[1] \in Nat
                BY <1>0, ElementOfSeq
            <3> HIDE DEF n, new, rows
            <3>4. CASE tx[s].seen
                <4>1. Len(rows) = 1 => rows[1] <= held[v][h]
                    BY <1>0 DEF rows
                <4>2. Len(rows) = 1 => new[1] = rows[1] + n
                    BY <3>2, <3>4
                <4> QED BY <1>0, <2>1, <3>1, <3>2, <3>3, <3>4, <4>1, <4>2
            <3>5. CASE ~tx[s].seen
                BY <1>0, <2>1, <3>1, <3>2, <3>5
            <3> QED BY <3>4, <3>5
        <2>3. CASE ~(v = u /\ h = g)
            <3>1. inventory'[v][h] = inventory[v][h] /\ held'[v][h] = held[v][h]
                BY <1>1, <2>1, <2>3 DEF CommitGift, TypeOK
            <3> QED BY <1>0, <3>1
        <2> QED BY <2>2, <2>3
    <1>2. ASSUME NEW s \in Sessions, NEW g \in Gifts,
                 NEW to \in Performers \cup Managers, SendGift(s, g, to)
          PROVE  /\ held'[v][h] >= 0
                 /\ Len(inventory'[v][h]) = 1
                        => inventory'[v][h][1] <= held'[v][h]
        <2> DEFINE u == Payer(s)
        <2>1. u \in Payers
            BY SessionsHavePayers
        <2>2. CASE v = u /\ h = g
            <3> DEFINE rows == inventory[v][h]
            <3>1. /\ inventory'[v][h] = RowsAfterSend(rows)
                  /\ held'[v][h] = held[v][h] - 1
                  /\ Len(rows) = 1 /\ rows[1] > 0
                BY <1>2, <2>1, <2>2 DEF SendGift, TypeOK
            <3>2. rows[1] \in Nat
                <4>1. 1 \in 1..Len(rows)
                    BY <3>1
                <4> QED BY <1>0, <4>1, ElementOfSeq
            <3>3. RowsAfterSend(rows) = <<>> \/ RowsAfterSend(rows) = <<rows[1] - 1>>
                BY DEF RowsAfterSend
            <3>4. Len(<<>>) = 0 /\ <<rows[1] - 1>>[1] = rows[1] - 1
                OBVIOUS
            <3> HIDE DEF rows
            <3> QED BY <1>0, <3>1, <3>2, <3>3, <3>4 DEF rows
        <2>3. CASE ~(v = u /\ h = g)
            <3>1. inventory'[v][h] = inventory[v][h] /\ held'[v][h] = held[v][h]
                BY <1>2, <2>1, <2>3 DEF SendGift, TypeOK
            <3> QED BY <1>0, <3>1
        <2> QED BY <2>2, <2>3
    <1>3. CASE UNCHANGED <<inventory, held>>
        BY <1>0, <1>3
    <1> QED BY <1>1, <1>2, <1>3
            DEF Next, vars, BeginTicket, CommitTicket, BeginGift, Rollback, VoteForDuel,
                BuyDedication, VoteForCandidate, GiftToCandidate, TipManager

\* However many purchases and sends of a payer race: no gift reaches an artist,
\* who is credited its price, without someone having paid for it.
THEOREM GiftsArePaidFor == Spec => []NoUnpaidGift
    <1>1. Init => LoneRowIsPaidFor
        BY DEF Init, LoneRowIsPaidFor
    <1>2. LoneRowIsPaidFor => NoUnpaidGift
        BY DEF LoneRowIsPaidFor, NoUnpaidGift
    <1> QED BY <1>1, <1>2, LoneRowNext, TypeCorrect, PTL DEF Spec

-----------------------------------------------------------------------------
(* Snapshot checks. A request in flight is a ticket that may still be sold: *)
(* counting the two together bounds what the races can do.                 *)

\* There are finitely many sessions, and one at least.
LEMMA SessionsAreFinite ==
    /\ IsFiniteSet(Sessions) /\ Sessions # {}
    /\ \A u \in Payers : IsFiniteSet(SessionsOf(u)) /\ SessionsOf(u) \subseteq Sessions
    <1> DEFINE Family == {SessionsOf(u) : u \in Payers}
               f == [u \in Payers |-> SessionsOf(u)]
    <1>1. IsFiniteSet(Payers) /\ Payers # {}
          /\ \A u \in Payers : IsFiniteSet(Lanes[u]) /\ Lanes[u] # {}
        BY WalletAssumption DEF WalletAssumption
    <1>2. \A u \in Payers : IsFiniteSet(SessionsOf(u))
        BY <1>1, FS_Singleton, FS_Product DEF SessionsOf
    <1>3. IsFiniteSet(Family)
        <2>1. f \in Surjection(Payers, Family)
            BY DEF Surjection
        <2> HIDE DEF f, Family
        <2> QED BY <1>1, <2>1, FS_Surjection
    <1>4. Sessions = UNION Family
        BY DEF Sessions, SessionsOf
    <1>5. IsFiniteSet(UNION Family)
        <2>1. \A T \in Family : IsFiniteSet(T)
            BY <1>2
        <2> HIDE DEF Family
        <2> QED BY <1>3, <2>1, FS_UNION
    <1>6. Sessions # {}
        <2>1. PICK u \in Payers : TRUE
            BY <1>1
        <2>2. PICK l \in Lanes[u] : TRUE
            BY <1>1
        <2>3. <<u, l>> \in {u} \X Lanes[u]
            OBVIOUS
        <2> QED BY <2>3 DEF Sessions
    <1> QED BY <1>2, <1>4, <1>5, <1>6

\* No more tickets are in flight than there are sessions.
LEMMA InFlightIsBounded ==
    ASSUME NEW S, IsFiniteSet(S), NEW i
    PROVE  /\ IsFiniteSet(InFlight(S, i))
           /\ Cardinality(InFlight(S, i)) \in Nat
           /\ Cardinality(S) \in Nat
           /\ Cardinality(InFlight(S, i)) <= Cardinality(S)
    <1>1. InFlight(S, i) \in SUBSET S
        BY DEF InFlight
    <1> QED BY <1>1, FS_Subset, FS_CardinalityType

\* A request that ends leaves the set, which loses one element or none.
LEMMA InFlightAfterEnd ==
    ASSUME NEW S, IsFiniteSet(S), S \subseteq Sessions, NEW i, TypeOK,
           NEW s \in Sessions, tx' = [tx EXCEPT ![s] = NoTx]
    PROVE  LET before == InFlight(S, i)
           IN  Cardinality(InFlight(S, i)') =
                 IF s \in before THEN Cardinality(before) - 1 ELSE Cardinality(before)
    <1> DEFINE before == InFlight(S, i)
    <1>1. NoTx # [op |-> "ticket", item |-> i]
        <2>1. NoTx.op = "none" /\ [op |-> "ticket", item |-> i].op = "ticket"
            BY DEF NoTx
        <2> QED BY <2>1
    <1>2. InFlight(S, i)' = before \ {s}
        BY <1>1 DEF InFlight, TypeOK
    <1>3. IsFiniteSet(before)
        BY InFlightIsBounded
    <1> HIDE DEF before
    <1>4. Cardinality(before \ {s}) =
            IF s \in before THEN Cardinality(before) - 1 ELSE Cardinality(before)
        BY <1>3, FS_RemoveElement
    <1> QED BY <1>2, <1>4 DEF before

\* The transactions a gift purchase opens and closes are not counted.
LEMMA InFlightAfterOther ==
    ASSUME NEW S, S \subseteq Sessions, NEW i, TypeOK, NEW s \in Sessions,
           NEW new, tx' = [tx EXCEPT ![s] = new], new # [op |-> "ticket", item |-> i],
           tx[s] # [op |-> "ticket", item |-> i]
    PROVE  InFlight(S, i)' = InFlight(S, i)
    BY DEF InFlight, TypeOK

\* A transaction of another kind is no ticket.
LEMMA OpOfTransaction ==
    ASSUME NEW i, NEW t, t.op # "ticket"
    PROVE  t # [op |-> "ticket", item |-> i]
    OBVIOUS

\* Every step keeps the tickets of a user, sold or in flight, within his sessions.
LEMMA DuplicateTicketsNext ==
    TypeOK /\ DuplicateTicketsByRaceOnly /\ [Next]_vars => DuplicateTicketsByRaceOnly'
    <1> SUFFICES ASSUME TypeOK, DuplicateTicketsByRaceOnly, [Next]_vars,
                        NEW v \in Payers, NEW j \in Items
                 PROVE  tickets'[v][j] + Cardinality(InFlight(SessionsOf(v), j)')
                            <= Cardinality(SessionsOf(v))
        BY DEF DuplicateTicketsByRaceOnly, SessionsOf, InFlight
    <1> DEFINE S == SessionsOf(v)
               before == InFlight(S, j)
               after == InFlight(S, j)'
    <1>0. /\ IsFiniteSet(S) /\ S \subseteq Sessions
          /\ Cardinality(before) \in Nat /\ Cardinality(S) \in Nat
          /\ Cardinality(after) \in Nat /\ Cardinality(after) <= Cardinality(S)
          /\ tickets[v][j] \in Nat
          /\ tickets[v][j] + Cardinality(before) <= Cardinality(S)
        <2>1. IsFiniteSet(S) /\ S \subseteq Sessions
            BY SessionsAreFinite
        <2>2. after \in SUBSET S
            BY DEF InFlight
        <2>3. IsFiniteSet(after) /\ Cardinality(after) <= Cardinality(S)
            <3> HIDE DEF after, S
            <3> QED BY <2>1, <2>2, FS_Subset
        <2>4. Cardinality(after) \in Nat
            BY <2>3, FS_CardinalityType
        <2> QED BY <2>1, <2>3, <2>4, InFlightIsBounded
                DEF TypeOK, DuplicateTicketsByRaceOnly
    <1>1. ASSUME NEW s \in Sessions, NEW i \in Items, BeginTicket(s, i)
          PROVE  tickets'[v][j] + Cardinality(after) <= Cardinality(S)
        <2>1. CASE i = j /\ Payer(s) = v
            <3>1. tickets'[v][j] = 0
                BY <1>0, <1>1, <2>1 DEF BeginTicket, HasTicket
            <3> QED BY <1>0, <3>1
        <2>2. CASE ~(i = j /\ Payer(s) = v)
            <3>1. after = before
                <4>1. [op |-> "ticket", item |-> i] # [op |-> "ticket", item |-> j]
                      \/ s \notin S
                    BY <2>2 DEF SessionsOf, Payer
                <4>2. tx[s] # [op |-> "ticket", item |-> j]
                    <5>1. tx[s].op # "ticket"
                        BY <1>1 DEF BeginTicket, HasConnection, NoTx
                    <5> QED BY <5>1, OpOfTransaction
                <4> QED BY <1>0, <1>1, <4>1, <4>2 DEF BeginTicket, InFlight, TypeOK
            <3> QED BY <1>0, <1>1, <3>1 DEF BeginTicket
        <2> QED BY <2>1, <2>2
    <1>2. ASSUME NEW s \in Sessions, CommitTicket(s)
          PROVE  tickets'[v][j] + Cardinality(after) <= Cardinality(S)
        <2>1. Cardinality(after) =
                IF s \in before THEN Cardinality(before) - 1 ELSE Cardinality(before)
            BY <1>0, <1>2, InFlightAfterEnd DEF CommitTicket
        <2>2. CASE Payer(s) = v /\ tx[s].item = j
            <3>1. s \in S
                BY <2>2, SessionsHavePayers
            <3>2. tx[s] \in [op: {"ticket"}, item: Items]
                BY <1>2 DEF CommitTicket, TypeOK, Transaction, NoTx
            <3>3. s \in before
                BY <2>2, <3>1, <3>2 DEF InFlight
            <3>4. tickets'[v][j] = tickets[v][j] + 1
                BY <1>2, <2>2 DEF CommitTicket, TypeOK
            <3> QED BY <1>0, <2>1, <3>3, <3>4
        <2>3. CASE ~(Payer(s) = v /\ tx[s].item = j)
            <3>1. tickets'[v][j] = tickets[v][j]
                <4>1. Payer(s) \in Payers /\ tx[s].item \in Items
                    BY <1>2, SessionsHavePayers, TransactionFacts DEF CommitTicket
                <4> QED BY <1>2, <2>3, <4>1 DEF CommitTicket, TypeOK
            <3> QED BY <1>0, <2>1, <3>1
        <2> QED BY <2>2, <2>3
    <1>3. ASSUME NEW s \in Sessions, CommitGift(s) \/ Rollback(s)
          PROVE  tickets'[v][j] + Cardinality(after) <= Cardinality(S)
        <2>1. Cardinality(after) =
                IF s \in before THEN Cardinality(before) - 1 ELSE Cardinality(before)
            BY <1>0, <1>3, InFlightAfterEnd DEF CommitGift, Rollback
        <2>2. tickets' = tickets
            BY <1>3 DEF CommitGift, Rollback
        <2> QED BY <1>0, <2>1, <2>2
    <1>4. ASSUME NEW s \in Sessions, NEW g \in Gifts, NEW n \in Quantities,
                 BeginGift(s, g, n)
          PROVE  tickets'[v][j] + Cardinality(after) <= Cardinality(S)
        <2> DEFINE new == [op |-> "gift", gift |-> g, n |-> n,
                           seen |-> inventory[Payer(s)][g] # <<>>]
        <2>1. new # [op |-> "ticket", item |-> j] /\ tx[s] # [op |-> "ticket", item |-> j]
            <3>1. new.op # "ticket" /\ tx[s].op # "ticket"
                BY <1>4 DEF BeginGift, HasConnection, NoTx
            <3> HIDE DEF new
            <3> QED BY <3>1, OpOfTransaction
        <2>2. tx' = [tx EXCEPT ![s] = new] /\ tickets' = tickets
            BY <1>4 DEF BeginGift
        <2> HIDE DEF new
        <2>3. after = before
            BY <1>0, <2>1, <2>2, InFlightAfterOther
        <2> QED BY <1>0, <2>2, <2>3
    <1>5. CASE UNCHANGED <<tickets, tx>>
        <2>1. after = before
            BY <1>5 DEF InFlight
        <2> QED BY <1>0, <1>5, <2>1
    <1> QED BY <1>1, <1>2, <1>3, <1>4, <1>5, Zenon
            DEF Next, vars, SendGift, VoteForDuel, BuyDedication, VoteForCandidate,
                GiftToCandidate, TipManager

\* A user is charged for at most as many tickets of one event as he had
\* requests in flight together: one, if they come one at a time.
THEOREM TicketsPerUser == Spec => []DuplicateTicketsByRaceOnly
    <1>1. Init => DuplicateTicketsByRaceOnly
        <2> SUFFICES ASSUME Init, NEW u \in Payers, NEW i \in Items
                     PROVE  tickets[u][i] + Cardinality(InFlight(SessionsOf(u), i))
                                <= Cardinality(SessionsOf(u))
            BY DEF DuplicateTicketsByRaceOnly
        <2>1. tickets[u][i] = 0
            BY DEF Init
        <2> QED BY <2>1, SessionsAreFinite, InFlightIsBounded
    <1> QED BY <1>1, DuplicateTicketsNext, TypeCorrect, PTL DEF Spec

\* A session that has found a connection leaves no more transactions in flight
\* than the pool has connections.
LEMMA InFlightFitsPool ==
    ASSUME NEW i, NEW s \in Sessions, HasConnection(s), TypeOK, NEW new,
           tx' = [tx EXCEPT ![s] = new]
    PROVE  Cardinality(InFlight(Sessions, i)') <= PoolSize
    <1> DEFINE open == {t \in Sessions : tx[t] # NoTx}
               after == InFlight(Sessions, i)'
    <1>1. IsFiniteSet(open) /\ Cardinality(open) < PoolSize /\ s \notin open
          /\ Cardinality(open) \in Nat /\ PoolSize \in Nat
        <2>1. open \in SUBSET Sessions
            OBVIOUS
        <2>2. IsFiniteSet(open)
            BY <2>1, SessionsAreFinite, FS_Subset
        <2> QED BY <2>2, WalletAssumption, FS_CardinalityType
                DEF HasConnection, WalletAssumption
    <1>2. after \in SUBSET (open \cup {s})
        <2> SUFFICES ASSUME NEW t \in after, t # s PROVE t \in open
            OBVIOUS
        <2>1. t \in Sessions /\ tx[t] = [op |-> "ticket", item |-> i]
            BY DEF InFlight, TypeOK
        <2>2. [op |-> "ticket", item |-> i] # NoTx
            BY OpOfTransaction DEF NoTx
        <2> QED BY <2>1, <2>2
    <1> HIDE DEF open, after
    <1>3. IsFiniteSet(open \cup {s}) /\ Cardinality(open \cup {s}) = Cardinality(open) + 1
        BY <1>1, FS_AddElement
    <1>4. Cardinality(after) <= Cardinality(open \cup {s})
          /\ Cardinality(after) \in Nat
        BY <1>2, <1>3, FS_Subset, FS_CardinalityType
    <1> QED BY <1>1, <1>3, <1>4 DEF after

\* Every step keeps the seats, sold or in flight, within the pool.
LEMMA OversoldNext ==
    TypeOK /\ OversoldByRaceOnly /\ [Next]_vars => OversoldByRaceOnly'
    <1> SUFFICES ASSUME TypeOK, OversoldByRaceOnly, [Next]_vars, NEW j \in Limited
                 PROVE  sold'[j] + Cardinality(InFlight(Sessions, j)')
                            < Capacity[j] + PoolSize
        BY DEF OversoldByRaceOnly, Sessions, InFlight
    <1> DEFINE before == InFlight(Sessions, j)
               after == InFlight(Sessions, j)'
    <1>0. /\ j \in Items /\ Capacity[j] \in Nat
          /\ IsFiniteSet(Sessions)
          /\ Cardinality(before) \in Nat /\ PoolSize \in Nat
          /\ Cardinality(after) \in Nat
          /\ sold[j] \in Nat
          /\ sold[j] + Cardinality(before) < Capacity[j] + PoolSize
        <2>1. j \in Items /\ Capacity[j] \in Nat /\ PoolSize \in Nat
            BY WalletAssumption DEF WalletAssumption
        <2>2. after \in SUBSET Sessions
            BY DEF InFlight
        <2>3. IsFiniteSet(after) /\ Cardinality(after) <= Cardinality(Sessions)
            <3> HIDE DEF after
            <3> QED BY <2>2, SessionsAreFinite, FS_Subset
        <2>4. Cardinality(after) \in Nat
            BY <2>3, FS_CardinalityType
        <2> QED BY <2>1, <2>3, <2>4, SessionsAreFinite, InFlightIsBounded
                DEF TypeOK, OversoldByRaceOnly
    <1>1. ASSUME NEW s \in Sessions, NEW i \in Items, BeginTicket(s, i)
          PROVE  sold'[j] + Cardinality(after) < Capacity[j] + PoolSize
        <2>1. CASE i = j
            <3>1. sold'[j] = sold[j] /\ sold[j] < Capacity[j]
                BY <1>0, <1>1, <2>1 DEF BeginTicket, SoldOut
            <3>2. Cardinality(after) <= PoolSize
                BY <1>1, InFlightFitsPool DEF BeginTicket
            <3> QED BY <1>0, <3>1, <3>2
        <2>2. CASE i # j
            <3>1. tx[s] # [op |-> "ticket", item |-> j]
                <4>1. tx[s].op # "ticket"
                    BY <1>1 DEF BeginTicket, HasConnection, NoTx
                <4> QED BY <4>1, OpOfTransaction
            <3>2. [op |-> "ticket", item |-> i] # [op |-> "ticket", item |-> j]
                BY <2>2
            <3>3. after = before
                BY <1>1, <3>1, <3>2 DEF BeginTicket, InFlight, TypeOK
            <3> QED BY <1>0, <1>1, <3>3 DEF BeginTicket
        <2> QED BY <2>1, <2>2
    <1>2. ASSUME NEW s \in Sessions, CommitTicket(s)
          PROVE  sold'[j] + Cardinality(after) < Capacity[j] + PoolSize
        <2>1. Cardinality(after) =
                IF s \in before THEN Cardinality(before) - 1 ELSE Cardinality(before)
            BY <1>0, <1>2, InFlightAfterEnd DEF CommitTicket
        <2>2. CASE tx[s].item = j
            <3>1. tx[s] \in [op: {"ticket"}, item: Items]
                BY <1>2 DEF CommitTicket, TypeOK, Transaction, NoTx
            <3>2. s \in before
                BY <2>2, <3>1 DEF InFlight
            <3>3. sold'[j] = sold[j] + 1
                BY <1>0, <1>2, <2>2 DEF CommitTicket, TypeOK
            <3> QED BY <1>0, <2>1, <3>2, <3>3
        <2>3. CASE tx[s].item # j
            <3>1. sold'[j] = sold[j]
                BY <1>0, <1>2, <2>3 DEF CommitTicket, TypeOK
            <3> QED BY <1>0, <2>1, <3>1
        <2> QED BY <2>2, <2>3
    <1>3. ASSUME NEW s \in Sessions, CommitGift(s) \/ Rollback(s)
          PROVE  sold'[j] + Cardinality(after) < Capacity[j] + PoolSize
        <2>1. Cardinality(after) =
                IF s \in before THEN Cardinality(before) - 1 ELSE Cardinality(before)
            BY <1>0, <1>3, InFlightAfterEnd DEF CommitGift, Rollback
        <2>2. sold' = sold
            BY <1>3 DEF CommitGift, Rollback
        <2> QED BY <1>0, <2>1, <2>2
    <1>4. ASSUME NEW s \in Sessions, NEW g \in Gifts, NEW n \in Quantities,
                 BeginGift(s, g, n)
          PROVE  sold'[j] + Cardinality(after) < Capacity[j] + PoolSize
        <2> DEFINE new == [op |-> "gift", gift |-> g, n |-> n,
                           seen |-> inventory[Payer(s)][g] # <<>>]
        <2>1. new # [op |-> "ticket", item |-> j] /\ tx[s] # [op |-> "ticket", item |-> j]
            <3>1. new.op # "ticket" /\ tx[s].op # "ticket"
                BY <1>4 DEF BeginGift, HasConnection, NoTx
            <3> HIDE DEF new
            <3> QED BY <3>1, OpOfTransaction
        <2>2. tx' = [tx EXCEPT ![s] = new] /\ sold' = sold
            BY <1>4 DEF BeginGift
        <2> HIDE DEF new
        <2>3. after = before
            BY <1>0, <2>1, <2>2, InFlightAfterOther
        <2> QED BY <1>0, <2>2, <2>3
    <1>5. CASE UNCHANGED <<sold, tx>>
        <2>1. after = before
            BY <1>5 DEF InFlight
        <2> QED BY <1>0, <1>5, <2>1
    <1> QED BY <1>1, <1>2, <1>3, <1>4, <1>5, Zenon
            DEF Next, vars, SendGift, VoteForDuel, BuyDedication, VoteForCandidate,
                GiftToCandidate, TipManager

\* A concert is oversold by fewer seats than the pool has connections: never,
\* if the pool has only one.
THEOREM SeatsPerConcert == Spec => []OversoldByRaceOnly
    <1>1. Init => OversoldByRaceOnly
        <2> SUFFICES ASSUME Init, NEW i \in Limited
                     PROVE  sold[i] + Cardinality(InFlight(Sessions, i))
                                < Capacity[i] + PoolSize
            BY DEF OversoldByRaceOnly
        <2>1. sold[i] = 0 /\ Capacity[i] \in Nat /\ PoolSize \in Nat \ {0}
            BY WalletAssumption DEF Init, WalletAssumption
        <2>2. InFlight(Sessions, i) = {}
            <3>1. NoTx # [op |-> "ticket", item |-> i]
                BY OpOfTransaction DEF NoTx
            <3> QED BY <3>1 DEF Init, InFlight
        <2> QED BY <2>1, <2>2, FS_EmptySet
    <1> QED BY <1>1, OversoldNext, TypeCorrect, PTL DEF Spec

\* Seats and tickets: purchases in flight together are the only way to a second
\* ticket of one user, and to a seat too many.
THEOREM TicketsAreSafe == Spec => []TicketsByRaceOnly
    <1>1. DuplicateTicketsByRaceOnly /\ OversoldByRaceOnly => TicketsByRaceOnly
        BY DEF TicketsByRaceOnly
    <1> QED BY <1>1, TicketsPerUser, SeatsPerConcert, PTL

-----------------------------------------------------------------------------
(* Gifts of payers whose requests come one at a time. What a purchase has  *)
(* seen of the rows is then still so when it writes.                       *)

\* The rows of a gift and how many are left of those paid for.
Matched(rows, n) == (rows = <<>> /\ n = 0) \/ (rows = <<n>> /\ n > 0)

\* One request of this payer at a time.
OneByOne(u) == Cardinality(SessionsOf(u)) = 1

\* A request knows whether there are rows.
SeesRows(u, g) ==
    \A s \in SessionsOf(u) :
        tx[s].op = "gift" /\ tx[s].gift = g => (tx[s].seen <=> inventory[u][g] # <<>>)

\* The inductive invariant.
MatchedInv ==
    \A u \in Payers, g \in Gifts :
        OneByOne(u) => Matched(inventory[u][g], held[u][g]) /\ SeesRows(u, g)

\* A purchase that saw the rows adds to them, and one that saw none makes the first.
LEMMA MatchedPurchase ==
    ASSUME NEW rows, NEW n \in Int, NEW q \in Nat, q > 0, Matched(rows, n),
           NEW seen \in BOOLEAN, seen <=> rows # <<>>
    PROVE  Matched(RowsAfterPurchase(rows, q, seen), n + q)
    <1>1. CASE rows = <<>>
        <2>1. n = 0
            BY <1>1 DEF Matched
        <2>2. Append(<<>>, q) = <<q>>
            OBVIOUS
        <2> QED BY <1>1, <2>1, <2>2 DEF Matched, RowsAfterPurchase
    <1>2. CASE rows # <<>>
        <2>1. rows = <<n>> /\ n > 0
            BY <1>2 DEF Matched
        <2>2. [r \in DOMAIN rows |-> rows[r] + q] = <<n + q>>
            BY <2>1
        <2> QED BY <1>2, <2>1, <2>2 DEF Matched, RowsAfterPurchase
    <1> QED BY <1>1, <1>2

\* A gift that is sent leaves a row only while some are left.
LEMMA MatchedSend ==
    ASSUME NEW rows, NEW n \in Int, Matched(rows, n), Len(rows) = 1
    PROVE  Matched(RowsAfterSend(rows), n - 1)
    <1>1. rows = <<n>> /\ n > 0
        BY DEF Matched
    <1>2. rows[1] = n
        BY <1>1
    <1>3. CASE n <= 1
        <2>1. RowsAfterSend(rows) = <<>> /\ n - 1 = 0
            BY <1>1, <1>2, <1>3 DEF RowsAfterSend
        <2> QED BY <2>1 DEF Matched
    <1>4. CASE ~(n <= 1)
        BY <1>1, <1>2, <1>4 DEF RowsAfterSend, Matched
    <1> QED BY <1>3, <1>4

\* Who has one request has no second one.
LEMMA OneSession ==
    ASSUME NEW u \in Payers, OneByOne(u)
    PROVE  \A s, t \in SessionsOf(u) : s = t
    <1>1. IsFiniteSet(SessionsOf(u))
        BY SessionsAreFinite
    <1>2. PICK s : SessionsOf(u) = {s}
        BY <1>1, FS_Singleton DEF OneByOne
    <1> QED BY <1>2

\* One step per action.
LEMMA MatchedNext == TypeOK /\ MatchedInv /\ [Next]_vars => MatchedInv'
    <1> SUFFICES ASSUME TypeOK, MatchedInv, [Next]_vars,
                        NEW v \in Payers, NEW h \in Gifts, OneByOne(v)
                 PROVE  Matched(inventory'[v][h], held'[v][h]) /\ SeesRows(v, h)'
        BY DEF MatchedInv, OneByOne, SessionsOf
    <1>0. /\ held[v][h] \in Int /\ inventory[v][h] \in Seq(Nat)
          /\ Matched(inventory[v][h], held[v][h]) /\ SeesRows(v, h)
          /\ \A s \in SessionsOf(v) : s \in Sessions /\ Payer(s) = v
        BY SessionsAreFinite DEF TypeOK, MatchedInv, SessionsOf, Payer
    <1>1. ASSUME NEW s \in Sessions, CommitGift(s)
          PROVE  Matched(inventory'[v][h], held'[v][h]) /\ SeesRows(v, h)'
        <2> DEFINE u == Payer(s)
                   g == tx[s].gift
                   n == tx[s].n
        <2>1. u \in Payers /\ g \in Gifts /\ n \in Nat /\ tx[s].seen \in BOOLEAN
            BY <1>1, TransactionFacts, SessionsHavePayers DEF CommitGift
        <2>2. n > 0
            <3>1. tx[s] \in Transaction /\ tx[s].op = "gift"
                BY <1>1 DEF TypeOK, CommitGift
            <3>2. tx[s].n \in Quantities
                BY <3>1 DEF Transaction, NoTx
            <3> QED BY <2>1, <3>2, WalletAssumption DEF WalletAssumption
        <2>3. tx'[s] = NoTx /\ \A t \in Sessions : t # s => tx'[t] = tx[t]
            BY <1>1 DEF CommitGift, TypeOK
        <2>4. CASE v = u /\ h = g
            <3>1. /\ inventory'[v][h] = RowsAfterPurchase(inventory[v][h], n, tx[s].seen)
                  /\ held'[v][h] = held[v][h] + n
                BY <1>1, <2>1, <2>4 DEF CommitGift, TypeOK
            <3>2. s \in SessionsOf(v)
                BY <2>4, SessionsHavePayers
            <3>3. tx[s].seen <=> inventory[v][h] # <<>>
                BY <1>0, <1>1, <2>4, <3>2 DEF SeesRows, CommitGift
            <3>4. Matched(inventory'[v][h], held'[v][h])
                BY <1>0, <2>1, <2>2, <3>1, <3>3, MatchedPurchase
            <3>5. \A t \in SessionsOf(v) : tx'[t] = NoTx
                BY <2>3, <3>2, OneSession
            <3> QED BY <3>4, <3>5 DEF SeesRows, NoTx
        <2>5. CASE ~(v = u /\ h = g)
            <3>1. inventory'[v][h] = inventory[v][h] /\ held'[v][h] = held[v][h]
                BY <1>1, <2>1, <2>5 DEF CommitGift, TypeOK
            <3>2. \A t \in SessionsOf(v) : tx'[t] = tx[t] \/ tx'[t] = NoTx
                BY <1>0, <2>3
            <3> QED BY <1>0, <3>1, <3>2 DEF SeesRows, NoTx
        <2> QED BY <2>4, <2>5
    <1>2. ASSUME NEW s \in Sessions, NEW g \in Gifts,
                 NEW to \in Performers \cup Managers, SendGift(s, g, to)
          PROVE  Matched(inventory'[v][h], held'[v][h]) /\ SeesRows(v, h)'
        <2> DEFINE u == Payer(s)
        <2>1. u \in Payers /\ tx' = tx /\ tx[s] = NoTx
            BY <1>2, SessionsHavePayers DEF SendGift, HasConnection
        <2>2. CASE v = u /\ h = g
            <3>1. /\ inventory'[v][h] = RowsAfterSend(inventory[v][h])
                  /\ held'[v][h] = held[v][h] - 1
                  /\ Len(inventory[v][h]) = 1
                BY <1>2, <2>1, <2>2 DEF SendGift, TypeOK
            <3>2. Matched(inventory'[v][h], held'[v][h])
                BY <1>0, <3>1, MatchedSend
            <3>3. \A t \in SessionsOf(v) : tx'[t] = NoTx
                BY <2>1, <2>2, SessionsHavePayers, OneSession
            <3> QED BY <3>2, <3>3 DEF SeesRows, NoTx
        <2>3. CASE ~(v = u /\ h = g)
            <3>1. inventory'[v][h] = inventory[v][h] /\ held'[v][h] = held[v][h]
                BY <1>2, <2>1, <2>3 DEF SendGift, TypeOK
            <3> QED BY <1>0, <2>1, <3>1 DEF SeesRows
        <2> QED BY <2>2, <2>3
    <1>3. ASSUME NEW s \in Sessions, NEW g \in Gifts, NEW n \in Quantities, BeginGift(s, g, n)
          PROVE  Matched(inventory'[v][h], held'[v][h]) /\ SeesRows(v, h)'
        <2>1. /\ inventory' = inventory /\ held' = held
              /\ tx'[s].gift = g /\ (tx'[s].seen <=> inventory[Payer(s)][g] # <<>>)
              /\ \A t \in Sessions : t # s => tx'[t] = tx[t]
            BY <1>3 DEF BeginGift, TypeOK
        <2>2. SeesRows(v, h)'
            BY <1>0, <2>1 DEF SeesRows
        <2> QED BY <1>0, <2>1, <2>2
    <1>4. CASE /\ UNCHANGED <<inventory, held>>
               /\ \A t \in Sessions : \/ tx'[t] = tx[t] \/ tx'[t] = NoTx
                                      \/ tx'[t].op = "ticket"
        BY <1>0, <1>4 DEF SeesRows, NoTx
    <1>5. ASSUME NEW s \in Sessions, NEW i \in Items, BeginTicket(s, i)
          PROVE  Matched(inventory'[v][h], held'[v][h]) /\ SeesRows(v, h)'
        BY <1>4, <1>5 DEF BeginTicket, TypeOK
    <1>6. ASSUME NEW s \in Sessions, CommitTicket(s) \/ Rollback(s)
          PROVE  Matched(inventory'[v][h], held'[v][h]) /\ SeesRows(v, h)'
        BY <1>4, <1>6 DEF CommitTicket, Rollback, TypeOK
    <1>7. CASE UNCHANGED <<inventory, held, tx>>
        BY <1>4, <1>7
    <1> QED BY <1>1, <1>2, <1>3, <1>5, <1>6, <1>7
            DEF Next, vars, VoteForDuel, BuyDedication, VoteForCandidate, GiftToCandidate,
                TipManager

\* Of a payer whose requests come one at a time, what he can send is what he paid for and
\* has not sent, whoever else buys, sends and votes meanwhile.
THEOREM GiftsAreConserved == Spec => []InventoryMatchesPurchases
    <1>1. Init => MatchedInv
        <2> SUFFICES ASSUME Init, NEW u \in Payers, NEW g \in Gifts
                     PROVE  Matched(inventory[u][g], held[u][g]) /\ SeesRows(u, g)
            BY DEF MatchedInv
        <2>1. inventory[u][g] = <<>> /\ held[u][g] = 0
            BY DEF Init
        <2>2. \A s \in SessionsOf(u) : tx[s] = NoTx
            BY SessionsAreFinite DEF Init
        <2> QED BY <2>1, <2>2 DEF Matched, SeesRows, NoTx
    <1>2. MatchedInv => InventoryMatchesPurchases
        BY DEF MatchedInv, Matched, OneByOne, InventoryMatchesPurchases
    <1> QED BY <1>1, <1>2, MatchedNext, TypeCorrect, PTL DEF Spec
=============================================================================
