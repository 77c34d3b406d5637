--------------------------- MODULE PaymentsProofs ---------------------------
(***************************************************************************)
(* Webhooks, the job and the settlement procedures, for any number of      *)
(* purchases, handlers and deliveries, and for all four providers.         *)
(***************************************************************************)
EXTENDS Payments, TLAPS

USE PaymentsAssumption DEF PaymentsAssumption

Busy == [at: Stages, pay: Payments]

\* A handler that is not idle has a payment in hand.
LEMMA NotIdle ==
    ASSUME NEW h \in {Idle} \cup Busy
    PROVE  /\ h = Idle <=> h.at = "idle"
           /\ h # Idle => h \in Busy /\ h.pay \in Payments /\ h.at \in Stages
    BY DEF Idle, Busy, Stages

\* A handler goes on to a stage with the payment it has.
LEMMA NextStage ==
    ASSUME NEW h \in Busy, NEW s \in Stages
    PROVE  LET new == [h EXCEPT !.at = s]
           IN  new \in Busy /\ new.at = s /\ new.pay = h.pay /\ new # Idle
    BY DEF Busy, Idle, Stages

\* What the job has in hand are payments.
LEMMA JobFacts ==
    ASSUME TypeOK
    PROVE  /\ job.todo \subseteq Payments
           /\ job.at \in {"idle", "told"}
           /\ job.at = "told" => job.pay \in Payments
    BY DEF TypeOK

-----------------------------------------------------------------------------
(* Types.                                                                  *)

\* The initial states satisfy TypeOK.
LEMMA TypeInit == Init => TypeOK
    BY DEF Init, TypeOK

\* Crediting keeps the types.
LEMMA AddCreditsType ==
    ASSUME TypeOK, NEW p \in Payments, AddCredits(p)
    PROVE  wallet' \in [Users -> Nat] /\ ledger' \in [Payments -> Nat]
    <1>1. Credits[p] \in Nat /\ Buyer[p] \in Users
        OBVIOUS
    <1> QED BY <1>1 DEF AddCredits, TypeOK

\* Settling a row keeps the types, and makes no row of Stripe or Apple.
LEMMA SettleRowType ==
    ASSUME TypeOK, NEW p \in Payments, SettleRow(p), HasRow(p)
    PROVE  /\ wallet' \in [Users -> Nat] /\ ledger' \in [Payments -> Nat]
           /\ row' \in [Payments -> {"none", "pending", "success"}]
           /\ \A q \in Payments : Provider[q] \in {"stripe", "apple"} => row'[q] = "none"
    <1>1. CASE UNCHANGED <<row, wallet, ledger>>
        BY <1>1 DEF TypeOK
    <1>2. CASE AddCredits(p) /\ row' = [row EXCEPT ![p] = "success"]
        BY <1>2, AddCreditsType DEF TypeOK, HasRow
    <1> QED BY <1>1, <1>2 DEF SettleRow

\* The job asks about CinetPay rows only.
JobInv == /\ \A p \in job.todo : HasRow(p)
          /\ job.at = "told" => HasRow(job.pay)

TypeInv == TypeOK /\ JobInv

\* Every step keeps TypeInv.
LEMMA TypeNext == TypeInv /\ [Next]_vars => TypeInv'
    <1> SUFFICES ASSUME TypeInv, [Next]_vars PROVE TypeInv'
        OBVIOUS
    <1> USE DEF TypeInv
    <1>1. ASSUME NEW p \in Payments,
                 Start(p) \/ Open(p) \/ Pay(p) \/ Refuse(p) \/ Ignore(p) \/ Expire(p)
          PROVE  TypeInv'
        <2>1. CASE Start(p)
            BY <2>1 DEF Start, TypeOK, JobInv, HasRow
        <2>2. CASE Open(p) \/ Pay(p) \/ Refuse(p)
            BY <2>2 DEF Open, Pay, Refuse, TypeOK, JobInv, HasRow
        <2>3. CASE Ignore(p)
            BY <2>3 DEF Ignore, TypeOK, JobInv, HasRow
        <2>4. CASE Expire(p)
            BY <2>4 DEF Expire, TypeOK, JobInv, HasRow
        <2> QED BY <1>1, <2>1, <2>2, <2>3, <2>4
    <1>2. ASSUME NEW x \in Workers, NEW p \in Payments, Deliver(x, p)
          PROVE  TypeInv'
        BY <1>2 DEF Deliver, TypeOK, JobInv, HasRow, Stages
    <1>3. ASSUME NEW x \in Workers, Confirm(x)
          PROVE  TypeInv'
        <2>1. handler[x] \in Busy
            BY <1>3, NotIdle DEF Confirm, TypeOK, Busy, Idle
        <2>2. [handler[x] EXCEPT !.at = "confirmed"] \in Busy
            BY <2>1, NextStage DEF Stages
        <2> QED BY <1>3, <2>2 DEF Confirm, TypeOK, JobInv, HasRow, Busy
    <1>4. ASSUME NEW x \in Workers, Settle(x)
          PROVE  TypeInv'
        <2>1. handler[x] \in Busy /\ handler[x].pay \in Payments
            BY <1>4, NotIdle DEF Settle, TypeOK, Busy, Idle
        <2>2. [handler[x] EXCEPT !.at = "settled"] \in Busy
            BY <2>1, NextStage DEF Stages
        <2> QED BY <1>4, <2>1, <2>2, SettleRowType DEF Settle, TypeOK, JobInv, HasRow, Busy
    <1>5. ASSUME NEW x \in Workers, Count(x)
          PROVE  TypeInv'
        <2>1. handler[x] \in Busy
            BY <1>5, NotIdle DEF Count, TypeOK, Busy
        <2>2. PICK s \in Stages : handler' = [handler EXCEPT ![x].at = s]
            BY <1>5 DEF Count, Stages
        <2>3. [handler[x] EXCEPT !.at = s] \in Busy
            BY <2>1, NextStage
        <2> QED BY <1>5, <2>2, <2>3 DEF Count, TypeOK, JobInv, HasRow, Busy
    <1>6. ASSUME NEW x \in Workers, Credit(x)
          PROVE  TypeInv'
        <2>1. handler[x] \in Busy /\ handler[x].pay \in Payments
            BY <1>6, NotIdle DEF Credit, TypeOK, Busy, Idle
        <2>2. [handler[x] EXCEPT !.at = "settled"] \in Busy
            BY <2>1, NextStage DEF Stages
        <2> QED BY <1>6, <2>1, <2>2, AddCreditsType DEF Credit, TypeOK, JobInv, HasRow, Busy
    <1>7. ASSUME NEW x \in Workers, Finish(x) \/ GiveUp(x)
          PROVE  TypeInv'
        BY <1>7 DEF Finish, GiveUp, TypeOK, JobInv, HasRow
    <1>8. CASE ListPending
        <2>1. job \in [todo: SUBSET Payments, at: {"idle"}]
            BY <1>8 DEF ListPending, TypeOK
        <2>2. job' \in [todo: SUBSET Payments, at: {"idle"}]
              /\ \A p \in job'.todo : HasRow(p)
            BY <1>8, <2>1 DEF ListPending, HasRow
        <2> QED BY <1>8, <2>2 DEF ListPending, TypeOK, JobInv, HasRow
    <1>9. ASSUME NEW p \in Payments, AskAccepted(p)
          PROVE  TypeInv'
        BY <1>9, JobFacts DEF AskAccepted, TypeOK, JobInv, HasRow
    <1>10. ASSUME NEW p \in Payments, AskOther(p)
           PROVE  TypeInv'
        <2>1. job \in [todo: SUBSET Payments, at: {"idle"}]
            BY <1>10 DEF AskOther, TypeOK
        <2>2. job' \in [todo: SUBSET Payments, at: {"idle"}]
              /\ \A q \in job'.todo : HasRow(q)
            BY <1>10, <2>1 DEF AskOther, JobInv
        <2> QED BY <1>10, <2>2 DEF AskOther, TypeOK, JobInv, HasRow
    <1>11. CASE Reconcile
        <2>1. job.pay \in Payments /\ HasRow(job.pay)
            BY <1>11, JobFacts DEF Reconcile, JobInv
        <2> QED BY <1>11, <2>1, JobFacts, SettleRowType DEF Reconcile, TypeOK, JobInv, HasRow
    <1>12. CASE ReconcileFails \/ JobStops \/ UNCHANGED vars
        BY <1>12 DEF ReconcileFails, JobStops, vars, TypeOK, JobInv, HasRow
    <1> QED BY <1>1, <1>2, <1>3, <1>4, <1>5, <1>6, <1>7, <1>8, <1>9, <1>10, <1>11, <1>12
            DEF Next

\* Rows, claims and ledgers stay in their types, and only the providers with a
\* transaction row ever have one.
THEOREM TypeCorrect == Spec => []TypeOK
    <1>1. Init => TypeInv
        BY TypeInit DEF Init, TypeInv, JobInv
    <1>2. TypeInv => TypeOK
        BY DEF TypeInv
    <1> QED BY <1>1, <1>2, TypeNext, PTL DEF Spec
-----------------------------------------------------------------------------
(* What the provider was paid for, and what the books say of it.           *)

Paid == {p \in Payments : checkout[p] \in {"accepted", "revoked"}}

\* A row and the ledger move together, under the row's lock.
RowsMatchLedger ==
    \A p \in Payments : HasRow(p) => ledger[p] = (IF row[p] = "success" THEN 1 ELSE 0)

\* Credited, confirmed or claimed on a signature: in each case it was paid.
OnlyPaidIsCredited == \A p \in Payments : ledger[p] > 0 => p \in Paid

\* What a handler, and the job, know at each of their steps.
StageFacts(x, h, paid, credits) ==
    /\ h.pay \in Serves[x]
    /\ (h.at = "claimed" /\ HasRow(h.pay)) \/ h.pay \in paid
    /\ h.at = "counted" => ~HasRow(h.pay)
    /\ h.at = "settled" => credits[h.pay] > 0
StageInv ==
    \A x \in Workers : handler[x] # Idle => StageFacts(x, handler[x], Paid, ledger)
ToldInv == job.at = "told" => job.pay \in Paid

BooksInv == /\ TypeInv
            /\ RowsMatchLedger
            /\ OnlyPaidIsCredited
            /\ StageInv
            /\ ToldInv
            /\ ProcessedMeansCredited

\* The initial states satisfy BooksInv.
LEMMA BooksInit == Init => BooksInv
    BY TypeInit
    DEF Init, BooksInv, TypeInv, JobInv, RowsMatchLedger, OnlyPaidIsCredited, StageInv,
        ToldInv, ProcessedMeansCredited

\* Nothing takes a payment or a credit back.
LEMMA NothingIsTakenBack ==
    ASSUME TypeInv, [Next]_vars, NEW p \in Payments
    PROVE  (p \in Paid => p \in Paid') /\ ledger'[p] >= ledger[p]
    <1> USE DEF TypeInv
    <1>1. ledger[p] \in Nat
        BY DEF TypeOK
    <1>2. ASSUME NEW q \in Payments, Open(q) \/ Pay(q) \/ Refuse(q)
          PROVE  (p \in Paid => p \in Paid') /\ ledger'[p] >= ledger[p]
        BY <1>1, <1>2 DEF Open, Pay, Refuse, Paid, TypeOK
    <1>3. ASSUME NEW q \in Payments, AddCredits(q)
          PROVE  ledger'[p] >= ledger[p]
        BY <1>1, <1>3 DEF AddCredits, TypeOK
    <1>4. ASSUME NEW x \in Workers, Settle(x) \/ Credit(x)
          PROVE  (p \in Paid => p \in Paid') /\ ledger'[p] >= ledger[p]
        <2>1. handler[x].pay \in Payments
            BY <1>4, NotIdle DEF Settle, Credit, TypeOK, Busy, Idle
        <2> QED BY <1>1, <1>3, <1>4, <2>1 DEF Settle, Credit, SettleRow, Paid
    <1>5. CASE Reconcile
        BY <1>1, <1>3, <1>5, JobFacts DEF Reconcile, SettleRow, Paid
    <1>6. CASE UNCHANGED <<checkout, ledger>>
        BY <1>1, <1>6 DEF Paid
    <1> QED BY <1>2, <1>4, <1>5, <1>6
            DEF Next, vars, Start, Ignore, Expire, Deliver, Confirm, Count, Finish, GiveUp,
                ListPending, AskAccepted, AskOther, ReconcileFails, JobStops

\* SettleRow leaves a row settled, whichever of its two branches is taken.
LEMMA SettleRowSettles ==
    ASSUME TypeOK, RowsMatchLedger, NEW p \in Payments, HasRow(p), SettleRow(p)
    PROVE  /\ RowsMatchLedger'
           /\ ledger'[p] = 1
           /\ \A q \in Payments : q # p => ledger'[q] = ledger[q]
    <1>1. CASE row[p] = "success" /\ UNCHANGED <<row, wallet, ledger>>
        BY <1>1 DEF RowsMatchLedger, HasRow
    <1>2. CASE row[p] = "pending" /\ AddCredits(p) /\ row' = [row EXCEPT ![p] = "success"]
        BY <1>2 DEF AddCredits, RowsMatchLedger, HasRow, TypeOK
    <1> QED BY <1>1, <1>2 DEF SettleRow

\* Every step keeps BooksInv.
LEMMA BooksNext == BooksInv /\ [Next]_vars => BooksInv'
    <1> SUFFICES ASSUME BooksInv, [Next]_vars PROVE BooksInv'
        OBVIOUS
    <1> USE DEF BooksInv
    <1>t. TypeInv'
        BY TypeNext
    <1>k. \A p \in Payments : (p \in Paid => p \in Paid') /\ ledger'[p] >= ledger[p]
        BY NothingIsTakenBack
    <1>n. \A p \in Payments : ledger[p] \in Nat /\ ledger'[p] \in Nat
        BY <1>t DEF TypeInv, TypeOK
    <1>h. \A x \in Workers : handler[x] \in {Idle} \cup Busy
        BY DEF TypeInv, TypeOK, Busy
    \* The parts an action leaves alone.
    <1>s. UNCHANGED handler => StageInv'
        BY <1>k, <1>n, <1>h, NotIdle DEF StageInv, StageFacts
    <1>j. UNCHANGED job => ToldInv'
        BY <1>k, JobFacts DEF ToldInv, TypeInv
    <1>r. UNCHANGED <<row, ledger>> => RowsMatchLedger' /\ OnlyPaidIsCredited'
        BY <1>k DEF RowsMatchLedger, OnlyPaidIsCredited, HasRow
    <1>c. UNCHANGED claim => ProcessedMeansCredited'
        BY <1>k, <1>n DEF ProcessedMeansCredited
    \* A handler that moves one stage on.
    <1>m. ASSUME NEW x \in Workers, NEW s \in Stages, handler[x] # Idle,
                 handler' = [handler EXCEPT ![x].at = s],
                 handler[x].pay \in Paid \/ s = "claimed",
                 s = "counted" => ~HasRow(handler[x].pay),
                 s = "settled" => ledger'[handler[x].pay] > 0,
                 s # "claimed"
          PROVE  StageInv'
        <2> DEFINE new == [handler[x] EXCEPT !.at = s]
        <2>1. handler[x] \in Busy /\ handler[x].pay \in Payments
            BY <1>m, <1>h, NotIdle
        <2>2. new.at = s /\ new.pay = handler[x].pay
            BY <2>1, NextStage
        <2>3. handler' = [handler EXCEPT ![x] = new]
            BY <1>m
        <2> HIDE DEF new
        <2>4. ASSUME NEW y \in Workers, handler'[y] # Idle
              PROVE  StageFacts(y, handler'[y], Paid', ledger')
            <3>1. CASE y = x
                <4>1. handler'[y] = new
                    BY <2>3, <3>1, <1>h DEF TypeInv, TypeOK
                <4>2. handler[x].pay \in Serves[x]
                    BY <1>m DEF StageInv, StageFacts
                <4>3. handler[x].pay \in Paid'
                    BY <1>m, <1>k, <2>1
                <4> QED BY <1>m, <2>2, <3>1, <4>1, <4>2, <4>3 DEF StageFacts
            <3>2. CASE y # x
                <4>1. handler'[y] = handler[y] /\ handler[y].pay \in Payments
                    BY <2>3, <2>4, <3>2, <1>h, NotIdle DEF TypeInv, TypeOK
                <4> QED BY <2>4, <4>1, <1>k, <1>n DEF StageInv, StageFacts
            <3> QED BY <3>1, <3>2
        <2> QED BY <2>4 DEF StageInv
    <1>1. ASSUME NEW p \in Payments,
                 Start(p) \/ Open(p) \/ Pay(p) \/ Refuse(p) \/ Ignore(p) \/ Expire(p)
          PROVE  BooksInv'
        <2>1. CASE Start(p)
            <3>1. RowsMatchLedger' /\ OnlyPaidIsCredited'
                BY <2>1, <1>k DEF Start, RowsMatchLedger, OnlyPaidIsCredited, HasRow, TypeInv, TypeOK
            <3> QED BY <2>1, <3>1, <1>t, <1>s, <1>j, <1>c DEF Start
        <2>2. CASE Open(p) \/ Pay(p) \/ Refuse(p) \/ Ignore(p) \/ Expire(p)
            BY <2>2, <1>t, <1>s, <1>j, <1>r, <1>c DEF Open, Pay, Refuse, Ignore, Expire
        <2> QED BY <1>1, <2>1, <2>2
    <1>2. ASSUME NEW x \in Workers, NEW p \in Payments, Deliver(x, p)
          PROVE  BooksInv'
        <2>1. ProcessedMeansCredited'
            BY <1>2, <1>k, <1>n DEF Deliver, ProcessedMeansCredited, TypeInv, TypeOK
        <2>2. ASSUME NEW y \in Workers, handler'[y] # Idle
              PROVE  StageFacts(y, handler'[y], Paid', ledger')
            <3>1. CASE y = x
                <4>1. handler'[y] = [at |-> "claimed", pay |-> p]
                    BY <1>2, <3>1 DEF Deliver, TypeInv, TypeOK
                <4>2. HasRow(p) \/ p \in Paid'
                    BY <1>2 DEF Deliver, Notifies, Paid
                <4> QED BY <1>2, <3>1, <4>1, <4>2 DEF Deliver, StageFacts
            <3>2. CASE y # x
                <4>1. handler'[y] = handler[y] /\ handler[y].pay \in Payments
                    BY <1>2, <2>2, <3>2, <1>h, NotIdle DEF Deliver, TypeInv, TypeOK
                <4> QED BY <2>2, <4>1, <1>k, <1>n DEF StageInv, StageFacts
            <3> QED BY <3>1, <3>2
        <2>3. StageInv'
            BY <2>2 DEF StageInv
        <2> QED BY <1>2, <2>1, <2>3, <1>t, <1>j, <1>r DEF Deliver
    <1>3. ASSUME NEW x \in Workers, Confirm(x)
          PROVE  BooksInv'
        <2>1. handler[x] # Idle /\ handler[x].pay \in Payments
            BY <1>3, <1>h, NotIdle DEF Confirm, Idle
        <2>2. handler[x].pay \in Paid
            BY <1>3, <2>1 DEF Confirm, Confirmed, Paid
        <2>3. "confirmed" \in Stages /\ handler' = [handler EXCEPT ![x].at = "confirmed"]
            BY <1>3 DEF Confirm, Stages
        <2>4. StageInv'
            BY <2>1, <2>2, <2>3, <1>m
        <2> QED BY <1>3, <2>4, <1>t, <1>j, <1>r, <1>c DEF Confirm
    <1>4. ASSUME NEW x \in Workers, Settle(x)
          PROVE  BooksInv'
        <2> DEFINE p == handler[x].pay
        <2>1. p \in Payments /\ p \in Paid /\ handler[x] # Idle
            BY <1>4, <1>h, NotIdle DEF Settle, StageInv, StageFacts, Idle
        <2>2. /\ RowsMatchLedger' /\ ledger'[p] = 1
              /\ \A q \in Payments : q # p => ledger'[q] = ledger[q]
            BY <1>4, <2>1, SettleRowSettles DEF Settle, TypeInv
        <2>5. "settled" \in Stages /\ handler' = [handler EXCEPT ![x].at = "settled"]
            BY <1>4 DEF Settle, Stages
        <2>6. ledger'[p] > 0
            BY <2>2
        <2>3. StageInv'
            BY <2>1, <2>5, <2>6, <1>m
        <2>4. OnlyPaidIsCredited'
            BY <2>1, <2>2, <1>k DEF OnlyPaidIsCredited
        <2> QED BY <1>4, <2>2, <2>3, <2>4, <1>t, <1>j, <1>c DEF Settle
    <1>5. ASSUME NEW x \in Workers, Count(x)
          PROVE  BooksInv'
        <2> DEFINE p == handler[x].pay
                   s == IF ledger[p] > 0 THEN "settled" ELSE "counted"
        <2>1. p \in Payments /\ p \in Paid /\ handler[x] # Idle /\ ~HasRow(p)
            BY <1>5, <1>h, NotIdle DEF Count, StageInv, StageFacts
        <2>2. s \in Stages /\ handler' = [handler EXCEPT ![x].at = s]
            BY <1>5 DEF Count, Stages
        <2>3. /\ s = "settled" => ledger'[p] > 0
              /\ s # "claimed"
            BY <1>5 DEF Count
        <2> HIDE DEF s
        <2>4. StageInv'
            BY <2>1, <2>2, <2>3, <1>m
        <2> QED BY <1>5, <2>4, <1>t, <1>j, <1>r, <1>c DEF Count
    <1>6. ASSUME NEW x \in Workers, Credit(x)
          PROVE  BooksInv'
        <2> DEFINE p == handler[x].pay
        <2>1. p \in Payments /\ p \in Paid /\ handler[x] # Idle /\ ~HasRow(p)
            BY <1>6, <1>h, NotIdle DEF Credit, StageInv, StageFacts, Idle
        <2>2. /\ ledger' = [ledger EXCEPT ![p] = @ + 1] /\ row' = row
              /\ ledger'[p] > 0
            BY <1>6, <2>1, <1>n DEF Credit, AddCredits, TypeInv, TypeOK
        <2>3. RowsMatchLedger'
            BY <2>1, <2>2 DEF RowsMatchLedger, HasRow, TypeInv, TypeOK
        <2>4. OnlyPaidIsCredited'
            BY <2>1, <2>2, <1>k DEF OnlyPaidIsCredited, TypeInv, TypeOK
        <2>5. StageInv'
            BY <1>6, <2>1, <2>2, <1>m DEF Credit, Stages
        <2> QED BY <1>6, <2>3, <2>4, <2>5, <1>t, <1>j, <1>c DEF Credit
    <1>7. ASSUME NEW x \in Workers, Finish(x) \/ GiveUp(x)
          PROVE  BooksInv'
        <2>1. StageInv'
            <3>1. handler' = [handler EXCEPT ![x] = Idle]
                BY <1>7 DEF Finish, GiveUp
            <3>2. \A y \in Workers : handler'[y] # Idle => y # x /\ handler'[y] = handler[y]
                BY <3>1 DEF TypeInv, TypeOK
            <3> QED BY <3>2, <1>h, <1>k, <1>n, NotIdle DEF StageInv, StageFacts
        <2>2. CASE Finish(x)
            <3>1. handler[x].pay \in Payments /\ ledger[handler[x].pay] > 0
                BY <2>2, <1>h, NotIdle DEF Finish, Markable, StageInv, StageFacts, Idle
            <3>2. ProcessedMeansCredited'
                BY <2>2, <3>1, <1>k, <1>n DEF Finish, ProcessedMeansCredited, TypeInv, TypeOK
            <3> QED BY <2>1, <2>2, <3>2, <1>t, <1>j, <1>r DEF Finish
        <2>3. CASE GiveUp(x)
            BY <2>1, <2>3, <1>t, <1>j, <1>r, <1>c DEF GiveUp
        <2> QED BY <1>7, <2>2, <2>3
    <1>8. ASSUME ListPending \/ ReconcileFails \/ JobStops \/ \E p \in Payments : AskOther(p)
          PROVE  BooksInv'
        <2>1. job'.at # "told"
            BY <1>8 DEF ListPending, ReconcileFails, JobStops, AskOther, TypeInv, TypeOK
        <2> QED BY <1>8, <2>1, <1>t, <1>s, <1>r, <1>c DEF ListPending, ReconcileFails, JobStops, AskOther, ToldInv
    <1>9. ASSUME NEW p \in Payments, AskAccepted(p)
          PROVE  BooksInv'
        <2>1. ToldInv'
            BY <1>9, <1>k DEF AskAccepted, Confirmed, Paid, ToldInv, TypeInv, TypeOK
        <2> QED BY <1>9, <2>1, <1>t, <1>s, <1>r, <1>c DEF AskAccepted
    <1>10. CASE Reconcile
        <2> DEFINE p == job.pay
        <2>1. p \in Payments /\ HasRow(p) /\ p \in Paid
            BY <1>10, JobFacts DEF Reconcile, TypeInv, JobInv, ToldInv
        <2>2. /\ RowsMatchLedger' /\ ledger'[p] = 1
              /\ \A q \in Payments : q # p => ledger'[q] = ledger[q]
            BY <1>10, <2>1, SettleRowSettles DEF Reconcile, TypeInv
        <2>3. OnlyPaidIsCredited' /\ ToldInv'
            BY <1>10, <2>1, <2>2, <1>k DEF OnlyPaidIsCredited, Reconcile, ToldInv
        <2> QED BY <1>10, <2>2, <2>3, <1>t, <1>s, <1>c DEF Reconcile
    <1>11. CASE UNCHANGED vars
        BY <1>11, <1>t, <1>s, <1>j, <1>r, <1>c DEF vars
    <1> QED BY <1>1, <1>2, <1>3, <1>4, <1>5, <1>6, <1>7, <1>8, <1>9, <1>10, <1>11 DEF Next

\* A delivery that is answered without a look, because its event is marked
\* processed, never leaves a buyer without his credits.
THEOREM ProcessedIsCredited == Spec => []ProcessedMeansCredited
    <1>1. BooksInv => ProcessedMeansCredited
        BY DEF BooksInv
    <1> QED BY <1>1, BooksInit, BooksNext, PTL DEF Spec

\* CinetPay and Moneroo: however many webhooks and runs of the job settle a
\* purchase at a time, the buyer is credited once.
RowCreditedOnce == \A p \in Payments : HasRow(p) => ledger[p] <= 1

\* For every number of webhooks, runs and rows.
THEOREM RowsAreCreditedOnce == Spec => []RowCreditedOnce
    <1>1. BooksInv => RowCreditedOnce
        BY DEF BooksInv, RowsMatchLedger, RowCreditedOnce
    <1> QED BY <1>1, BooksInit, BooksNext, PTL DEF Spec

\* No credit without a payment, for all four providers.
THEOREM CreditsArePaidFor == Spec => []OnlyPaidIsCredited
    <1>1. BooksInv => OnlyPaidIsCredited
        BY DEF BooksInv
    <1> QED BY <1>1, BooksInit, BooksNext, PTL DEF Spec

-----------------------------------------------------------------------------
(* Stripe and Apple: one handler at a time for a purchase is what makes    *)
(* counting the reference enough.                                          *)

CountedInv ==
    \A x \in Workers : handler[x].at = "counted" => ledger[handler[x].pay] = 0

\* A settlement touches no purchase that is counted somewhere else.
LEMMA CountedNext ==
    ASSUME OneWorkerPerReference
    PROVE  BooksInv /\ CountedInv /\ [Next]_vars => CountedInv'
    <1> SUFFICES ASSUME BooksInv, CountedInv, [Next]_vars, NEW y \in Workers,
                        handler'[y].at = "counted"
                 PROVE  ledger'[handler'[y].pay] = 0
        BY DEF CountedInv
    <1> USE DEF BooksInv, TypeInv
    <1>y. handler[y].at = "counted" =>
              /\ handler[y].pay \in Payments /\ handler[y].pay \in Serves[y]
              /\ ~HasRow(handler[y].pay) /\ ledger[handler[y].pay] = 0
        BY NotIdle DEF CountedInv, StageInv, StageFacts, TypeOK, Busy, Idle
    <1>1. CASE UNCHANGED <<handler, ledger>>
        BY <1>1 DEF CountedInv
    <1>2. ASSUME NEW x \in Workers, NEW p \in Payments, Deliver(x, p)
          PROVE  ledger'[handler'[y].pay] = 0
        <2>1. y # x /\ handler'[y] = handler[y] /\ ledger' = ledger
            BY <1>2 DEF Deliver, TypeOK
        <2> QED BY <1>y, <2>1
    <1>3. ASSUME NEW x \in Workers, Confirm(x) \/ Finish(x) \/ GiveUp(x)
          PROVE  ledger'[handler'[y].pay] = 0
        <2>1. y # x /\ handler'[y] = handler[y] /\ ledger' = ledger
            BY <1>3 DEF Confirm, Finish, GiveUp, TypeOK, Idle
        <2> QED BY <1>y, <2>1
    <1>4. ASSUME NEW x \in Workers, Settle(x)
          PROVE  ledger'[handler'[y].pay] = 0
        <2>1. y # x /\ handler'[y] = handler[y]
            BY <1>4 DEF Settle, TypeOK
        <2>2. /\ handler[x].pay \in Payments /\ HasRow(handler[x].pay)
              /\ SettleRow(handler[x].pay)
            BY <1>4, NotIdle DEF Settle, TypeOK, Busy, Idle
        <2>3. ledger'[handler[y].pay] = ledger[handler[y].pay]
            BY <1>y, <2>1, <2>2, SettleRowSettles
        <2> QED BY <1>y, <2>1, <2>3
    <1>5. ASSUME NEW x \in Workers, Count(x)
          PROVE  ledger'[handler'[y].pay] = 0
        <2>1. ledger' = ledger
            BY <1>5 DEF Count
        <2>2. CASE y = x
            <3>1. handler[x] \in Busy /\ handler[x].pay \in Payments
                BY <1>5, NotIdle DEF Count, TypeOK, Busy
            <3>2. handler'[x] = [handler[x] EXCEPT !.at =
                                   IF ledger[handler[x].pay] > 0 THEN "settled" ELSE "counted"]
                BY <1>5 DEF Count, TypeOK
            <3>3. handler'[x].pay = handler[x].pay /\ ~(ledger[handler[x].pay] > 0)
                BY <2>2, <3>1, <3>2 DEF Busy
            <3>4. ledger[handler[x].pay] \in Nat
                BY <3>1 DEF TypeOK
            <3> QED BY <2>1, <2>2, <3>3, <3>4
        <2>3. CASE y # x
            <3>1. handler'[y] = handler[y]
                BY <1>5, <2>3 DEF Count, TypeOK
            <3> QED BY <1>y, <2>1, <3>1
        <2> QED BY <2>2, <2>3
    <1>6. ASSUME NEW x \in Workers, Credit(x)
          PROVE  ledger'[handler'[y].pay] = 0
        <2> DEFINE p == handler[x].pay
        <2>1. y # x /\ handler'[y] = handler[y]
            BY <1>6 DEF Credit, TypeOK
        <2>2. p \in Payments /\ p \in Serves[x] /\ ~HasRow(p)
            BY <1>6, NotIdle DEF Credit, StageInv, StageFacts, TypeOK, Busy, Idle
        <2>3. handler[y].pay # p
            BY <1>y, <2>1, <2>2 DEF OneWorkerPerReference
        <2>4. ledger' = [ledger EXCEPT ![p] = @ + 1]
            BY <1>6 DEF Credit, AddCredits
        <2>5. ledger'[handler[y].pay] = ledger[handler[y].pay]
            BY <1>y, <2>1, <2>3, <2>4 DEF TypeOK
        <2> QED BY <1>y, <2>1, <2>5
    <1>7. CASE Reconcile
        <2>1. job.pay \in Payments /\ HasRow(job.pay) /\ SettleRow(job.pay)
            BY <1>7, JobFacts DEF Reconcile, JobInv
        <2>2. handler'[y] = handler[y]
            BY <1>7 DEF Reconcile
        <2>3. ledger'[handler[y].pay] = ledger[handler[y].pay]
            BY <1>y, <2>1, <2>2, SettleRowSettles
        <2> QED BY <1>y, <2>2, <2>3
    <1> QED BY <1>1, <1>2, <1>3, <1>4, <1>5, <1>6, <1>7
            DEF Next, vars, Start, Open, Pay, Refuse, Ignore, Expire, ListPending,
                AskAccepted, AskOther, ReconcileFails, JobStops

-----------------------------------------------------------------------------
(* The refinement: paying is a step of module Settlement, crediting is one, *)
(* and everything else is none.                                            *)

Credited == {p \in Payments : ledger[p] > 0}

\* Paying is the paying of Settlement.
LEMMA PayImplements ==
    ASSUME TypeOK, NEW p \in Payments, Pay(p)
    PROVE  Promise!Pay(p)
    <1>1. p \notin Paid
        BY DEF Pay, Paid
    <1>2. Paid' = Paid \cup {p}
        BY DEF Pay, Paid, TypeOK
    <1> QED BY <1>1, <1>2 DEF Pay, Promise!Pay, Paid

\* Crediting what was not credited is the crediting of Settlement.
LEMMA AddCreditsImplements ==
    ASSUME TypeOK, NEW p \in Payments, p \in Paid, ledger[p] = 0, AddCredits(p),
           UNCHANGED checkout
    PROVE  Promise!Credit(p)
    <1>1. ledger' = [ledger EXCEPT ![p] = @ + 1] /\ ledger \in [Payments -> Nat]
        BY DEF AddCredits, TypeOK
    <1>2. Credited' = Credited \cup {p}
        BY <1>1 DEF Credited
    <1>3. p \notin Credited
        BY DEF Credited
    <1> QED BY <1>2, <1>3 DEF AddCredits, Promise!Credit, Credited, Paid

\* Settling a row credits, or changes nothing that Settlement has.
LEMMA SettleRowImplements ==
    ASSUME TypeOK, RowsMatchLedger, NEW p \in Payments, HasRow(p), p \in Paid,
           SettleRow(p), UNCHANGED checkout
    PROVE  Promise!Credit(p) \/ UNCHANGED <<wallet, Paid, Credited>>
    <1>1. CASE UNCHANGED <<row, wallet, ledger>>
        BY <1>1 DEF Paid, Credited
    <1>2. CASE row[p] = "pending" /\ AddCredits(p)
        <2>1. ledger[p] = 0
            BY <1>2 DEF RowsMatchLedger
        <2> QED BY <1>2, <2>1, AddCreditsImplements
    <1> QED BY <1>1, <1>2 DEF SettleRow

\* A step is one of Settlement or none.
LEMMA ImplementationNext ==
    BooksInv /\ CountedInv /\ [Next]_vars => [Promise!Next]_<<wallet, Paid, Credited>>
    <1> SUFFICES ASSUME BooksInv, CountedInv, [Next]_vars
                 PROVE  Promise!Next \/ UNCHANGED <<wallet, Paid, Credited>>
        OBVIOUS
    <1> USE DEF BooksInv, TypeInv
    <1>1. ASSUME NEW p \in Payments, Pay(p)
          PROVE  Promise!Next
        BY <1>1, PayImplements DEF Promise!Next
    <1>2. ASSUME NEW p \in Payments, Open(p) \/ Refuse(p)
          PROVE  UNCHANGED <<wallet, Paid, Credited>>
        <2>1. Paid' = Paid
            BY <1>2 DEF Open, Refuse, Paid, TypeOK
        <2> QED BY <1>2, <2>1 DEF Open, Refuse, Credited
    <1>3. ASSUME NEW x \in Workers, Settle(x)
          PROVE  Promise!Next \/ UNCHANGED <<wallet, Paid, Credited>>
        <2> DEFINE p == handler[x].pay
        <2>1. p \in Payments /\ p \in Paid /\ HasRow(p)
            BY <1>3, NotIdle DEF Settle, StageInv, StageFacts, TypeOK, Busy, Idle
        <2> QED BY <1>3, <2>1, SettleRowImplements DEF Settle, Promise!Next
    <1>4. ASSUME NEW x \in Workers, Credit(x)
          PROVE  Promise!Next
        <2> DEFINE p == handler[x].pay
        <2>1. p \in Payments /\ p \in Paid /\ ledger[p] = 0
            BY <1>4, NotIdle DEF Credit, StageInv, StageFacts, CountedInv, TypeOK, Busy, Idle
        <2> QED BY <1>4, <2>1, AddCreditsImplements DEF Credit, Promise!Next
    <1>5. CASE Reconcile
        <2>1. job.pay \in Payments /\ HasRow(job.pay) /\ job.pay \in Paid
            BY <1>5, JobFacts DEF Reconcile, JobInv, ToldInv
        <2> QED BY <1>5, <2>1, SettleRowImplements DEF Reconcile, Promise!Next
    <1>6. CASE UNCHANGED <<wallet, checkout, ledger>>
        BY <1>6 DEF Paid, Credited
    <1> QED BY <1>1, <1>2, <1>3, <1>4, <1>5, <1>6
            DEF Next, vars, Start, Ignore, Expire, Deliver, Confirm, Count, Finish, GiveUp,
                ListPending, AskAccepted, AskOther, ReconcileFails, JobStops

\* With one handler at a time for a Stripe or an Apple purchase, the whole of
\* webhooks, job and procedures implements "paid, then credited once", for the
\* four providers together.
THEOREM Implementation ==
    ASSUME OneWorkerPerReference
    PROVE  Spec => ImplementsSettlement
    <1>1. Init => CountedInv
        BY DEF Init, CountedInv, Idle
    <1>2. Init => Promise!Init
        BY DEF Init, Promise!Init
    <1>3. BooksInv /\ CountedInv /\ [Next]_vars => CountedInv'
        BY CountedNext
    <1>4. BooksInv /\ CountedInv /\ [Next]_vars
            => [Promise!Next]_<<wallet, {p \in Payments : checkout[p] \in {"accepted", "revoked"}},
                                {p \in Payments : ledger[p] > 0}>>
        BY ImplementationNext DEF Paid, Credited
    <1> QED BY <1>1, <1>2, <1>3, <1>4, BooksInit, BooksNext, PTL
            DEF Spec, ImplementsSettlement, Promise!Spec

\* Nor is a purchase of any provider credited twice then.
THEOREM EveryPurchaseOnce ==
    ASSUME OneWorkerPerReference
    PROVE  Spec => []CreditedOnce
    <1>1. Init => CountedInv /\ CreditedOnce
        BY DEF Init, CountedInv, CreditedOnce, Idle
    <1>2. BooksInv /\ CountedInv /\ [Next]_vars => CountedInv'
        BY CountedNext
    <1>3. BooksInv /\ CountedInv /\ CreditedOnce /\ BooksInv' /\ [Next]_vars => CreditedOnce'
        <2> SUFFICES ASSUME BooksInv, CountedInv, CreditedOnce, BooksInv', [Next]_vars,
                            NEW p \in Payments
                     PROVE  ledger'[p] <= 1
            BY DEF CreditedOnce
        <2>1. CASE HasRow(p)
            BY <2>1 DEF BooksInv, RowsMatchLedger, HasRow
        <2>2. CASE ~HasRow(p)
            <3>1. ASSUME NEW x \in Workers, Credit(x)
                  PROVE  ledger'[p] <= 1
                <4>1. handler[x].pay \in Payments /\ ledger[handler[x].pay] = 0
                    BY <3>1, NotIdle DEF Credit, BooksInv, TypeInv, CountedInv, TypeOK, Busy, Idle
                <4> QED BY <3>1, <4>1 DEF Credit, AddCredits, CreditedOnce, BooksInv, TypeInv, TypeOK
            <3>2. ASSUME NEW x \in Workers, Settle(x)
                  PROVE  ledger'[p] <= 1
                <4>1. /\ handler[x].pay \in Payments /\ HasRow(handler[x].pay)
                      /\ SettleRow(handler[x].pay)
                    BY <3>2, NotIdle DEF Settle, BooksInv, TypeInv, TypeOK, Busy, Idle
                <4> QED BY <2>2, <4>1, SettleRowSettles DEF CreditedOnce, BooksInv, TypeInv
            <3>3. CASE Reconcile
                <4>1. job.pay \in Payments /\ HasRow(job.pay) /\ SettleRow(job.pay)
                    BY <3>3, JobFacts DEF Reconcile, BooksInv, TypeInv, JobInv
                <4> QED BY <2>2, <4>1, SettleRowSettles DEF CreditedOnce, BooksInv, TypeInv
            <3>4. CASE UNCHANGED ledger
                BY <3>4 DEF CreditedOnce
            <3> QED BY <3>1, <3>2, <3>3, <3>4
                    DEF Next, vars, Start, Open, Pay, Refuse, Ignore, Expire, Deliver, Confirm,
                        Count, Finish, GiveUp, ListPending, AskAccepted, AskOther, ReconcileFails, JobStops
        <2> QED BY <2>1, <2>2
    <1> QED BY <1>1, <1>2, <1>3, BooksInit, BooksNext, PTL DEF Spec

=============================================================================
