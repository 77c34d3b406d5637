------------------------------ MODULE Payments ------------------------------
(***************************************************************************)
(* Recharging credits through the four payment providers.                  *)
(*                                                                         *)
(* CinetPay and Moneroo: a transaction row with the quoted credits, then a *)
(* hosted checkout; each webhook claims the payment in webhook_events,     *)
(* asks the provider for the real status and calls a procedure that locks  *)
(* the row. For CinetPay a job asks again for every pending row. Stripe:   *)
(* no row; the signed event is claimed and settled by reference. Apple: no *)
(* checkout; the app sends the paid transaction to verify.                 *)
(*                                                                         *)
(* Every await of a handler is a point where the other handlers, the job   *)
(* or a crash can come in between: one step from each to the next.         *)
(***************************************************************************)
EXTENDS Integers, FiniteSets

CONSTANTS
    Users,
    Payments,       \* purchases; the event or transaction id of each is unique
    Provider,       \* [Payments -> {"cinetpay", "moneroo", "stripe", "apple"}]
    Buyer,          \* [Payments -> Users]
    Credits,        \* [Payments -> credits quoted at the start]
    Workers,        \* requests being handled at a time: webhooks and app calls
    Serves,         \* [Workers -> the payments the worker ever gets]
    MaxDeliveries   \* bound: how often a webhook or an app call comes for one payment

ASSUME PaymentsAssumption ==
    /\ Provider \in [Payments -> {"cinetpay", "moneroo", "stripe", "apple"}]
    /\ Buyer \in [Payments -> Users]
    /\ Credits \in [Payments -> Nat \ {0}]
    /\ Serves \in [Workers -> SUBSET Payments]
    /\ MaxDeliveries \in Nat

VARIABLES
    checkout,   \* the provider's side: none, open, accepted, refused, revoked
    row,        \* cinetpay_transactions / moneroo_transactions.status
    claim,      \* webhook_events.status of the payment's event
    ledger,     \* how many credit_purchases rows have the payment's reference
    wallet,     \* what the settlements have added to user_wallets.balance
    handler,    \* the requests in flight
    job,        \* the retry-webhooks job: payments listed and not yet asked about
    arrived,    \* how often a webhook or app call has come
    late        \* the CinetPay rows older than the 24 hours the job looks back

vars == <<checkout, row, claim, ledger, wallet, handler, job, arrived, late>>

Idle == [at |-> "idle"]
Stages == {"claimed", "confirmed", "counted", "settled"}

HasRowAlways(p) == TRUE     \* mutant: Stripe and Apple purchases get a row too
\* The providers with a transaction row of their own.
HasRow(p) == Provider[p] \in {"cinetpay", "moneroo"}

Init ==
    /\ checkout = [p \in Payments |-> "none"]
    /\ row = [p \in Payments |-> "none"]
    /\ claim = [p \in Payments |-> "none"]
    /\ ledger = [p \in Payments |-> 0]
    /\ wallet = [u \in Users |-> 0]
    /\ handler = [x \in Workers |-> Idle]
    /\ job = [todo |-> {}, at |-> "idle"]
    /\ arrived = [p \in Payments |-> 0]
    /\ late = {}

-----------------------------------------------------------------------------
(* Checkout and the provider's side.                                       *)

\* initCinetpay, initMoneroo: the transaction row, before the provider is asked.
Start(p) ==
    /\ HasRow(p)
    /\ row[p] = "none"
    /\ row' = [row EXCEPT ![p] = "pending"]
    /\ UNCHANGED <<checkout, claim, ledger, wallet, handler, job, arrived, late>>

\* The provider opens the hosted checkout (initPayment, createCreditsCheckout)
\* and its id is saved, after which the buyer gets the URL.
Open(p) ==
    /\ Provider[p] # "apple"
    /\ HasRow(p) => row[p] = "pending"
    /\ checkout[p] = "none"
    /\ checkout' = [checkout EXCEPT ![p] = "open"]
    /\ UNCHANGED <<row, claim, ledger, wallet, handler, job, arrived, late>>

\* The buyer pays; StoreKit takes the money before the backend hears of it.
Pay(p) ==
    /\ checkout[p] = (IF Provider[p] = "apple" THEN "none" ELSE "open")
    /\ checkout' = [checkout EXCEPT ![p] = "accepted"]
    /\ UNCHANGED <<row, claim, ledger, wallet, handler, job, arrived, late>>

\* The payment is refused, or an Apple purchase is refunded by the store.
Refuse(p) ==
    /\ \/ checkout[p] = "open"
       \/ checkout[p] = "accepted" /\ Provider[p] = "apple"
    /\ checkout' = [checkout EXCEPT ![p] =
                      IF @ = "open" THEN "refused" ELSE "revoked"]
    /\ UNCHANGED <<row, claim, ledger, wallet, handler, job, arrived, late>>

-----------------------------------------------------------------------------
(* The steps of a request.                                                 *)

\* What the provider may tell the backend about: CinetPay and Moneroo notify
\* any status, Stripe the completed session, the app a purchase it made.
Notifies(p) ==
    IF HasRow(p) THEN checkout[p] # "none" ELSE checkout[p] \in {"accepted", "revoked"}

\* The webhook, first, repeated or late: claimWebhookEvent lets everything in
\* that is not marked processed. verifyAppleCredits claims nothing.
Deliver(x, p) ==
    /\ handler[x] = Idle /\ p \in Serves[x]
    /\ Notifies(p)
    /\ arrived[p] < MaxDeliveries
    /\ claim[p] # "processed"
    /\ arrived' = [arrived EXCEPT ![p] = @ + 1]
    /\ claim' = IF Provider[p] = "apple" THEN claim
                ELSE [claim EXCEPT ![p] = "processing"]
    /\ handler' = [handler EXCEPT ![x] = [at |-> "claimed", pay |-> p]]
    /\ UNCHANGED <<checkout, row, ledger, wallet, job, late>>

\* A webhook that is lost or answered without effect: the event was processed,
\* or claimWebhookEvent met an error, which counts as somebody else's claim.
Ignore(p) ==
    /\ Notifies(p)
    /\ arrived[p] < MaxDeliveries
    /\ arrived' = [arrived EXCEPT ![p] = @ + 1]
    /\ UNCHANGED <<checkout, row, claim, ledger, wallet, handler, job, late>>

\* mutant: the body of the webhook is believed.
ConfirmedByBody(p) == TRUE
\* checkPayment, verifyPayment, fetchVerifiedTransaction: the provider is asked.
Confirmed(p) == checkout[p] = "accepted"

\* The provider's answer to the server-to-server check. A Stripe event is
\* signed and needs none.
Confirm(x) ==
    /\ handler[x].at = "claimed"
    /\ Provider[handler[x].pay] # "stripe"
    /\ Confirmed(handler[x].pay)
    /\ handler' = [handler EXCEPT ![x].at = "confirmed"]
    /\ UNCHANGED <<checkout, row, claim, ledger, wallet, job, arrived, late>>

\* The upsert of the wallet and the credit_purchases row.
AddCredits(p) ==
    /\ wallet' = [wallet EXCEPT ![Buyer[p]] = @ + Credits[p]]
    /\ ledger' = [ledger EXCEPT ![p] = @ + 1]

\* cinetpay_credit_wallet, moneroo_credit_wallet: the row is locked first; one
\* that is a success already is left alone.
SettleRow(p) ==
    \/ /\ row[p] = "success"
       /\ UNCHANGED <<row, wallet, ledger>>
    \/ /\ row[p] = "pending"
       /\ AddCredits(p)
       /\ row' = [row EXCEPT ![p] = "success"]

\* A CinetPay or Moneroo handler calls its procedure.
Settle(x) ==
    /\ handler[x].at = "confirmed"
    /\ HasRow(handler[x].pay)
    /\ SettleRow(handler[x].pay)
    /\ handler' = [handler EXCEPT ![x].at = "settled"]
    /\ UNCHANGED <<checkout, claim, job, arrived, late>>

\* credit_wallet_stripe, credit_wallet_apple: COUNT(*) of the reference, on a
\* snapshot. One that is there already ends the procedure.
Count(x) ==
    LET p == handler[x].pay
    IN  /\ handler[x] # Idle
        /\ ~HasRow(p)
        /\ handler[x].at = (IF Provider[p] = "stripe" THEN "claimed" ELSE "confirmed")
        /\ handler' = [handler EXCEPT ![x].at =
                         IF ledger[p] > 0 THEN "settled" ELSE "counted"]
        /\ UNCHANGED <<checkout, row, claim, ledger, wallet, job, arrived, late>>

\* credit_wallet_stripe, credit_wallet_apple: the writes.
Credit(x) ==
    /\ handler[x].at = "counted"
    /\ AddCredits(handler[x].pay)
    /\ handler' = [handler EXCEPT ![x].at = "settled"]
    /\ UNCHANGED <<checkout, row, claim, job, arrived, late>>

\* mutant: the event is marked when the provider has confirmed it.
MarkableEarly(x) == handler[x].at \in {"confirmed", "settled"}
\* The settlement has returned.
Markable(x) == handler[x].at = "settled"

\* markWebhookProcessed, and the answer; Apple purchases are in no ledger.
Finish(x) ==
    /\ Markable(x)
    /\ claim' = IF Provider[handler[x].pay] = "apple" THEN claim
                ELSE [claim EXCEPT ![handler[x].pay] = "processed"]
    /\ handler' = [handler EXCEPT ![x] = Idle]
    /\ UNCHANGED <<checkout, row, ledger, wallet, job, arrived, late>>

\* The provider does not confirm, a call fails, or the process stops.
GiveUp(x) ==
    /\ handler[x] # Idle
    /\ handler' = [handler EXCEPT ![x] = Idle]
    /\ UNCHANGED <<checkout, row, claim, ledger, wallet, job, arrived, late>>

-----------------------------------------------------------------------------
(* The job retryWebhooks, one run at a time, and its 24 hours.             *)

\* mutant: only rows whose event was never claimed are asked about again.
RetriesUnclaimed(p) == row[p] = "pending" /\ claim[p] = "none"
\* WHERE kind = 'payin' AND status = 'pending'.
Retries(p) == row[p] = "pending"

\* findAll of the pending CinetPay rows of the last day. The limit of 100 rows
\* and the first two minutes of a row are not modelled.
ListPending ==
    /\ job.at = "idle" /\ job.todo = {}
    /\ job' = [job EXCEPT !.todo =
                 {p \in Payments : /\ Provider[p] = "cinetpay"
                                   /\ Retries(p)
                                   /\ p \notin late}]
    /\ job'.todo # {}
    /\ UNCHANGED <<checkout, row, claim, ledger, wallet, handler, arrived, late>>

\* checkPayment of the next row: accepted.
AskAccepted(p) ==
    /\ job.at = "idle" /\ p \in job.todo
    /\ Confirmed(p)
    /\ job' = [todo |-> job.todo \ {p}, at |-> "told", pay |-> p]
    /\ UNCHANGED <<checkout, row, claim, ledger, wallet, handler, arrived, late>>

\* checkPayment of the next row: any other status, or an error.
AskOther(p) ==
    /\ job.at = "idle" /\ p \in job.todo
    /\ job' = [job EXCEPT !.todo = @ \ {p}]
    /\ UNCHANGED <<checkout, row, claim, ledger, wallet, handler, arrived, late>>

\* cinetpay_credit_wallet, as the webhook calls it.
Reconcile ==
    /\ job.at = "told"
    /\ SettleRow(job.pay)
    /\ job' = [todo |-> job.todo, at |-> "idle"]
    /\ UNCHANGED <<checkout, claim, handler, arrived, late>>

\* The procedure fails: the job goes on with the next row.
ReconcileFails ==
    /\ job.at = "told"
    /\ job' = [todo |-> job.todo, at |-> "idle"]
    /\ UNCHANGED <<checkout, row, claim, ledger, wallet, handler, arrived, late>>

\* The process stops in the middle of the job.
JobStops ==
    /\ job # [todo |-> {}, at |-> "idle"]
    /\ job' = [todo |-> {}, at |-> "idle"]
    /\ UNCHANGED <<checkout, row, claim, ledger, wallet, handler, arrived, late>>

\* The row gets older than a day.
Expire(p) ==
    /\ Provider[p] = "cinetpay"
    /\ row[p] # "none" /\ p \notin late
    /\ late' = late \cup {p}
    /\ UNCHANGED <<checkout, row, claim, ledger, wallet, handler, job, arrived>>

-----------------------------------------------------------------------------
Next ==
    \/ \E p \in Payments :
           Start(p) \/ Open(p) \/ Pay(p) \/ Refuse(p) \/ Ignore(p) \/ Expire(p)
    \/ \E x \in Workers :
           \/ \E p \in Payments : Deliver(x, p)
           \/ Confirm(x) \/ Settle(x) \/ Count(x) \/ Credit(x)
           \/ Finish(x) \/ GiveUp(x)
    \/ ListPending \/ Reconcile \/ ReconcileFails \/ JobStops
    \/ \E p \in Payments : AskAccepted(p) \/ AskOther(p)

Spec == Init /\ [][Next]_vars

\* The job runs every three minutes; a question may fail or come too early for
\* any one run, and a run may be cut short, but not for ever.
Fairness ==
    /\ WF_vars(ListPending)
    /\ \A p \in Payments : WF_vars(AskOther(p)) /\ SF_vars(AskAccepted(p))
    /\ SF_vars(Reconcile)

FairSpec == Spec /\ Fairness

-----------------------------------------------------------------------------
(* Properties.                                                             *)

\* Types; Stripe and Apple purchases have no transaction row.
TypeOK ==
    /\ checkout \in [Payments -> {"none", "open", "accepted", "refused", "revoked"}]
    /\ row \in [Payments -> {"none", "pending", "success"}]
    /\ claim \in [Payments -> {"none", "processing", "processed"}]
    /\ ledger \in [Payments -> Nat]
    /\ wallet \in [Users -> Nat]
    /\ handler \in [Workers -> {Idle} \cup [at: Stages, pay: Payments]]
    /\ job \in [todo: SUBSET Payments, at: {"idle"}]
               \cup [todo: SUBSET Payments, at: {"told"}, pay: Payments]
    /\ arrived \in [Payments -> 0..MaxDeliveries]
    /\ late \subseteq Payments
    /\ \A p \in Payments : Provider[p] \in {"stripe", "apple"} => row[p] = "none"

\* An event marked processed was settled: from then on its deliveries are
\* answered without a look, so nothing else will credit the buyer.
ProcessedMeansCredited ==
    \A p \in Payments : claim[p] = "processed" => ledger[p] > 0

\* No purchase is credited twice, however often and however late its webhook,
\* the job or the app come back to it.
CreditedOnce == \A p \in Payments : ledger[p] <= 1

\* What that needs for Stripe and Apple, whose procedures count on a snapshot:
\* a purchase is not in two handlers at a time.
OneWorkerPerReference ==
    \A x, y \in Workers :
        x # y => \A p \in Serves[x] \cap Serves[y] : HasRow(p)

\* The purchases as module Settlement sees them.
Promise == INSTANCE Settlement WITH
    paid <- {p \in Payments : checkout[p] \in {"accepted", "revoked"}},
    credited <- {p \in Payments : ledger[p] > 0}

\* Webhooks, job and procedures implement "paid, then credited once", with the
\* wallet of the buyer: never before the payment, never more than the quote.
ImplementsSettlement == Promise!Spec

\* A CinetPay payment whose webhook is lost, ignored or dies in its handler is
\* credited by the job while it is less than a day old.
LostWebhookIsRecovered ==
    \A p \in Payments :
        (Provider[p] = "cinetpay" /\ checkout[p] = "accepted" /\ row[p] = "pending")
            ~> (row[p] = "success" \/ p \in late)
=============================================================================
