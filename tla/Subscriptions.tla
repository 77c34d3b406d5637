---------------------------- MODULE Subscriptions ----------------------------
(***************************************************************************)
(* The subscriptions of one user. Stripe tells of each by events, numbered *)
(* here per subscription: the checkout, which makes a row of               *)
(* fan_subscriptions, then updates and the end, which set is_active on the *)
(* rows of its id. Events come in any order, and again until they are      *)
(* marked processed in webhook_events; handlers break off anywhere. The    *)
(* user may also activate a tier without Stripe, and cancel.               *)
(***************************************************************************)
EXTENDS Integers, Sequences, FiniteSets, Null

CONSTANTS
    Subscriptions,  \* Stripe subscriptions
    Webhooks,       \* deliveries being handled
    MaxEvents       \* of one subscription

ASSUME SubscriptionAssumption == MaxEvents \in Nat

VARIABLES
    suSaid,         \* the events of each subscription: is it active by then
    suProcessed,    \* events marked in webhook_events
    suHandler,      \* what each delivery holds
    suRows,         \* rows of each subscription, up to 2
    suActive,       \* those with is_active
    suFree,         \* is there an active row without a Stripe id
    suRead,         \* the row activate read, and has still to save
    \* history:
    suApplied,      \* events whose effect was committed
    suDisordered    \* subscriptions with an event applied after a later one, or with
                    \* a checkout taken up while or after its row was made

subscriptionVars == <<suSaid, suProcessed, suHandler, suRows, suActive, suFree, suRead,
                      suApplied, suDisordered>>

Events == Subscriptions \X (1..MaxEvents)
NoEvent == [at |-> "idle", event |-> NULL]

SubscriptionTypeOK ==
    /\ suSaid \in [Subscriptions -> Seq(BOOLEAN)]
    /\ \A s \in Subscriptions : Len(suSaid[s]) =< MaxEvents
    /\ suProcessed \subseteq Events /\ suApplied \subseteq Events
    /\ suHandler \in [Webhooks -> {NoEvent} \cup [at : {"claimed", "applied"}, event : Events]]
    /\ suRows \in [Subscriptions -> 0..2] /\ suActive \in [Subscriptions -> 0..2]
    /\ suFree \in BOOLEAN
    /\ suRead \in Subscriptions \cup {NULL, "free", "none"}
    /\ suDisordered \subseteq Subscriptions

SubscriptionInit ==
    /\ suSaid = [s \in Subscriptions |-> <<>>]
    /\ suProcessed = {} /\ suApplied = {}
    /\ suHandler = [w \in Webhooks |-> NoEvent]
    /\ suRows = [s \in Subscriptions |-> 0] /\ suActive = [s \in Subscriptions |-> 0]
    /\ suFree = FALSE /\ suRead = NULL
    /\ suDisordered = {}

Sent(s) == {s} \X (1..Len(suSaid[s]))

\* mutant: a processed event is handled again
AnyEvent(e) == TRUE
\* claimWebhookEvent.
Fresh(e) == e \notin suProcessed

\* What findOne may return: an active row.
ActiveRows == {s \in Subscriptions : suActive[s] > 0} \cup IF suFree THEN {"free"} ELSE {}

StripeSays(s, active) ==
    /\ Len(suSaid[s]) < MaxEvents
    /\ suSaid' = [suSaid EXCEPT ![s] = Append(@, active)]

-----------------------------------------------------------------------------
\* The checkout of subscribe is completed.
CheckedOut(s) ==
    /\ suSaid[s] = <<>>
    /\ StripeSays(s, TRUE)
    /\ UNCHANGED <<suProcessed, suHandler, suRows, suActive, suFree, suRead,
                   suApplied, suDisordered>>

\* Stripe renews it, fails to, or ends it.
StripeChanges(s, active) ==
    /\ suSaid[s] # <<>>
    /\ StripeSays(s, active)
    /\ UNCHANGED <<suProcessed, suHandler, suRows, suActive, suFree, suRead,
                   suApplied, suDisordered>>

\* handleStripeEvent: an event that is not processed yet is let in, and taken over
\* from a handler that has it or broke off.
ClaimEvent(w, e) ==
    /\ suHandler[w] = NoEvent
    /\ e \in Sent(e[1]) /\ Fresh(e)
    /\ suHandler' = [suHandler EXCEPT ![w] = [at |-> "claimed", event |-> e]]
    /\ suDisordered' =
         IF /\ e[2] = 1 /\ e \notin suProcessed
            /\ e \in suApplied \/ \E x \in Webhooks : suHandler[x].event = e
         THEN suDisordered \cup {e[1]} ELSE suDisordered
    /\ UNCHANGED <<suSaid, suProcessed, suRows, suActive, suFree, suRead, suApplied>>

\* dispatchStripeEvent: the row is made, or the rows are updated, if any.
ApplyEvent(w) ==
    /\ suHandler[w].at = "claimed"
    /\ LET e == suHandler[w].event
           s == e[1]
       IN /\ IF e[2] = 1
               THEN /\ suRows[s] < 2
                    /\ suRows' = [suRows EXCEPT ![s] = @ + 1]
                    /\ suActive' = [suActive EXCEPT ![s] = @ + 1]
               ELSE /\ suActive' = [suActive EXCEPT ![s] =
                                      IF suSaid[s][e[2]] THEN suRows[s] ELSE 0]
                    /\ UNCHANGED suRows
          /\ suApplied' = suApplied \cup {e}
          /\ suDisordered' = IF \E n \in 1..MaxEvents : n > e[2] /\ <<s, n>> \in suApplied
                             THEN suDisordered \cup {s} ELSE suDisordered
    /\ suHandler' = [suHandler EXCEPT ![w] = [@ EXCEPT !.at = "applied"]]
    /\ UNCHANGED <<suSaid, suProcessed, suFree, suRead>>

\* markWebhookProcessed.
MarkEvent(w) ==
    /\ suHandler[w].at = "applied"
    /\ suProcessed' = suProcessed \cup {suHandler[w].event}
    /\ suHandler' = [suHandler EXCEPT ![w] = NoEvent]
    /\ UNCHANGED <<suSaid, suRows, suActive, suFree, suRead, suApplied, suDisordered>>

HandlerBreaksOff(w) ==
    /\ suHandler[w] # NoEvent
    /\ suHandler' = [suHandler EXCEPT ![w] = NoEvent]
    /\ UNCHANGED <<suSaid, suProcessed, suRows, suActive, suFree, suRead,
                   suApplied, suDisordered>>

\* activate: the active row is read ...
ActivateReads ==
    /\ suRead = NULL
    /\ suRead' \in IF ActiveRows = {} THEN {"none"} ELSE ActiveRows
    /\ UNCHANGED <<suSaid, suProcessed, suHandler, suRows, suActive, suFree,
                   suApplied, suDisordered>>

\* ... and its tier saved, is_active being what it was; or a row is made.
ActivateSaves ==
    /\ suRead # NULL
    /\ suFree' = (suFree \/ suRead = "none")
    /\ suRead' = NULL
    /\ UNCHANGED <<suSaid, suProcessed, suHandler, suRows, suActive, suApplied, suDisordered>>

\* cancel: a subscription of Stripe's goes on to the end of its period, a row of
\* our own is over at once.
CancelSubscription ==
    \E row \in ActiveRows :
      /\ IF row = "free" THEN suFree' = FALSE /\ UNCHANGED suSaid
                         ELSE StripeSays(row, TRUE) /\ UNCHANGED suFree
      /\ UNCHANGED <<suProcessed, suHandler, suRows, suActive, suRead,
                     suApplied, suDisordered>>

SubscriptionNext ==
    \/ \E s \in Subscriptions :
         CheckedOut(s) \/ \E active \in BOOLEAN : StripeChanges(s, active)
    \/ \E w \in Webhooks :
         \/ \E e \in Events : ClaimEvent(w, e)
         \/ ApplyEvent(w) \/ MarkEvent(w) \/ HandlerBreaksOff(w)
    \/ ActivateReads \/ ActivateSaves \/ CancelSubscription

SubscriptionSpec == SubscriptionInit /\ [][SubscriptionNext]_subscriptionVars

-----------------------------------------------------------------------------
(* Properties.                                                             *)

\* When every event of a subscription is processed, the user has one active row
\* for it if Stripe says it is active and none otherwise, however events were
\* repeated, unless one came after a later one, or a checkout was taken up again
\* before it was marked; and nothing the user does himself touches that.
ActiveMatchesStripe ==
    \A s \in Subscriptions \ suDisordered :
      suSaid[s] # <<>> /\ Sent(s) \subseteq suProcessed =>
        suActive[s] = IF suSaid[s][Len(suSaid[s])] THEN 1 ELSE 0
=============================================================================
