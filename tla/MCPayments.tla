----------------------------- MODULE MCPayments -----------------------------
(***************************************************************************)
(* One purchase with each provider, two requests at a time, each of which  *)
(* can come three times or be lost.                                        *)
(***************************************************************************)
EXTENDS Payments, TLC

CONSTANTS fan, other, cp, st, ap, x1, x2

MCProvider == cp :> "cinetpay" @@ st :> "stripe" @@ ap :> "apple"
MCBuyer    == cp :> fan @@ st :> fan @@ ap :> other
MCCredits  == cp :> 2 @@ st :> 5 @@ ap :> 7

\* Webhooks of CinetPay and Moneroo reach both workers; a Stripe event and an
\* Apple transaction are in one handler at a time ...
MCOneAtATime == x1 :> {cp, st} @@ x2 :> {cp, ap}
\* ... or Stripe sends the event again before the first delivery has ended.
MCTwice == x1 :> {st} @@ x2 :> {st}
=============================================================================
