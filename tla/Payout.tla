------------------------------- MODULE Payout -------------------------------
(***************************************************************************)
(* What withdrawing credits promises, without the procedures, the handlers *)
(* and the two approval states: the amount of a request leaves the wallet  *)
(* when it is asked for and is then either paid out by the provider or     *)
(* given back, once.                                                       *)
(***************************************************************************)
EXTENDS Integers

CONSTANTS Users, Requests, Amounts, Opening

VARIABLES
    funds,   \* [Users -> credits that can be spent]
    claim    \* [Requests -> what became of the request]

Nothing == [state |-> "none"]
Claim   == [state: {"held", "paid", "refunded"}, of: Users, amount: Amounts]

Init ==
    /\ funds = Opening
    /\ claim = [w \in Requests |-> Nothing]

\* The user asks for n credits: they are set aside.
Hold(w, u, n) ==
    /\ claim[w] = Nothing
    /\ funds[u] >= n
    /\ funds' = [funds EXCEPT ![u] = @ - n]
    /\ claim' = [claim EXCEPT ![w] = [state |-> "held", of |-> u, amount |-> n]]

\* The provider has paid what was set aside.
Pay(w) ==
    /\ claim[w].state = "held"
    /\ claim' = [claim EXCEPT ![w].state = "paid"]
    /\ UNCHANGED funds

\* What was set aside goes back.
Refund(w) ==
    /\ claim[w].state = "held"
    /\ claim' = [claim EXCEPT ![w].state = "refunded"]
    /\ funds' = [funds EXCEPT ![claim[w].of] = @ + claim[w].amount]

Next ==
    \E w \in Requests :
        \/ \E u \in Users, n \in Amounts : Hold(w, u, n)
        \/ Pay(w)
        \/ Refund(w)

Spec == Init /\ [][Next]_<<funds, claim>>
=============================================================================
