----------------------------- MODULE Settlement -----------------------------
(***************************************************************************)
(* What recharging credits promises, without webhooks, ledgers, retries    *)
(* and providers: a purchase is paid, and then the buyer's wallet receives *)
(* its credits, once.                                                      *)
(***************************************************************************)
EXTENDS Integers

CONSTANTS Users, Payments, Buyer, Credits

VARIABLES
    wallet,     \* [Users -> credits received from purchases]
    paid,       \* the purchases the provider was paid for
    credited    \* the purchases whose credits the buyer has

Init ==
    /\ wallet = [u \in Users |-> 0]
    /\ paid = {}
    /\ credited = {}

\* The provider takes the money.
Pay(p) ==
    /\ p \notin paid
    /\ paid' = paid \cup {p}
    /\ UNCHANGED <<wallet, credited>>

\* The buyer gets his credits.
Credit(p) ==
    /\ p \in paid \ credited
    /\ wallet' = [wallet EXCEPT ![Buyer[p]] = @ + Credits[p]]
    /\ credited' = credited \cup {p}
    /\ UNCHANGED paid

Next == \E p \in Payments : Pay(p) \/ Credit(p)

Spec == Init /\ [][Next]_<<wallet, paid, credited>>
=============================================================================
