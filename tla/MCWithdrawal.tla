---------------------------- MODULE MCWithdrawal ----------------------------
(***************************************************************************)
(* Two artists with 6 credits each and three requests of 3 or 4, so that   *)
(* a balance covers one or two of them; two administrators.                *)
(***************************************************************************)
EXTENDS Withdrawal, TLC

CONSTANTS artist1, artist2, w1, w2, w3, admin1, admin2

MCOpening == [u \in {artist1, artist2} |-> 6]

\* Each administrator has requests of his own ...
MCSplitDesks == admin1 :> {w1, w2} @@ admin2 :> {w3}
\* ... or both look at the same queue (GET /withdrawals lists all of them).
MCOneQueue == [a \in {admin1, admin2} |-> {w1, w2, w3}]
=============================================================================
