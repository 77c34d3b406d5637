----------------------------- MODULE Withdrawal -----------------------------
(***************************************************************************)
(* Withdrawal requests: the user's request reserves the amount (stored     *)
(* procedure reserve_withdrawal), an administrator approves, completes or  *)
(* rejects it. Rejecting is one transaction on the locked row; approving   *)
(* and completing read the row, decide, and save the new status with an    *)
(* UPDATE that looks at the id only, so they take two steps here: whatever *)
(* the other administrators do may fall between them.                      *)
(*                                                                         *)
(* The PIN that gates a request and the choice of the payout method happen *)
(* before the reservation and touch none of this state.                    *)
(***************************************************************************)
EXTENDS Integers, FiniteSets, FiniteSetsExt

CONSTANTS
    Users,
    Requests,    \* ids of withdrawal_requests rows
    Admins,      \* the administrators' sessions, one handler at a time each
    Handles,     \* [Admins -> the requests the session ever works on]
    Amounts,     \* the amounts users ask for
    Minimum,     \* economic_config.withdrawal: the least amount of a request
    Opening      \* [Users -> wallet balance at the start]

ASSUME WithdrawalAssumption ==
    /\ IsFiniteSet(Requests)
    /\ Amounts \subseteq Nat
    /\ Minimum \in Nat
    /\ Opening \in [Users -> Nat]
    /\ Handles \in [Admins -> SUBSET Requests]

VARIABLES
    balance,   \* user_wallets.balance
    request,   \* the withdrawal_requests rows
    desk       \* what each administrator's handler has read and not saved yet

vars == <<balance, request, desk>>

NoRow == [status |-> "none"]
Row   == [status: {"pending", "approved", "completed", "rejected"},
          of: Users, amount: Amounts]
Idle  == [op |-> "idle"]
Work  == [op: {"approve", "complete"}, id: Requests]

Init ==
    /\ balance = Opening
    /\ request = [w \in Requests |-> NoRow]
    /\ desk = [a \in Admins |-> Idle]

-----------------------------------------------------------------------------
\* mutant: the conditional debit loses its condition.
CoversAlways(u, n) == TRUE
\* WHERE user_id = p_user_id AND balance >= p_amount.
Covers(u, n) == balance[u] >= n

\* mutant: every status can be reverted.
RevertibleAlways(w) == request[w] # NoRow
\* revert_withdrawal does nothing to a request that is settled.
Revertible(w) == request[w].status \in {"pending", "approved"}

\* mutant: completing does not look at the status.
ReadyForAnything(op, w) ==
    request[w].status \in (IF op = "approve" THEN {"pending"}
                           ELSE {"pending", "approved", "rejected"})
\* The statuses from which approve and complete proceed.
ReadyFor(op, w) ==
    request[w].status \in (IF op = "approve" THEN {"pending"}
                           ELSE {"pending", "approved"})

-----------------------------------------------------------------------------
\* requestWithdrawal: reserve_withdrawal debits the wallet and inserts the row,
\* approved at once under auto_process.
Request(w, u, n, auto) ==
    /\ request[w] = NoRow
    /\ n > 0 /\ n >= Minimum
    /\ Covers(u, n)
    /\ balance' = [balance EXCEPT ![u] = @ - n]
    /\ request' = [request EXCEPT ![w] =
                     [status |-> IF auto THEN "approved" ELSE "pending",
                      of |-> u, amount |-> n]]
    /\ UNCHANGED desk

\* approve and complete: findByPk and the check of the status.
Read(a, op, w) ==
    /\ desk[a] = Idle
    /\ w \in Handles[a]
    /\ ReadyFor(op, w)
    /\ desk' = [desk EXCEPT ![a] = [op |-> op, id |-> w]]
    /\ UNCHANGED <<balance, request>>

\* approve and complete: req.save(), UPDATE ... SET status WHERE id.
Save(a) ==
    /\ desk[a] # Idle
    /\ request' = [request EXCEPT ![desk[a].id].status =
                     IF desk[a].op = "approve" THEN "approved" ELSE "completed"]
    /\ desk' = [desk EXCEPT ![a] = Idle]
    /\ UNCHANGED balance

\* The process stops, or the connection is lost, before the save.
Abandon(a) ==
    /\ desk[a] # Idle
    /\ desk' = [desk EXCEPT ![a] = Idle]
    /\ UNCHANGED <<balance, request>>

\* reject: revert_withdrawal gives the amount back to its owner.
Reject(a, w) ==
    /\ desk[a] = Idle
    /\ w \in Handles[a]
    /\ Revertible(w)
    /\ balance' = [balance EXCEPT ![request[w].of] = @ + request[w].amount]
    /\ request' = [request EXCEPT ![w].status = "rejected"]
    /\ UNCHANGED desk

Next ==
    \/ \E w \in Requests, u \in Users, n \in Amounts, auto \in BOOLEAN :
           Request(w, u, n, auto)
    \/ \E a \in Admins :
           \/ \E op \in {"approve", "complete"}, w \in Requests : Read(a, op, w)
           \/ Save(a)
           \/ Abandon(a)
           \/ \E w \in Requests : Reject(a, w)

Spec == Init /\ [][Next]_vars

-----------------------------------------------------------------------------
(* Properties. They need what the code leaves to the administrators: no    *)
(* request is worked on in two sessions.                                   *)

OneDeskPerRequest ==
    \A a, b \in Admins : a # b => Handles[a] \cap Handles[b] = {}

\* Types; the reservation never overdraws a wallet.
TypeOK ==
    /\ balance \in [Users -> Nat]
    /\ request \in [Requests -> {NoRow} \cup Row]
    /\ desk \in [Admins -> {Idle} \cup Work]

\* A handler that has read a request still finds it as it read it when it
\* saves: approve and complete write without looking again.
SavesWhatItRead ==
    \A a \in Admins : desk[a] # Idle => ReadyFor(desk[a].op, desk[a].id)

\* Credits taken from the wallet that have not come back: reserved or paid out.
Withdrawn(u) ==
    {w \in Requests : /\ request[w].status \in {"pending", "approved", "completed"}
                      /\ request[w].of = u}

\* A request is paid out or given back, never both and never twice: a wallet
\* and the requests that are reserved or completed make up what it held.
Conserved ==
    \A u \in Users :
        balance[u] + MapThenSumSet(LAMBDA w : request[w].amount, Withdrawn(u))
            = Opening[u]

\* The requests as module Payout sees them: approval is no settlement.
Outcome(status) ==
    IF status = "completed" THEN "paid"
    ELSE IF status = "rejected" THEN "refunded" ELSE "held"
ClaimOf(w) ==
    IF request[w] = NoRow THEN [state |-> "none"]
    ELSE [state |-> Outcome(request[w].status),
          of |-> request[w].of, amount |-> request[w].amount]

Promise == INSTANCE Payout WITH funds <- balance,
                                claim <- [w \in Requests |-> ClaimOf(w)]

\* Reserve, approve, complete and reject implement "held, then paid or
\* refunded once" of module Payout.
ImplementsPayout == Promise!Spec
=============================================================================
