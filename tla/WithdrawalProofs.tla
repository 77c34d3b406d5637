-------------------------- MODULE WithdrawalProofs --------------------------
(***************************************************************************)
(* The withdrawal handlers implement "held, then paid or refunded once", if *)
(* no request is in the hands of two administrators: for every number of   *)
(* users, requests and administrators.                                     *)
(***************************************************************************)
EXTENDS Withdrawal, Sums, TLAPS

USE WithdrawalAssumption DEF WithdrawalAssumption

\* What has no row has the status of none.
LEMMA NoRowIsNoRow ==
    ASSUME NEW r \in {NoRow} \cup Row
    PROVE  /\ r = NoRow <=> r.status = "none"
           /\ r # NoRow => r \in Row
    BY DEF NoRow, Row

\* A request that is read, approved, completed or rejected has a row.
LEMMA NewStatus ==
    ASSUME NEW r \in Row, NEW s \in {"pending", "approved", "completed", "rejected"}
    PROVE  LET new == [r EXCEPT !.status = s]
           IN  new \in Row /\ new.status = s /\ new.of = r.of /\ new.amount = r.amount
    BY DEF Row

-----------------------------------------------------------------------------
(* Types. A row is never deleted, so that a handler saves onto a row; this *)
(* part needs no assumption on who works on what.                          *)

DeskHasRow == \A a \in Admins : desk[a] # Idle => /\ desk[a].id \in Handles[a]
                                                  /\ request[desk[a].id] \in Row

TypeInv == TypeOK /\ DeskHasRow

\* The initial states satisfy TypeInv.
LEMMA TypeInit == Init => TypeInv
    BY DEF Init, TypeInv, TypeOK, DeskHasRow

\* What is on a desk is a request with a row.
LEMMA DeskFacts ==
    ASSUME TypeInv, NEW a \in Admins, desk[a] # Idle
    PROVE  /\ desk[a].op \in {"approve", "complete"}
           /\ desk[a].id \in Requests
           /\ desk[a].id \in Handles[a]
           /\ request[desk[a].id] \in Row
    BY DEF TypeInv, TypeOK, DeskHasRow, Work

\* Every step keeps TypeInv.
LEMMA TypeNext == TypeInv /\ [Next]_vars => TypeInv'
    <1> SUFFICES ASSUME TypeInv, [Next]_vars PROVE TypeInv'
        OBVIOUS
    <1> USE DEF TypeInv
    <1>1. ASSUME NEW w \in Requests, NEW u \in Users, NEW n \in Amounts,
                 NEW auto \in BOOLEAN, Request(w, u, n, auto)
          PROVE  TypeInv'
        <2> DEFINE new == [status |-> IF auto THEN "approved" ELSE "pending",
                           of |-> u, amount |-> n]
        <2>1. new \in Row
            BY DEF Row
        <2>2. request' = [request EXCEPT ![w] = new]
            BY <1>1 DEF Request
        <2> HIDE DEF new
        <2>3. DeskHasRow'
            BY <1>1, <2>1, <2>2, DeskFacts DEF Request, DeskHasRow, TypeOK
        <2>4. balance' \in [Users -> Nat]
            BY <1>1 DEF Request, Covers, TypeOK
        <2> QED BY <1>1, <2>1, <2>2, <2>3, <2>4 DEF Request, TypeOK
    <1>2. ASSUME NEW a \in Admins, NEW op \in {"approve", "complete"},
                 NEW w \in Requests, Read(a, op, w)
          PROVE  TypeInv'
        <2>1. request[w] \in Row
            BY <1>2, NoRowIsNoRow DEF Read, ReadyFor, TypeOK
        <2>2. TypeOK'
            BY <1>2 DEF Read, TypeOK, Work
        <2>3. DeskHasRow'
            BY <1>2, <2>1 DEF Read, DeskHasRow, TypeOK
        <2> QED BY <2>2, <2>3
    <1>3. ASSUME NEW a \in Admins, Save(a)
          PROVE  TypeInv'
        <2> DEFINE w == desk[a].id
                   status == IF desk[a].op = "approve" THEN "approved" ELSE "completed"
                   new == [request[w] EXCEPT !.status = status]
        <2>1. w \in Requests /\ request[w] \in Row
            BY <1>3, DeskFacts DEF Save
        <2>2. new \in Row
            BY <2>1, NewStatus
        <2>3. request' = [request EXCEPT ![w] = new] /\ desk' = [desk EXCEPT ![a] = Idle]
            BY <1>3 DEF Save
        <2> HIDE DEF new
        <2>4. TypeOK'
            BY <1>3, <2>1, <2>2, <2>3 DEF Save, TypeOK
        <2>5. DeskHasRow'
            BY <2>1, <2>2, <2>3, DeskFacts DEF DeskHasRow, TypeOK
        <2> QED BY <2>4, <2>5
    <1>4. ASSUME NEW a \in Admins, Abandon(a)
          PROVE  TypeInv'
        BY <1>4 DEF Abandon, TypeOK, DeskHasRow
    <1>5. ASSUME NEW a \in Admins, NEW w \in Requests, Reject(a, w)
          PROVE  TypeInv'
        <2> DEFINE new == [request[w] EXCEPT !.status = "rejected"]
        <2>1. request[w] \in Row
            BY <1>5, NoRowIsNoRow DEF Reject, Revertible, TypeOK
        <2>2. new \in Row
            BY <2>1, NewStatus
        <2>3. request[w].of \in Users /\ request[w].amount \in Nat
            BY <2>1 DEF Row
        <2>4. request' = [request EXCEPT ![w] = new] /\ desk' = desk
            BY <1>5 DEF Reject
        <2>5. balance' \in [Users -> Nat]
            BY <1>5, <2>3 DEF Reject, TypeOK
        <2> HIDE DEF new
        <2>6. TypeOK'
            BY <2>2, <2>4, <2>5 DEF TypeOK
        <2>7. DeskHasRow'
            BY <2>2, <2>4, DeskFacts DEF DeskHasRow, TypeOK
        <2> QED BY <2>6, <2>7
    <1>6. CASE UNCHANGED vars
        BY <1>6 DEF vars, TypeOK, DeskHasRow
    <1> QED BY <1>1, <1>2, <1>3, <1>4, <1>5, <1>6 DEF Next

\* Whoever works on what: no wallet is overdrawn by a withdrawal and no row
\* gets out of its type.
THEOREM TypeCorrect == Spec => []TypeOK
    <1>1. TypeInv => TypeOK
        BY DEF TypeInv
    <1> QED BY <1>1, TypeInit, TypeNext, PTL DEF Spec

-----------------------------------------------------------------------------
(* What a handler saves is what it decided on: nobody else touches the row *)
(* between the two, if its request is on nobody else's desk.               *)

\* Every step keeps what is saved what was read.
LEMMA SavesNext ==
    ASSUME OneDeskPerRequest
    PROVE  TypeInv /\ SavesWhatItRead /\ [Next]_vars => SavesWhatItRead'
    <1> SUFFICES ASSUME TypeInv, SavesWhatItRead, [Next]_vars,
                        NEW b \in Admins, desk'[b] # Idle
                 PROVE  ReadyFor(desk[b].op, desk[b].id)'
        BY DEF SavesWhatItRead
    <1> USE DEF TypeInv
    <1>0. desk[b] # Idle => /\ ReadyFor(desk[b].op, desk[b].id)
                            /\ desk[b].id \in Requests
                            /\ desk[b].id \in Handles[b]
        BY DeskFacts DEF SavesWhatItRead
    <1>1. ASSUME NEW w \in Requests, NEW u \in Users, NEW n \in Amounts,
                 NEW auto \in BOOLEAN, Request(w, u, n, auto)
          PROVE  ReadyFor(desk[b].op, desk[b].id)'
        <2>1. desk' = desk /\ desk[b] # Idle
            BY <1>1 DEF Request
        <2>2. desk[b].id # w
            BY <1>0, <1>1, <2>1 DEF Request, ReadyFor, NoRow
        <2> QED BY <1>0, <1>1, <2>1, <2>2 DEF Request, ReadyFor, TypeOK
    <1>2. ASSUME NEW a \in Admins, NEW op \in {"approve", "complete"},
                 NEW w \in Requests, Read(a, op, w)
          PROVE  ReadyFor(desk[b].op, desk[b].id)'
        BY <1>0, <1>2 DEF Read, ReadyFor, TypeOK
    <1>3. ASSUME NEW a \in Admins, Save(a)
          PROVE  ReadyFor(desk[b].op, desk[b].id)'
        <2>1. a # b /\ desk'[b] = desk[b]
            BY <1>3 DEF Save, TypeOK
        <2>2. desk[a].id \in Handles[a] /\ desk[a].id \in Requests
            BY <1>3, DeskFacts DEF Save
        <2>3. desk[a].id # desk[b].id
            BY <1>0, <2>1, <2>2 DEF OneDeskPerRequest
        <2>4. request'[desk[b].id] = request[desk[b].id]
            BY <1>0, <1>3, <2>1, <2>2, <2>3 DEF Save, TypeOK
        <2> QED BY <1>0, <2>1, <2>4 DEF ReadyFor
    <1>4. ASSUME NEW a \in Admins, Abandon(a)
          PROVE  ReadyFor(desk[b].op, desk[b].id)'
        BY <1>0, <1>4 DEF Abandon, ReadyFor, TypeOK
    <1>5. ASSUME NEW a \in Admins, NEW w \in Requests, Reject(a, w)
          PROVE  ReadyFor(desk[b].op, desk[b].id)'
        <2>1. desk' = desk /\ desk[b] # Idle /\ a # b
            BY <1>5 DEF Reject
        <2>2. desk[b].id # w
            BY <1>0, <1>5, <2>1 DEF OneDeskPerRequest, Reject
        <2>3. request'[desk[b].id] = request[desk[b].id]
            BY <1>0, <1>5, <2>1, <2>2 DEF Reject, TypeOK
        <2> QED BY <1>0, <2>1, <2>3 DEF ReadyFor
    <1>6. CASE UNCHANGED vars
        BY <1>0, <1>6 DEF vars, ReadyFor
    <1> QED BY <1>1, <1>2, <1>3, <1>4, <1>5, <1>6 DEF Next

-----------------------------------------------------------------------------
(* The refinement. Reserving, completing and rejecting are the steps of    *)
(* module Payout; reading, approving and giving up are none.               *)

claims == [w \in Requests |-> ClaimOf(w)]

\* The initial states are those of Payout.
LEMMA ImplementationInit == Init => Promise!Init
    BY DEF Init, Promise!Init, Promise!Nothing, ClaimOf

\* A claim says what its row says.
LEMMA ClaimFacts ==
    ASSUME TypeOK, NEW w \in Requests
    PROVE  /\ request[w] = NoRow <=> claims[w] = Promise!Nothing
           /\ request[w] # NoRow => /\ claims[w].of = request[w].of
                                    /\ claims[w].amount = request[w].amount
                                    /\ claims[w].state = Outcome(request[w].status)
    BY DEF claims, ClaimOf, Promise!Nothing

\* A step is one of Payout or none.
LEMMA ImplementationNext ==
    TypeInv /\ SavesWhatItRead /\ [Next]_vars => [Promise!Next]_<<balance, claims>>
    <1> SUFFICES ASSUME TypeInv, SavesWhatItRead, Next
                 PROVE  Promise!Next \/ UNCHANGED <<balance, claims>>
        BY DEF vars, claims, ClaimOf
    <1> USE DEF TypeInv
    <1>1. ASSUME NEW w \in Requests, NEW u \in Users, NEW n \in Amounts,
                 NEW auto \in BOOLEAN, Request(w, u, n, auto)
          PROVE  Promise!Hold(w, u, n)
        <2>1. claims' = [claims EXCEPT ![w] = [state |-> "held", of |-> u, amount |-> n]]
            BY <1>1 DEF Request, claims, ClaimOf, Outcome, NoRow, TypeOK
        <2> QED BY <1>1, <2>1 DEF Request, Covers, Promise!Hold, Promise!Nothing, claims,
                                  ClaimOf
    <1>2. ASSUME NEW a \in Admins, NEW op \in {"approve", "complete"},
                 NEW w \in Requests, Read(a, op, w)
          PROVE  UNCHANGED <<balance, claims>>
        BY <1>2 DEF Read, claims, ClaimOf
    <1>3. ASSUME NEW a \in Admins, Save(a)
          PROVE  Promise!Next \/ UNCHANGED <<balance, claims>>
        <2> DEFINE w == desk[a].id
        <2>1. /\ w \in Requests /\ request[w] \in Row
              /\ ReadyFor(desk[a].op, w) /\ desk[a].op \in {"approve", "complete"}
            BY <1>3, DeskFacts DEF Save, SavesWhatItRead
        <2>2. CASE desk[a].op = "approve"
            <3> DEFINE new == [request[w] EXCEPT !.status = "approved"]
            <3>1. request' = [request EXCEPT ![w] = new] /\ balance' = balance
                BY <1>3, <2>2 DEF Save
            <3>2. /\ new.status = "approved" /\ new.of = request[w].of
                  /\ new.amount = request[w].amount /\ new # NoRow
                BY <2>1, NewStatus, NoRowIsNoRow
            <3>3. request[w].status = "pending"
                BY <2>1, <2>2 DEF ReadyFor
            <3> HIDE DEF new
            <3>4. claims' = claims
                BY <2>1, <3>1, <3>2, <3>3 DEF claims, ClaimOf, Outcome, TypeOK, NoRow
            <3> QED BY <3>1, <3>4
        <2>3. CASE desk[a].op = "complete"
            <3> DEFINE new == [request[w] EXCEPT !.status = "completed"]
            <3>1. request' = [request EXCEPT ![w] = new] /\ balance' = balance
                BY <1>3, <2>3 DEF Save
            <3>2. /\ new.status = "completed" /\ new.of = request[w].of
                  /\ new.amount = request[w].amount /\ new # NoRow
                BY <2>1, NewStatus, NoRowIsNoRow
            <3>3. request[w].status \in {"pending", "approved"}
                BY <2>1, <2>3 DEF ReadyFor
            <3> HIDE DEF new
            <3>4. claims[w].state = "held"
                BY <2>1, <3>3 DEF claims, ClaimOf, Outcome, NoRow
            <3>5. claims' = [claims EXCEPT ![w].state = "paid"]
                BY <2>1, <3>1, <3>2, <3>3 DEF claims, ClaimOf, Outcome, TypeOK, NoRow
            <3>6. Promise!Pay(w)
                BY <3>1, <3>4, <3>5 DEF Promise!Pay, claims
            <3> QED BY <2>1, <3>6 DEF Promise!Next
        <2> QED BY <2>1, <2>2, <2>3
    <1>4. ASSUME NEW a \in Admins, Abandon(a)
          PROVE  UNCHANGED <<balance, claims>>
        BY <1>4 DEF Abandon, claims, ClaimOf
    <1>5. ASSUME NEW a \in Admins, NEW w \in Requests, Reject(a, w)
          PROVE  Promise!Refund(w)
        <2> DEFINE new == [request[w] EXCEPT !.status = "rejected"]
        <2>1. request[w] \in Row
            BY <1>5, NoRowIsNoRow DEF Reject, Revertible, TypeOK
        <2>2. request' = [request EXCEPT ![w] = new]
            BY <1>5 DEF Reject
        <2>3. /\ new.status = "rejected" /\ new.of = request[w].of
              /\ new.amount = request[w].amount /\ new # NoRow
            BY <2>1, NewStatus, NoRowIsNoRow
        <2>4. request[w].status \in {"pending", "approved"} /\ request[w] # NoRow
            BY <1>5 DEF Reject, Revertible, NoRow
        <2> HIDE DEF new
        <2>5. /\ claims[w].state = "held" /\ claims[w].of = request[w].of
              /\ claims[w].amount = request[w].amount
            BY <2>4 DEF claims, ClaimOf, Outcome
        <2>6. claims' = [claims EXCEPT ![w].state = "refunded"]
            BY <2>2, <2>3, <2>4 DEF claims, ClaimOf, Outcome, TypeOK
        <2>7. balance' = [balance EXCEPT ![claims[w].of] = @ + claims[w].amount]
            BY <1>5, <2>5 DEF Reject
        <2> QED BY <2>5, <2>6, <2>7 DEF Promise!Refund, claims
    <1> QED BY <1>1, <1>2, <1>3, <1>4, <1>5 DEF Next, Promise!Next

\* Reserving, approving, completing and rejecting implement module Payout, if
\* no request is worked on in two sessions: what is reserved is paid out or
\* given back, once.
THEOREM Implementation ==
    ASSUME OneDeskPerRequest
    PROVE  Spec => ImplementsPayout
    <1>1. Init => SavesWhatItRead
        BY DEF Init, SavesWhatItRead
    <1>2. Init => Promise!Init
        BY ImplementationInit
    <1>3. TypeInv /\ SavesWhatItRead /\ [Next]_vars => SavesWhatItRead'
        BY SavesNext
    <1>4. TypeInv /\ SavesWhatItRead /\ [Next]_vars
            => [Promise!Next]_<<balance, [w \in Requests |-> ClaimOf(w)]>>
        BY ImplementationNext DEF claims
    <1> QED BY <1>1, <1>2, <1>3, <1>4, TypeInit, TypeNext, PTL
            DEF Spec, ImplementsPayout, Promise!Spec

-----------------------------------------------------------------------------
(* Conservation. What a wallet held at the start is there, reserved or paid *)
(* out: each step moves the amount of one request between the wallet and   *)
(* the requests that are not refunded, and a save moves nothing, as it     *)
(* saves what it read.                                                     *)

\* What each request is for, and which requests of a user are not refunded.
AmountOf == [w \in Requests |-> request[w].amount]
OutOf == [u \in Users |-> Withdrawn(u)]
\* Conserved, with the sum of a function.
Balanced == \A u \in Users : balance[u] + SumOn(AmountOf, OutOf[u]) = Opening[u]

\* What is asked for are numbers.
LEMMA RowsHaveAmounts ==
    \A r \in Row : r.amount \in Int
    <1> SUFFICES ASSUME NEW r \in Row PROVE r.amount \in Int
        OBVIOUS
    <1>1. r.amount \in Amounts
        BY DEF Row
    <1>2. Amounts \subseteq Int
        OBVIOUS
    <1> QED BY <1>1, <1>2

\* The sum of the property is that of a function.
LEMMA AmountsAdd ==
    ASSUME NEW S \in SUBSET Requests
    PROVE  MapThenSumSet(LAMBDA w : request[w].amount, S) = SumOn(AmountOf, S)
    <1> DEFINE Out(g) == g = [s \in SUBSET S |->
                                IF s = {} THEN 0
                                ELSE request[Pick(s)].amount + g[s \ {Pick(s)}]]
    <1>0. IsFiniteSet(S)
        BY FS_Subset
    <1>1. MapThenSumSet(LAMBDA w : request[w].amount, S) = (CHOOSE g : Out(g))[S]
        BY DEF MapThenSumSet, MapThenFoldSet, Pick
    <1>2. \A g : Out(g) <=> AddsUp(AmountOf, S, g)
        <2> SUFFICES ASSUME NEW g, NEW s \in SUBSET S
                     PROVE  (IF s = {} THEN 0
                             ELSE request[Pick(s)].amount + g[s \ {Pick(s)}])
                              = Adds(AmountOf, g, s)
            BY DEF AddsUp
        <2>1. s # {} => AmountOf[Pick(s)] = request[Pick(s)].amount
            BY Picked DEF AmountOf
        <2> QED BY <2>1 DEF Adds
    <1> HIDE DEF Out
    <1>3. PICK h : h = CHOOSE g : Out(g)
        OBVIOUS
    <1>4. AddsUp(AmountOf, S, h)
        BY <1>0, <1>2, <1>3, SumsExist
    <1> QED BY <1>0, <1>1, <1>3, <1>4, SumIs

\* So the two say the same.
LEMMA BalancedIsConserved == Balanced <=> Conserved
    <1>1. \A u \in Users : Withdrawn(u) \in SUBSET Requests /\ OutOf[u] = Withdrawn(u)
        BY DEF Withdrawn, OutOf
    <1>2. ASSUME NEW u \in Users
          PROVE  MapThenSumSet(LAMBDA w : request[w].amount, Withdrawn(u))
                    = SumOn(AmountOf, OutOf[u])
        BY <1>1, AmountsAdd
    <1> QED BY <1>2 DEF Balanced, Conserved

\* One summand is taken out of a sum.
LEMMA SumWithout ==
    ASSUME NEW S, IsFiniteSet(S), NEW f, \A x \in S : f[x] \in Int, NEW w \in S
    PROVE  SumOn(f, S) = f[w] + SumOn(f, S \ {w})
    <1>1. \A x \in S : SumOn(f, S) = f[x] + SumOn(f, S \ {x})
        BY SumSteps
    <1> QED BY <1>1

\* Before any request the wallets are full.
LEMMA BalancedInit == Init => Balanced
    <1> SUFFICES ASSUME Init, NEW u \in Users
                 PROVE  balance[u] + SumOn(AmountOf, OutOf[u]) = Opening[u]
        BY DEF Balanced
    <1>1. OutOf[u] = {}
        BY DEF Init, OutOf, Withdrawn, NoRow
    <1>2. SumOn(AmountOf, {}) = 0
        BY SumSteps, FS_EmptySet
    <1> QED BY <1>1, <1>2 DEF Init

\* There are finitely many requests, for numbers.
LEMMA OutFacts ==
    ASSUME TypeOK
    PROVE  \A u \in Users : /\ OutOf[u] \subseteq Requests
                            /\ IsFiniteSet(OutOf[u])
                            /\ \A w \in OutOf[u] : AmountOf[w] \in Int
                            /\ SumOn(AmountOf, OutOf[u]) \in Int
    <1> SUFFICES ASSUME NEW u \in Users
                 PROVE  /\ OutOf[u] \subseteq Requests
                        /\ IsFiniteSet(OutOf[u])
                        /\ \A w \in OutOf[u] : AmountOf[w] \in Int
                        /\ SumOn(AmountOf, OutOf[u]) \in Int
        OBVIOUS
    <1>1. OutOf[u] \subseteq Requests /\ IsFiniteSet(OutOf[u])
        BY FS_Subset DEF OutOf, Withdrawn
    <1>2. \A w \in OutOf[u] : w \in Requests /\ request[w] # NoRow
        BY DEF OutOf, Withdrawn, NoRow
    <1>3. \A w \in OutOf[u] : AmountOf[w] \in Int
        <2>1. \A w \in OutOf[u] : request[w] \in Row
            BY <1>2 DEF TypeOK
        <2>2. \A w \in OutOf[u] : request[w].amount \in Int
            BY <2>1, RowsHaveAmounts
        <2> QED BY <1>2, <2>2 DEF AmountOf
    <1> QED BY <1>1, <1>3, SumSteps

\* The same requests, with the same amounts, are worth the same.
LEMMA SameOut ==
    ASSUME TypeOK, NEW u \in Users, OutOf'[u] = OutOf[u],
           \A w \in OutOf[u] : AmountOf'[w] = AmountOf[w]
    PROVE  SumOn(AmountOf', OutOf'[u]) = SumOn(AmountOf, OutOf[u])
    BY OutFacts, SumSame

\* A request takes from a wallet what it is for, a refund gives it back, and nothing else
\* moves: one step per action.
LEMMA BalancedNext ==
    TypeInv /\ TypeInv' /\ SavesWhatItRead /\ Balanced /\ [Next]_vars => Balanced'
    <1> SUFFICES ASSUME TypeInv, TypeInv', SavesWhatItRead, Balanced, [Next]_vars,
                        NEW v \in Users
                 PROVE  balance'[v] + SumOn(AmountOf', OutOf'[v]) = Opening[v]
        BY DEF Balanced
    <1> USE DEF TypeInv
    <1>a. /\ balance[v] + SumOn(AmountOf, OutOf[v]) = Opening[v]
          /\ SumOn(AmountOf, OutOf[v]) \in Int /\ balance[v] \in Nat
          /\ IsFiniteSet(OutOf[v]) /\ \A w \in OutOf[v] : AmountOf[w] \in Int
        BY OutFacts DEF Balanced, TypeOK
    <1>b. IsFiniteSet(OutOf'[v])
        BY FS_Subset DEF OutOf, Withdrawn
    <1>c. \A w \in OutOf'[v] : AmountOf'[w] \in Int
        <2>1. \A w \in OutOf'[v] : w \in Requests /\ request'[w] # NoRow
            BY DEF OutOf, Withdrawn, NoRow
        <2>2. \A w \in OutOf'[v] : request'[w] \in Row
            BY <2>1 DEF TypeOK
        <2>3. \A w \in OutOf'[v] : request'[w].amount \in Int
            BY <2>2, RowsHaveAmounts
        <2> QED BY <2>1, <2>3 DEF AmountOf
    <1>0. /\ balance[v] + SumOn(AmountOf, OutOf[v]) = Opening[v]
          /\ SumOn(AmountOf, OutOf[v]) \in Int /\ balance[v] \in Nat
          /\ IsFiniteSet(OutOf[v]) /\ IsFiniteSet(OutOf'[v])
          /\ \A w \in OutOf'[v] : AmountOf'[w] \in Int
          /\ \A w \in OutOf[v] : AmountOf[w] \in Int
        BY <1>a, <1>b, <1>c
    <1>1. ASSUME NEW w \in Requests, NEW u \in Users, NEW n \in Amounts,
                 NEW auto \in BOOLEAN, Request(w, u, n, auto)
          PROVE  balance'[v] + SumOn(AmountOf', OutOf'[v]) = Opening[v]
        <2>1. /\ request'[w].status \in {"pending", "approved"}
              /\ request'[w].of = u /\ request'[w].amount = n
              /\ \A x \in Requests : x # w => request'[x] = request[x]
              /\ request[w].status = "none"
              /\ balance'[v] = balance[v] - (IF v = u THEN n ELSE 0)
            BY <1>1 DEF Request, TypeOK, NoRow
        <2>2. /\ w \notin OutOf[v]
              /\ \A x \in OutOf[v] : AmountOf'[x] = AmountOf[x]
              /\ AmountOf'[w] = n
            BY <2>1 DEF OutOf, Withdrawn, AmountOf
        <2>3. CASE v # u
            <3>1. OutOf'[v] = OutOf[v]
                BY <2>1, <2>3 DEF OutOf, Withdrawn
            <3> QED BY <1>0, <2>1, <2>2, <2>3, <3>1, SameOut
        <2>4. CASE v = u
            <3>1. OutOf'[v] = OutOf[v] \cup {w} /\ OutOf'[v] \ {w} = OutOf[v]
                BY <2>1, <2>2, <2>4 DEF OutOf, Withdrawn
            <3>2. SumOn(AmountOf', OutOf'[v]) = n + SumOn(AmountOf', OutOf[v])
                <4>1. PICK out, amount : out = OutOf'[v] /\ amount = AmountOf'
                    OBVIOUS
                <4>2. IsFiniteSet(out) /\ (\A x \in out : amount[x] \in Int) /\ w \in out
                    BY <1>0, <2>2, <3>1, <4>1
                <4>3. SumOn(amount, out) = amount[w] + SumOn(amount, out \ {w})
                    BY <4>2, SumWithout
                <4>4. amount[w] = n
                    BY <2>2, <4>1
                <4> QED BY <3>1, <4>1, <4>3, <4>4
            <3>3. SumOn(AmountOf', OutOf[v]) = SumOn(AmountOf, OutOf[v])
                BY <1>0, <2>2, SumSame
            <3>4. n \in Int
                BY DEF Row
            <3> QED BY <1>0, <2>1, <2>4, <3>2, <3>3, <3>4
        <2> QED BY <2>3, <2>4
    <1>2. ASSUME NEW a \in Admins, Save(a)
          PROVE  balance'[v] + SumOn(AmountOf', OutOf'[v]) = Opening[v]
        <2> DEFINE w == desk[a].id
        <2>1. /\ w \in Requests /\ request[w] \in Row
              /\ request[w].status \in {"pending", "approved"}
            BY <1>2, DeskFacts DEF Save, SavesWhatItRead, ReadyFor
        <2>2. /\ request'[w].status \in {"approved", "completed"}
              /\ request'[w].of = request[w].of /\ request'[w].amount = request[w].amount
              /\ \A x \in Requests : x # w => request'[x] = request[x]
              /\ balance' = balance
            BY <1>2, <2>1, NewStatus DEF Save, TypeOK
        <2> HIDE DEF w
        <2>3. OutOf'[v] = OutOf[v] /\ \A x \in OutOf[v] : AmountOf'[x] = AmountOf[x]
            BY <2>1, <2>2 DEF OutOf, Withdrawn, AmountOf
        <2> QED BY <1>0, <2>2, <2>3, SameOut
    <1>3. ASSUME NEW a \in Admins, NEW w \in Requests, Reject(a, w)
          PROVE  balance'[v] + SumOn(AmountOf', OutOf'[v]) = Opening[v]
        <2>1. /\ request[w] \in Row /\ request[w].status \in {"pending", "approved"}
              /\ request'[w].status = "rejected"
              /\ request'[w].of = request[w].of /\ request'[w].amount = request[w].amount
              /\ \A x \in Requests : x # w => request'[x] = request[x]
            <3> DEFINE new == [request[w] EXCEPT !.status = "rejected"]
            <3>1. request[w] \in Row /\ request[w].status \in {"pending", "approved"}
                BY <1>3 DEF Reject, Revertible, TypeOK, NoRow
            <3>2. /\ new.status = "rejected"
                  /\ new.of = request[w].of /\ new.amount = request[w].amount
                BY <3>1, NewStatus
            <3>3. request' = [request EXCEPT ![w] = new]
                BY <1>3 DEF Reject
            <3> HIDE DEF new
            <3> QED BY <3>1, <3>2, <3>3 DEF TypeOK
        <2>2. balance'[v] = balance[v] + (IF v = request[w].of THEN request[w].amount ELSE 0)
            BY <1>3, <2>1 DEF Reject, TypeOK, Row
        <2>3. \A x \in OutOf[v] : AmountOf'[x] = AmountOf[x]
            BY <2>1 DEF OutOf, Withdrawn, AmountOf
        <2>4. CASE v # request[w].of
            <3>1. OutOf'[v] = OutOf[v]
                BY <2>1, <2>4 DEF OutOf, Withdrawn
            <3> QED BY <1>0, <2>2, <2>3, <2>4, <3>1, SameOut
        <2>5. CASE v = request[w].of
            <3>1. w \in OutOf[v] /\ OutOf'[v] = OutOf[v] \ {w} /\ AmountOf[w] = request[w].amount
                BY <2>1, <2>5 DEF OutOf, Withdrawn, AmountOf
            <3>2. SumOn(AmountOf, OutOf[v]) = AmountOf[w] + SumOn(AmountOf, OutOf'[v])
                <4>1. PICK out, amount : out = OutOf[v] /\ amount = AmountOf
                    OBVIOUS
                <4>2. IsFiniteSet(out) /\ (\A x \in out : amount[x] \in Int) /\ w \in out
                    BY <1>0, <3>1, <4>1
                <4>3. SumOn(amount, out) = amount[w] + SumOn(amount, out \ {w})
                    BY <4>2, SumWithout
                <4> QED BY <3>1, <4>1, <4>3
            <3>3. SumOn(AmountOf', OutOf'[v]) = SumOn(AmountOf, OutOf'[v])
                BY <1>0, <2>3, <3>1, SumSame
            <3>4. AmountOf[w] \in Int /\ SumOn(AmountOf, OutOf'[v]) \in Int
                BY <1>0, <3>1, SumSteps
            <3> QED BY <1>0, <2>2, <2>5, <3>1, <3>2, <3>3, <3>4
        <2> QED BY <2>4, <2>5
    <1>4. CASE \/ \E a \in Admins, op \in {"approve", "complete"}, w \in Requests : Read(a, op, w)
               \/ \E a \in Admins : Abandon(a)
               \/ UNCHANGED vars
        <2>1. request' = request /\ balance' = balance
            BY <1>4 DEF Read, Abandon, vars
        <2>2. OutOf' = OutOf /\ AmountOf' = AmountOf
            BY <2>1 DEF OutOf, Withdrawn, AmountOf
        <2> QED BY <1>0, <2>1, <2>2
    <1> QED BY <1>1, <1>2, <1>3, <1>4 DEF Next

\* A request is paid out or given back, never both and never twice, however requests,
\* approvals, completions and refusals interleave, for every number of them.
THEOREM PaidOrGivenBack ==
    ASSUME OneDeskPerRequest
    PROVE  Spec => []Conserved
    <1>1. Init => SavesWhatItRead
        BY DEF Init, SavesWhatItRead
    <1>2. TypeInv /\ SavesWhatItRead /\ [Next]_vars => SavesWhatItRead'
        BY SavesNext
    <1> QED BY <1>1, <1>2, TypeInit, TypeNext, BalancedInit, BalancedNext,
               BalancedIsConserved, PTL DEF Spec
=============================================================================
