------------------------------- MODULE Duels -------------------------------
(***************************************************************************)
(* Duel requests. An artist invites another; the opponent accepts or       *)
(* declines, the requester may change the date, an admin may approve or    *)
(* reject, and a job expires the requests whose date has passed. To accept *)
(* or approve is a transaction that also creates the duel.                 *)
(*                                                                         *)
(* The rows are read without a lock and saved by id: only the changed      *)
(* columns are written, whatever the row says by then. A transaction's     *)
(* save keeps the row locked, and unseen, until the commit.                *)
(***************************************************************************)
EXTENDS Integers, FiniteSets, Null

CONSTANTS
    Invitations,    \* duel_requests
    Deciders,       \* requests to the API about an invitation
    MaxDuels        \* duels the model makes room for, of each invitation

ASSUME DuelAssumption == MaxDuels \in Nat /\ IsFiniteSet(Deciders)

VARIABLES
    drStatus,       \* duel_requests.status, "none" before the row exists
    drPast,         \* the proposed date has passed
    drDuels,        \* how many duels were created for the invitation
    drHand,         \* what each request has read, and will make of it
    drStale,        \* the rows expireDuelRequests read and has still to save
    \* history:
    drOverlap,      \* two handlers had the invitation in hand at once
    drOverruled     \* an admin decided on one that was not pending any more

duelVars == <<drStatus, drPast, drDuels, drHand, drStale, drOverlap, drOverruled>>

Decided == {"accepted", "approved"}
Decisions == Decided \cup {"declined", "rejected", "date"}
Free == [at |-> "idle", inv |-> NULL, to |-> "date"]

DuelTypeOK ==
    /\ drStatus \in [Invitations -> {"none", "pending", "accepted", "declined",
                                     "approved", "rejected", "expired"}]
    /\ drPast \in [Invitations -> BOOLEAN]
    /\ drDuels \in [Invitations -> 0..MaxDuels]
    /\ drHand \in [Deciders -> {Free}
                     \cup [at : {"read"}, inv : Invitations, to : Decisions]
                     \cup [at : {"saved"}, inv : Invitations,
                           to : Decided \cup {"declined"}]]
    /\ drStale \subseteq Invitations
    /\ drOverlap \subseteq Invitations /\ drOverruled \subseteq Invitations

DuelInit ==
    /\ drStatus = [i \in Invitations |-> "none"]
    /\ drPast = [i \in Invitations |-> FALSE]
    /\ drDuels = [i \in Invitations |-> 0]
    /\ drHand = [u \in Deciders |-> Free]
    /\ drStale = {}
    /\ drOverlap = {} /\ drOverruled = {}

\* A transaction has saved the row and not committed.
Locked(i) == \E u \in Deciders : drHand[u].at = "saved" /\ drHand[u].inv = i

\* A handler has read the row and will write its status.
Handled(i) ==
    \/ \E u \in Deciders : drHand[u].at # "idle" /\ drHand[u].inv = i
                           /\ drHand[u].to # "date"
    \/ i \in drStale

\* All approveDuelRequest and rejectDuelRequest ask of the row.
Exists(i) == drStatus[i] # "none"
\* What respondDuelRequest and changeDuelRequestDate ask of the row.
Pending(i) == drStatus[i] = "pending"

\* mutant: the save is not part of the transaction
SeenAtOnce(u) == [drStatus EXCEPT ![drHand[u].inv] = drHand[u].to]
\* What the others see of a transaction's save.
SeenBeforeCommit(u) == drStatus

RoomForDuel(i) ==
    drDuels[i] + Cardinality({u \in Deciders : drHand[u].at # "idle" /\ drHand[u].inv = i})
      < MaxDuels

-----------------------------------------------------------------------------
\* createDuelRequest: the date is any, or none.
Invite(i) ==
    /\ drStatus[i] = "none"
    /\ drStatus' = [drStatus EXCEPT ![i] = "pending"]
    /\ \E p \in BOOLEAN : drPast' = [drPast EXCEPT ![i] = p]
    /\ UNCHANGED <<drDuels, drHand, drStale, drOverlap, drOverruled>>

DatePasses(i) ==
    /\ drStatus[i] # "none" /\ ~drPast[i]
    /\ drPast' = [drPast EXCEPT ![i] = TRUE]
    /\ UNCHANGED <<drStatus, drDuels, drHand, drStale, drOverlap, drOverruled>>

Take(u, i, to) ==
    /\ drHand[u].at = "idle"
    /\ to \in Decided => RoomForDuel(i)
    /\ drHand' = [drHand EXCEPT ![u] = [at |-> "read", inv |-> i, to |-> to]]
    /\ drOverlap' = IF to # "date" /\ Handled(i) THEN drOverlap \cup {i} ELSE drOverlap
    /\ UNCHANGED <<drStatus, drPast, drDuels, drStale>>

\* The read of respondDuelRequest, in its transaction, and of changeDuelRequestDate.
ReadPending(u, i, to) ==
    /\ to \in {"accepted", "declined", "date"}
    /\ Pending(i)
    /\ Take(u, i, to)
    /\ UNCHANGED drOverruled

\* The read of approveDuelRequest and rejectDuelRequest: any status will do.
ReadAny(u, i, to) ==
    /\ to \in {"approved", "rejected"}
    /\ Exists(i)
    /\ Take(u, i, to)
    /\ drOverruled' = IF drStatus[i] = "pending" THEN drOverruled ELSE drOverruled \cup {i}

\* save() of respondDuelRequest and approveDuelRequest: takes the row's lock.
SaveInTransaction(u) ==
    /\ drHand[u].at = "read" /\ drHand[u].to \in Decided \cup {"declined"}
    /\ ~Locked(drHand[u].inv)
    /\ drHand' = [drHand EXCEPT ![u] = [@ EXCEPT !.at = "saved"]]
    /\ drStatus' = SeenBeforeCommit(u)
    /\ UNCHANGED <<drPast, drDuels, drStale, drOverlap, drOverruled>>

\* Duel.create, when there is one, and the commit.
Commit(u) ==
    /\ drHand[u].at = "saved"
    /\ drStatus' = [drStatus EXCEPT ![drHand[u].inv] = drHand[u].to]
    /\ drDuels' = [drDuels EXCEPT ![drHand[u].inv] =
                     IF drHand[u].to \in Decided THEN @ + 1 ELSE @]
    /\ drHand' = [drHand EXCEPT ![u] = Free]
    /\ UNCHANGED <<drPast, drStale, drOverlap, drOverruled>>

\* rejectDuelRequest, changeDuelRequestDate: one UPDATE, once no one holds the row.
Save(u) ==
    /\ drHand[u].at = "read" /\ drHand[u].to \in {"rejected", "date"}
    /\ ~Locked(drHand[u].inv)
    /\ IF drHand[u].to = "date"
         THEN /\ \E p \in BOOLEAN : drPast' = [drPast EXCEPT ![drHand[u].inv] = p]
              /\ UNCHANGED drStatus
         ELSE /\ drStatus' = [drStatus EXCEPT ![drHand[u].inv] = "rejected"]
              /\ UNCHANGED drPast
    /\ drHand' = [drHand EXCEPT ![u] = Free]
    /\ UNCHANGED <<drDuels, drStale, drOverlap, drOverruled>>

\* A failing query or a crash: the transaction is rolled back.
GiveUp(u) ==
    /\ drHand[u].at # "idle"
    /\ drHand' = [drHand EXCEPT ![u] = Free]
    /\ UNCHANGED <<drStatus, drPast, drDuels, drStale, drOverlap, drOverruled>>

\* expireDuelRequests: findAll. runJob starts no second one.
FindStale ==
    /\ drStale = {}
    /\ drStale' = {i \in Invitations : drStatus[i] = "pending" /\ drPast[i]}
    /\ drOverlap' = drOverlap \cup {i \in drStale' : Handled(i)}
    /\ UNCHANGED <<drStatus, drPast, drDuels, drHand, drOverruled>>

\* Its save of one row, after the notices about the others; a failure is ignored.
Expire(i) ==
    /\ i \in drStale /\ ~Locked(i)
    /\ drStatus' \in {drStatus, [drStatus EXCEPT ![i] = "expired"]}
    /\ drStale' = drStale \ {i}
    /\ UNCHANGED <<drPast, drDuels, drHand, drOverlap, drOverruled>>

DuelNext ==
    \/ \E i \in Invitations : Invite(i) \/ DatePasses(i) \/ Expire(i)
    \/ FindStale
    \/ \E u \in Deciders :
         \/ \E i \in Invitations, to \in Decisions : ReadPending(u, i, to) \/ ReadAny(u, i, to)
         \/ SaveInTransaction(u) \/ Commit(u) \/ Save(u) \/ GiveUp(u)

DuelSpec == DuelInit /\ [][DuelNext]_duelVars

-----------------------------------------------------------------------------
(* Properties.                                                             *)

\* A request that reads accepted or approved has its duel: the two writes are one
\* transaction, and neither a crash nor a failing insert comes between them. And
\* unless two handlers had the request in hand at once, or an admin decided on a
\* settled one, it has one duel, and none when it reads anything else: no answer
\* is given twice, no job or late answer takes an accepted request back.
DuelsMatchAnswers ==
    /\ \A i \in Invitations : drStatus[i] \in Decided => drDuels[i] > 0
    /\ \A i \in Invitations \ (drOverlap \cup drOverruled) :
         drDuels[i] = IF drStatus[i] \in Decided THEN 1 ELSE 0
=============================================================================
