---------------------------- MODULE Idempotency ----------------------------
(***************************************************************************)
(* The Idempotency-Key of the financial POSTs: the middleware claims the   *)
(* key (user, key, path) with a row, lets the controller run, and when the *)
(* response is flushed stores a 2xx answer in the row, or deletes the row  *)
(* so that the client can try again.                                       *)
(*                                                                         *)
(* A request is the operation behind it as well: a stored procedure that   *)
(* commits a charge, or refuses; then whatever the service still does,     *)
(* which can fail. 'finish' is not emitted for a connection that is gone.  *)
(***************************************************************************)
EXTENDS FiniteSets

CONSTANTS
    Keys,       \* scopes: user, Idempotency-Key and path
    Bodies,     \* request_hash values
    Posts,      \* every financial POST a client ever sends, retries included
    KeyOf,      \* [Posts -> Keys]
    BodyOf      \* [Posts -> Bodies]

ASSUME IdempotencyAssumption ==
    /\ KeyOf \in [Posts -> Keys]
    /\ BodyOf \in [Posts -> Bodies]

VARIABLES
    ikRow,      \* idempotency_keys
    ikStage,    \* where each request is
    ikLost,     \* the requests whose connection is gone
    ikAnswer,   \* what the client of a request has been told
    ikCharged,  \* history: the requests whose procedure has committed a charge
    ikFailed    \* history: those of them that went on to answer an error

ikVars == <<ikRow, ikStage, ikLost, ikAnswer, ikCharged, ikFailed>>

NoRow   == [status |-> "none"]
Claimed == [status: {"in_progress", "completed"}, hash: Bodies, owner: Posts]
Stages  == {"unsent", "running", "committed", "answered", "refused", "over"}

\* A 2xx answer is known by the request that was charged for it.
None  == [is |-> "none"]
Error == [is |-> "error"]
Success(r) == [is |-> "success", of |-> r]

KeyInit ==
    /\ ikRow = [k \in Keys |-> NoRow]
    /\ ikStage = [r \in Posts |-> "unsent"]
    /\ ikLost = {}
    /\ ikAnswer = [r \in Posts |-> None]
    /\ ikCharged = {}
    /\ ikFailed = {}

Reply(r, a) == ikAnswer' = [ikAnswer EXCEPT ![r] = IF r \in ikLost THEN @ ELSE a]

-----------------------------------------------------------------------------
(* The middleware, before the controller.                                  *)

\* mutant: a completed row is not looked for.
FreeUnlessRunning(k) == ikRow[k].status # "in_progress"
\* findOrCreate: the unique key (user, key, path) decides who created the row.
Free(k) == ikRow[k] = NoRow

Claim(r) ==
    /\ ikStage[r] = "unsent"
    /\ Free(KeyOf[r])
    /\ ikRow' = [ikRow EXCEPT ![KeyOf[r]] = [status |-> "in_progress",
                                         hash |-> BodyOf[r], owner |-> r]]
    /\ ikStage' = [ikStage EXCEPT ![r] = "running"]
    /\ UNCHANGED <<ikLost, ikAnswer, ikCharged, ikFailed>>

\* mutant: the body is not compared.
ReplayableAnyBody(r) == ikRow[KeyOf[r]].status = "completed"
\* The row has an answer, to the same body.
Replayable(r) ==
    /\ ikRow[KeyOf[r]].status = "completed"
    /\ ikRow[KeyOf[r]].hash = BodyOf[r]

\* The stored answer is sent again.
Replay(r) ==
    /\ ikStage[r] = "unsent"
    /\ Replayable(r)
    /\ Reply(r, Success(ikRow[KeyOf[r]].owner))
    /\ ikStage' = [ikStage EXCEPT ![r] = "over"]
    /\ UNCHANGED <<ikRow, ikLost, ikCharged, ikFailed>>

\* 409: another body, an attempt in progress, or any error of findOrCreate.
Conflict(r) ==
    /\ ikStage[r] = "unsent"
    /\ Reply(r, Error)
    /\ ikStage' = [ikStage EXCEPT ![r] = "over"]
    /\ UNCHANGED <<ikRow, ikLost, ikCharged, ikFailed>>

-----------------------------------------------------------------------------
(* The controller and its service.                                         *)

\* CALL of the procedure: it commits the charge.
Commit(r) ==
    /\ ikStage[r] = "running"
    /\ ikStage' = [ikStage EXCEPT ![r] = "committed"]
    /\ ikCharged' = ikCharged \cup {r}
    /\ UNCHANGED <<ikRow, ikLost, ikAnswer, ikFailed>>

\* The procedure refuses or fails: the error answer.
Refuse(r) ==
    /\ ikStage[r] = "running"
    /\ Reply(r, Error)
    /\ ikStage' = [ikStage EXCEPT ![r] = "refused"]
    /\ UNCHANGED <<ikRow, ikLost, ikCharged, ikFailed>>

\* The 201 answer.
Succeed(r) ==
    /\ ikStage[r] = "committed"
    /\ Reply(r, Success(r))
    /\ ikStage' = [ikStage EXCEPT ![r] = "answered"]
    /\ UNCHANGED <<ikRow, ikLost, ikCharged, ikFailed>>

\* What follows the commit fails: SELECT @out of callProcedure, the findByPk
\* of sendGift. The client gets a 500 for a charge that has been made.
FailLate(r) ==
    /\ ikStage[r] = "committed"
    /\ Reply(r, Error)
    /\ ikStage' = [ikStage EXCEPT ![r] = "refused"]
    /\ ikFailed' = ikFailed \cup {r}
    /\ UNCHANGED <<ikRow, ikLost, ikCharged>>

-----------------------------------------------------------------------------
(* 'finish', and what keeps it from coming.                                *)

\* mutants: the key is freed by no answer; an error is stored.
RowAtFinishKept(r) ==
    IF ikStage[r] = "answered"
      THEN [ikRow[KeyOf[r]] EXCEPT !.status = "completed"]
      ELSE ikRow[KeyOf[r]]
RowAtFinishFailed(r) ==
    [ikRow[KeyOf[r]] EXCEPT !.status =
       IF ikStage[r] = "answered" THEN "completed" ELSE "failed"]
\* The row after the response: the answer, or nothing after an error.
RowAtFinish(r) ==
    IF ikStage[r] = "answered"
      THEN [ikRow[KeyOf[r]] EXCEPT !.status = "completed"]
      ELSE NoRow

Finish(r) ==
    /\ ikStage[r] \in {"answered", "refused"}
    /\ r \notin ikLost
    /\ ikRow' = [ikRow EXCEPT ![KeyOf[r]] = RowAtFinish(r)]
    /\ ikStage' = [ikStage EXCEPT ![r] = "over"]
    /\ UNCHANGED <<ikLost, ikAnswer, ikCharged, ikFailed>>

\* The client or the network closes the connection; the controller goes on.
Disconnect(r) ==
    /\ ikStage[r] \in {"running", "committed"}
    /\ ikLost' = ikLost \cup {r}
    /\ UNCHANGED <<ikRow, ikStage, ikAnswer, ikCharged, ikFailed>>

\* The process stops, or the save or destroy of 'finish' fails: the row stays.
Stop(r) ==
    /\ ikStage[r] \in {"running", "committed", "answered", "refused"}
    /\ ikLost' = ikLost \cup {r}
    /\ ikStage' = [ikStage EXCEPT ![r] = "over"]
    /\ UNCHANGED <<ikRow, ikAnswer, ikCharged, ikFailed>>

KeyNext ==
    \E r \in Posts :
        \/ Claim(r) \/ Replay(r) \/ Conflict(r)
        \/ Commit(r) \/ Refuse(r) \/ Succeed(r) \/ FailLate(r)
        \/ Finish(r) \/ Disconnect(r) \/ Stop(r)

KeySpec == KeyInit /\ [][KeyNext]_ikVars

-----------------------------------------------------------------------------
(* Properties.                                                             *)

\* Types; a request owns no row but that of its key.
KeyTypeOK ==
    /\ ikRow \in [Keys -> {NoRow} \cup Claimed]
    /\ ikStage \in [Posts -> Stages]
    /\ ikLost \subseteq Posts
    /\ ikAnswer \in [Posts -> {None, Error} \cup {Success(r) : r \in Posts}]
    /\ ikCharged \subseteq Posts
    /\ ikFailed \subseteq ikCharged
    /\ \A k \in Keys : ikRow[k] # NoRow => KeyOf[ikRow[k].owner] = k

\* "Any retry with the same key replays the stored response instead of
\* re-executing (no double charge)": what is true whatever fails. Of the
\* charges of a key, at most one did not end in an error answer.
OneChargePerKey ==
    \A r, q \in ikCharged \ ikFailed : KeyOf[r] = KeyOf[q] => r = q

\* The middleware's words without the exception: a key is charged once.
NoDoubleCharge == \A r, q \in ikCharged : KeyOf[r] = KeyOf[q] => r = q

\* A client that was told of a success was charged for it once, by the request
\* he is told about, with his key and his body.
AnswersAreTrue ==
    \A r \in Posts :
        ikAnswer[r].is = "success" =>
            LET q == ikAnswer[r].of
            IN  /\ q \in ikCharged \ ikFailed
                /\ KeyOf[q] = KeyOf[r]
                /\ BodyOf[q] = BodyOf[r]

\* A key is refused with "in progress" only while its request is at work, or
\* for good: when its connection was lost, its process stopped or the row could
\* not be saved. (Nothing reads expires_at.)
BlockedByLossOnly ==
    \A k \in Keys :
        ikRow[k].status = "in_progress" =>
            \/ ikStage[ikRow[k].owner] \in
                 {"running", "committed", "answered", "refused"}
            \/ ikRow[k].owner \in ikLost

\* The three together: charged once, told the truth, and free for a retry, but for
\* errors after the charge and for losses.
KeysKept == OneChargePerKey /\ AnswersAreTrue /\ BlockedByLossOnly
=============================================================================
