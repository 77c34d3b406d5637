------------------------------ MODULE Sessions ------------------------------
(***************************************************************************)
(* The refresh tokens of one account. A login reads the password and then  *)
(* issues a token; a refresh is a transaction that issues a token and      *)
(* revokes the one it was given; a logout revokes one; a reset by code     *)
(* saves the new password and then revokes every token, "force re-login    *)
(* everywhere"; a change of password leaves the tokens.                    *)
(*                                                                         *)
(* A refresh with a token that is revoked already changes nothing: what it *)
(* revokes is rolled back with its transaction when it throws.             *)
(***************************************************************************)
EXTENDS Integers, Null

CONSTANTS
    Tokens,         \* refresh_tokens
    Devices,        \* requests that log in or refresh
    MaxPassword     \* passwords are numbered as they are set

ASSUME SessionAssumption == MaxPassword \in Nat /\ NULL \notin Tokens

VARIABLES
    sePassword,     \* the number of the password users has
    seToken,        \* each token: absent, new (not committed), live or revoked
    seSince,        \* the password the session of the token was opened with
    seHand,         \* what each request has read
    seReset,        \* resetPassword has done the first of its two steps
    \* history:
    seRelogin,      \* the password of the last reset that is over
    seLate          \* tokens of requests that were at work while it revoked

sessionVars == <<sePassword, seToken, seSince, seHand, seReset, seRelogin, seLate>>

Away == [at |-> "idle", token |-> NULL, next |-> NULL, since |-> 0, late |-> FALSE]

SessionTypeOK ==
    /\ sePassword \in 0..MaxPassword
    /\ seToken \in [Tokens -> {"absent", "new", "live", "revoked"}]
    /\ seSince \in [Tokens -> 0..MaxPassword]
    /\ seHand \in [Devices -> [at : {"idle", "verified", "read", "issued"},
                               token : Tokens \cup {NULL}, next : Tokens \cup {NULL},
                               since : 0..MaxPassword, late : BOOLEAN]]
    /\ seReset \in BOOLEAN
    /\ seRelogin \in 0..MaxPassword
    /\ seLate \subseteq Tokens

SessionInit ==
    /\ sePassword = 0
    /\ seToken = [t \in Tokens |-> "absent"]
    /\ seSince = [t \in Tokens |-> 0]
    /\ seHand = [d \in Devices |-> Away]
    /\ seReset = FALSE
    /\ seRelogin = 0 /\ seLate = {}

MarkLate(t, late) == seLate' = IF late THEN seLate \cup {t} ELSE seLate

\* mutant: the tokens are revoked before the password is saved
RevokeFirst == <<"revoke", "save">>
\* The two steps of resetPassword, after the code.
ResetSteps == <<"save", "revoke">>

-----------------------------------------------------------------------------
\* login: the user is read and the password verified ...
Verify(d) ==
    /\ seHand[d] = Away
    /\ seHand' = [seHand EXCEPT ![d] = [Away EXCEPT !.at = "verified", !.since = sePassword]]
    /\ UNCHANGED <<sePassword, seToken, seSince, seReset, seRelogin, seLate>>

\* ... and a token issued.
LogIn(d, t) ==
    /\ seHand[d].at = "verified" /\ seToken[t] = "absent"
    /\ seToken' = [seToken EXCEPT ![t] = "live"]
    /\ seSince' = [seSince EXCEPT ![t] = seHand[d].since]
    /\ MarkLate(t, seHand[d].late)
    /\ seHand' = [seHand EXCEPT ![d] = Away]
    /\ UNCHANGED <<sePassword, seReset, seRelogin>>

\* rotateRefreshToken: the row is read in its transaction, without a lock.
ReadToken(d, t) ==
    /\ seHand[d] = Away /\ seToken[t] = "live"
    /\ seHand' = [seHand EXCEPT ![d] =
         [at |-> "read", token |-> t, next |-> NULL, since |-> seSince[t], late |-> t \in seLate]]
    /\ UNCHANGED <<sePassword, seToken, seSince, seReset, seRelogin, seLate>>

\* issueTokens in the transaction: a row the others do not see yet.
IssueNext(d, t) ==
    /\ seHand[d].at = "read" /\ seToken[t] = "absent"
    /\ seToken' = [seToken EXCEPT ![t] = "new"]
    /\ seSince' = [seSince EXCEPT ![t] = seHand[d].since]
    /\ seHand' = [seHand EXCEPT ![d] = [@ EXCEPT !.at = "issued", !.next = t]]
    /\ UNCHANGED <<sePassword, seReset, seRelogin, seLate>>

\* The old token is saved as revoked, and the commit.
Rotate(d) ==
    /\ seHand[d].at = "issued"
    /\ seToken' = [seToken EXCEPT ![seHand[d].token] = "revoked", ![seHand[d].next] = "live"]
    /\ MarkLate(seHand[d].next, seHand[d].late)
    /\ seHand' = [seHand EXCEPT ![d] = Away]
    /\ UNCHANGED <<sePassword, seSince, seReset, seRelogin>>

\* A request fails or is cut off; a transaction is rolled back.
Abandon(d) ==
    /\ seHand[d] # Away
    /\ seToken' = [t \in Tokens |-> IF t = seHand[d].next THEN "absent" ELSE seToken[t]]
    /\ seHand' = [seHand EXCEPT ![d] = Away]
    /\ UNCHANGED <<sePassword, seSince, seReset, seRelogin, seLate>>

\* revokeRefreshToken, or the token's time is over.
EndSession(t) ==
    /\ seToken[t] = "live"
    /\ seToken' = [seToken EXCEPT ![t] = "revoked"]
    /\ UNCHANGED <<sePassword, seSince, seHand, seReset, seRelogin, seLate>>

\* changePassword: a new password; the tokens stay.
ChangePassword ==
    /\ sePassword < MaxPassword
    /\ sePassword' = sePassword + 1
    /\ UNCHANGED <<seToken, seSince, seHand, seReset, seRelogin, seLate>>

SaveNew ==
    /\ sePassword < MaxPassword
    /\ sePassword' = sePassword + 1
    /\ UNCHANGED <<seToken, seHand, seLate>>

\* revokeAllForUser: one UPDATE of the tokens not revoked. It waits for those that
\* are not committed, and sees what has been.
RevokeAll ==
    /\ \A t \in Tokens : seToken[t] # "new"
    /\ seToken' = [t \in Tokens |-> IF seToken[t] = "live" THEN "revoked" ELSE seToken[t]]
    /\ seHand' = [d \in Devices |->
                    IF seHand[d] = Away THEN Away ELSE [seHand[d] EXCEPT !.late = TRUE]]
    /\ seLate' = {}
    /\ UNCHANGED sePassword

ResetStep(step) == IF step = "save" THEN SaveNew ELSE RevokeAll

StartReset ==
    /\ ~seReset
    /\ ResetStep(ResetSteps[1])
    /\ seReset' = TRUE
    /\ UNCHANGED <<seSince, seRelogin>>

FinishReset ==
    /\ seReset
    /\ ResetStep(ResetSteps[2])
    /\ seReset' = FALSE
    /\ seRelogin' = sePassword'
    /\ UNCHANGED seSince

\* The process stops between the two.
ResetBreaks ==
    /\ seReset
    /\ seReset' = FALSE
    /\ UNCHANGED <<sePassword, seToken, seSince, seHand, seRelogin, seLate>>

SessionNext ==
    \/ \E d \in Devices :
         \/ Verify(d) \/ Rotate(d) \/ Abandon(d)
         \/ \E t \in Tokens : LogIn(d, t) \/ ReadToken(d, t) \/ IssueNext(d, t)
    \/ \E t \in Tokens : EndSession(t)
    \/ ChangePassword \/ StartReset \/ FinishReset \/ ResetBreaks

SessionSpec == SessionInit /\ [][SessionNext]_sessionVars

-----------------------------------------------------------------------------
(* Properties.                                                             *)

\* Once a reset is over, the sessions that live were opened with its password or
\* a later one, however logins and refreshes interleave with its two steps; but
\* for those of requests that had read the account, or their token, before it
\* revoked, and were answered after.
ResetEndsSessions ==
    \A t \in Tokens \ seLate : seToken[t] = "live" => seSince[t] >= seRelogin
=============================================================================
