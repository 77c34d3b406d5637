------------------------------- MODULE Roles -------------------------------
(***************************************************************************)
(* Requests to become an artist or a manager, of a table and with handlers *)
(* each: a user with none pending may make one, an admin reviews it in a   *)
(* transaction that also grants the role and makes the profile. Admins     *)
(* assign and revoke roles directly, too.                                  *)
(*                                                                         *)
(* Applying reads, and then writes, without a lock or a unique key, so     *)
(* that a user may have several pending requests; the review reads without *)
(* a lock, and its findOrCreate looks in its snapshot.                     *)
(***************************************************************************)
EXTENDS FiniteSets, Null

CONSTANTS
    Applicants,         \* users
    ArtistRequests,     \* artist_requests
    ManagerRequests,    \* manager_requests
    AppliedBy,          \* the user of each
    Reviewers,          \* requests of admins that review
    Direct              \* roles admins give and take themselves, <<user, role>>

RoleRequests == ArtistRequests \cup ManagerRequests

ASSUME RoleAssumption ==
    ArtistRequests \cap ManagerRequests = {} /\ AppliedBy \in [RoleRequests -> Applicants]

VARIABLES
    rlStatus,       \* status of each request; "applying" when none was found pending
    rlRole,         \* the roles users have: <<user, role>>
    rlProfile,      \* the profiles that go with them
    rlHand,         \* where each review is
    \* history:
    rlOverlap,      \* requests two reviews had in hand at once
    rlAssigned,     \* roles an admin gave
    rlRevoked       \* roles an admin took away, not granted again since

roleVars == <<rlStatus, rlRole, rlProfile, rlHand, rlOverlap, rlAssigned, rlRevoked>>

Grants == Applicants \X {"artist", "manager"}
ASSUME DirectAssumption == Direct \subseteq Grants

\* What a request is for: the role, and the profile.
Sought(r) == <<AppliedBy[r], IF r \in ArtistRequests THEN "artist" ELSE "manager">>

NoReview == [at |-> "idle", req |-> NULL, to |-> "pending", new |-> FALSE]

RoleTypeOK ==
    /\ rlStatus \in [RoleRequests -> {"none", "applying", "pending", "approved", "rejected"}]
    /\ rlRole \subseteq Grants /\ rlProfile \subseteq Grants
    /\ rlHand \in [Reviewers -> {NoReview} \cup
                     [at : {"read", "saved"}, req : RoleRequests,
                      to : {"pending", "approved", "rejected"}, new : BOOLEAN]]
    /\ rlOverlap \subseteq RoleRequests
    /\ rlAssigned \subseteq Grants /\ rlRevoked \subseteq Grants

RoleInit ==
    /\ rlStatus = [r \in RoleRequests |-> "none"]
    /\ rlRole = {} /\ rlProfile = {}
    /\ rlHand = [v \in Reviewers |-> NoReview]
    /\ rlOverlap = {} /\ rlAssigned = {} /\ rlRevoked = {}

RowLocked(r) == \E v \in Reviewers : rlHand[v].at = "saved" /\ rlHand[v].req = r
Granted(v) == Sought(rlHand[v].req)

\* mutant: a settled request is reviewed again
AnyReviewable(r) == rlStatus[r] \in {"pending", "approved", "rejected"}
\* What a review asks of the row.
Reviewable(r) == rlStatus[r] = "pending"

-----------------------------------------------------------------------------
\* findOne of a pending request of the user's, in that table ...
LookForPending(r) ==
    /\ rlStatus[r] = "none"
    /\ \A q \in RoleRequests : Sought(q) = Sought(r) => rlStatus[q] # "pending"
    /\ rlStatus' = [rlStatus EXCEPT ![r] = "applying"]
    /\ UNCHANGED <<rlRole, rlProfile, rlHand, rlOverlap, rlAssigned, rlRevoked>>

\* ... and create.
Submitted(r) ==
    /\ rlStatus[r] = "applying"
    /\ rlStatus' = [rlStatus EXCEPT ![r] = "pending"]
    /\ UNCHANGED <<rlRole, rlProfile, rlHand, rlOverlap, rlAssigned, rlRevoked>>

ApplyAsArtist(r) == r \in ArtistRequests /\ (LookForPending(r) \/ Submitted(r))
ApplyAsManager(r) == r \in ManagerRequests /\ (LookForPending(r) \/ Submitted(r))

\* findByPk, in the transaction: what it sees of the roles, it sees as of here.
ReadForReview(v, r) ==
    /\ rlHand[v] = NoReview /\ Reviewable(r)
    /\ rlHand' = [rlHand EXCEPT ![v] = [at |-> "read", req |-> r, to |-> "pending",
                                        new |-> Sought(r) \notin rlRole]]
    /\ rlOverlap' = IF \E w \in Reviewers : rlHand[w].req = r THEN rlOverlap \cup {r}
                                                             ELSE rlOverlap
    /\ UNCHANGED <<rlStatus, rlRole, rlProfile, rlAssigned, rlRevoked>>

\* The save; the row is locked from here on.
SaveReview(v, to) ==
    /\ rlHand[v].at = "read" /\ ~RowLocked(rlHand[v].req)
    /\ rlHand' = [rlHand EXCEPT ![v].at = "saved", ![v].to = to]
    /\ UNCHANGED <<rlStatus, rlRole, rlProfile, rlOverlap, rlAssigned, rlRevoked>>

\* What an approval adds to the roles: grantRole, found or created.
NewRole(v) == IF rlHand[v].to = "approved" /\ rlHand[v].new THEN {Granted(v)} ELSE {}

\* Role and profile, when it approves, and the commit.
CommitReview(v) ==
    /\ rlHand[v].at = "saved"
    /\ rlStatus' = [rlStatus EXCEPT ![rlHand[v].req] = rlHand[v].to]
    /\ rlProfile' = IF rlHand[v].to = "approved" THEN rlProfile \cup {Granted(v)}
                                                ELSE rlProfile
    /\ rlRole' = rlRole \cup NewRole(v) /\ rlRevoked' = rlRevoked \ NewRole(v)
    /\ rlHand' = [rlHand EXCEPT ![v] = NoReview]
    /\ UNCHANGED <<rlOverlap, rlAssigned>>

\* A failing query or a crash: rolled back.
ReviewFails(v) ==
    /\ rlHand[v] # NoReview
    /\ rlHand' = [rlHand EXCEPT ![v] = NoReview]
    /\ UNCHANGED <<rlStatus, rlRole, rlProfile, rlOverlap, rlAssigned, rlRevoked>>

Review(v, r) ==
    \/ ReadForReview(v, r)
    \/ /\ rlHand[v].req = r
       /\ \/ \E to \in {"approved", "rejected"} : SaveReview(v, to)
          \/ CommitReview(v)
          \/ ReviewFails(v)
ReviewArtistRequest(v) == \E r \in ArtistRequests : Review(v, r)
ReviewManagerRequest(v) == \E r \in ManagerRequests : Review(v, r)

\* assignRole, no transaction: the role, and then the profile unless it breaks off.
AssignRole(g) ==
    /\ rlRole' = rlRole \cup {g} /\ rlAssigned' = rlAssigned \cup {g}
    /\ rlRevoked' = rlRevoked \ {g}
    /\ rlProfile' \in {rlProfile, rlProfile \cup {g}}
    /\ UNCHANGED <<rlStatus, rlHand, rlOverlap>>

\* revokeRole; the profile stays.
RevokeRole(g) ==
    /\ g \in rlRole
    /\ rlRole' = rlRole \ {g} /\ rlRevoked' = rlRevoked \cup {g}
    /\ rlAssigned' = rlAssigned \ {g}
    /\ UNCHANGED <<rlStatus, rlProfile, rlHand, rlOverlap>>

RoleNext ==
    \/ \E r \in RoleRequests : ApplyAsArtist(r) \/ ApplyAsManager(r)
    \/ \E v \in Reviewers : ReviewArtistRequest(v) \/ ReviewManagerRequest(v)
    \/ \E g \in Direct : AssignRole(g) \/ RevokeRole(g)

RoleSpec == RoleInit /\ [][RoleNext]_roleVars

-----------------------------------------------------------------------------
(* Properties.                                                             *)

\* A user whose request reads approved has the profile, and the role unless an
\* admin took it away: no crash comes between the status, the role and the
\* profile. And nobody has the role without an admin's gift or a request that
\* reads approved, unless two reviews had the request in hand at once (the
\* later one may leave it rejected).
RolesMatchReviews ==
    /\ \A r \in RoleRequests : rlStatus[r] = "approved" =>
         Sought(r) \in rlProfile /\ Sought(r) \in rlRole \cup rlRevoked
    /\ \A g \in rlRole \ rlAssigned : \E r \in RoleRequests :
         Sought(r) = g /\ (rlStatus[r] = "approved" \/ r \in rlOverlap)
=============================================================================
