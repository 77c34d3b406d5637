---------------------------- MODULE MembersProofs ---------------------------
(***************************************************************************)
(* What is proved of Members: of each of its parts - how an account begins *)
(* and goes, its sessions, codes and PINs, its roles, its subscriptions and*)
(* payout methods, the keys of its payments, sponsors, uploads and what    *)
(* reaches a user - that its invariant holds whatever the sizes of the sets*)
(* and the bounds; and of the composition, that it does what its parts do, *)
(* and so keeps what they keep.                                            *)
(***************************************************************************)
EXTENDS Sums, Members, SequenceTheorems, FiniteSetTheorems, WellFoundedInduction, TLAPS

-----------------------------------------------------------------------------
(* Deletion of accounts.                                                   *)

\* What the job has still to save is due, or its date was saved since.
StillDue == \A u \in dlRun.left \ dlRaced : dlDate[u] = "past"

\* Who asks was not banned by the job, or it is known that the two overlapped; and who
\* asks has an account.
AskersKnown ==
    \A c \in DateCalls : dlCall[c].at # "idle" =>
      /\ dlCall[c].user \in Accounts
      /\ dlCall[c].user \in dlBanned \cap dlPurged => dlCall[c].user \in dlRaced

DeletionInv == DeletionTypeOK /\ StillDue /\ AskersKnown /\ CancelStands

\* No call is a call of nobody.
LEMMA NoCallIsTyped ==
    NoCall \in [at : {"idle", "checked", "read"}, user : Accounts \cup {NULL},
                to : {"none", "ahead"}, had : Dates]
BY DEF NoCall, Dates

\* The initial states satisfy DeletionInv.
LEMMA DeletionInitial == DeletionInit => DeletionInv
<1> SUFFICES ASSUME DeletionInit PROVE DeletionTypeOK /\ StillDue /\ AskersKnown /\ CancelStands
  BY DEF DeletionInv
<1>1. DeletionTypeOK
  BY DeletionAssumption, NoCallIsTyped DEF DeletionInit, DeletionTypeOK, NoPurge, Dates
<1>2. StillDue /\ AskersKnown /\ CancelStands
  BY DEF DeletionInit, StillDue, AskersKnown, CancelStands, NoPurge, NoCall
<1> QED BY <1>1, <1>2

\* Every step of DeletionNext keeps DeletionInv.
LEMMA DeletionStep == DeletionInv /\ [DeletionNext]_deletionVars => DeletionInv'
<1> SUFFICES ASSUME DeletionTypeOK, StillDue, AskersKnown, CancelStands,
                    [DeletionNext]_deletionVars
             PROVE  DeletionTypeOK' /\ StillDue' /\ AskersKnown' /\ CancelStands'
  BY DEF DeletionInv
<1> DEFINE Calls == [at : {"idle", "checked", "read"}, user : Accounts \cup {NULL},
                     to : {"none", "ahead"}, had : Dates]
<1> USE DeletionAssumption DEF NoPurge
<1>0. dlCall \in [DateCalls -> Calls]
  BY DEF DeletionTypeOK
<1>1. ASSUME NEW c \in DateCalls, NEW u \in Accounts, RequestDeletion(c, u) \/ CancelDeletion(c, u)
      PROVE  DeletionTypeOK' /\ StillDue' /\ AskersKnown' /\ CancelStands'
  <2>1. PICK to \in {"none", "ahead"} : CheckBan(c, u, to)
    BY <1>1 DEF RequestDeletion, CancelDeletion
  <2> DEFINE new == [NoCall EXCEPT !.at = "checked", !.user = u, !.to = to]
  <2>2. /\ u \notin dlBanned /\ dlCall' = [dlCall EXCEPT ![c] = new]
        /\ UNCHANGED <<dlDate, dlBanned, dlShown, dlRun, dlFaults, dlPurged, dlRaced>>
    BY <2>1 DEF CheckBan
  <2>3. new \in Calls /\ new.user = u
    BY NoCallIsTyped DEF NoCall
  <2> HIDE DEF new, Calls
  <2>4. /\ dlCall' \in [DateCalls -> Calls] /\ dlCall'[c] = new
        /\ \A d \in DateCalls \ {c} : dlCall'[d] = dlCall[d]
    BY <1>0, <2>2, <2>3
  <2>5. DeletionTypeOK'
    BY <2>2, <2>4 DEF DeletionTypeOK, Calls
  <2>6. AskersKnown'
    BY <2>2, <2>3, <2>4 DEF AskersKnown
  <2>7. StillDue' /\ CancelStands'
    BY <2>2 DEF StillDue, CancelStands
  <2> QED BY <2>5, <2>6, <2>7
<1>2. ASSUME NEW c \in DateCalls, ReadDate(c)
      PROVE  DeletionTypeOK' /\ StillDue' /\ AskersKnown' /\ CancelStands'
  <2> DEFINE new == [dlCall[c] EXCEPT !.at = "read", !.had = dlDate[dlCall[c].user]]
  <2>1. /\ dlCall[c].at = "checked" /\ dlCall' = [dlCall EXCEPT ![c] = new]
        /\ UNCHANGED <<dlDate, dlBanned, dlShown, dlRun, dlFaults, dlPurged, dlRaced>>
    BY <1>2 DEF ReadDate
  <2>2. dlCall[c].user \in Accounts
    BY <2>1 DEF AskersKnown
  <2>3. new \in Calls /\ new.user = dlCall[c].user /\ new.at = "read"
    BY <1>0, <2>2 DEF DeletionTypeOK
  <2> HIDE DEF new, Calls
  <2>4. /\ dlCall' \in [DateCalls -> Calls] /\ dlCall'[c] = new
        /\ \A d \in DateCalls \ {c} : dlCall'[d] = dlCall[d]
    BY <1>0, <2>1, <2>3
  <2>5. DeletionTypeOK'
    BY <2>1, <2>4 DEF DeletionTypeOK, Calls
  <2>6. AskersKnown'
    BY <2>1, <2>2, <2>3, <2>4 DEF AskersKnown
  <2>7. StillDue' /\ CancelStands'
    BY <2>1 DEF StillDue, CancelStands
  <2> QED BY <2>5, <2>6, <2>7
<1>3. ASSUME NEW c \in DateCalls, SaveDate(c) \/ AskFails(c)
      PROVE  DeletionTypeOK' /\ StillDue' /\ AskersKnown' /\ CancelStands'
  <2> DEFINE u == dlCall[c].user
  <2>1. /\ dlCall[c].at # "idle" /\ dlCall' = [dlCall EXCEPT ![c] = NoCall]
        /\ UNCHANGED <<dlBanned, dlShown, dlRun, dlFaults, dlPurged>>
        /\ \/ UNCHANGED <<dlDate, dlRaced>>
           \/ /\ dlDate' = [dlDate EXCEPT ![u] = dlCall[c].to]
              /\ dlRaced' = IF u \in dlRun.left THEN dlRaced \cup {u} ELSE dlRaced
    BY <1>3 DEF SaveDate, AskFails
  <2>2. u \in Accounts /\ (u \in dlBanned \cap dlPurged => u \in dlRaced)
    BY <2>1 DEF AskersKnown
  <2>3. /\ dlCall' \in [DateCalls -> Calls] /\ dlCall'[c] = NoCall
        /\ \A d \in DateCalls \ {c} : dlCall'[d] = dlCall[d]
    BY <1>0, <2>1, NoCallIsTyped
  <2>4. /\ dlDate' \in [Accounts -> Dates] /\ dlRaced \subseteq dlRaced'
        /\ dlRaced' \subseteq Accounts
        /\ \A v \in Accounts : v # u => dlDate'[v] = dlDate[v]
        /\ dlDate' = dlDate \/ (u \in dlRun.left => u \in dlRaced')
    BY <1>0, <2>1, <2>2 DEF DeletionTypeOK, Dates
  <2>5. DeletionTypeOK'
    BY <2>1, <2>3, <2>4 DEF DeletionTypeOK
  <2>6. AskersKnown'
    BY <2>1, <2>3, <2>4 DEF AskersKnown, NoCall, DeletionTypeOK
  <2>7. StillDue'
    BY <2>1, <2>2, <2>4 DEF StillDue, DeletionTypeOK
  <2>8. CancelStands'
    <3>1. ASSUME NEW v \in dlPurged \ dlRaced', v \in dlBanned PROVE dlDate'[v] = "past"
      <4>1. v # u /\ v \in Accounts /\ dlDate[v] = "past"
        BY <2>2, <2>4, <3>1 DEF CancelStands, DeletionTypeOK
      <4> QED BY <2>4, <4>1
    <3> QED BY <2>1, <3>1 DEF CancelStands
  <2> QED BY <2>5, <2>6, <2>7, <2>8
<1>4. ASSUME NEW u \in Accounts, GraceEnds(u)
      PROVE  DeletionTypeOK' /\ StillDue' /\ AskersKnown' /\ CancelStands'
  BY <1>4 DEF GraceEnds, DeletionTypeOK, Dates, StillDue, AskersKnown, CancelStands
<1>5. ASSUME NEW u \in Accounts, PurgeOne(u)
      PROVE  DeletionTypeOK' /\ StillDue' /\ AskersKnown' /\ CancelStands'
  BY <1>5 DEF PurgeOne, LeftAfter, Asking, DeletionTypeOK, StillDue, AskersKnown, CancelStands
<1>6. ASSUME NEW u \in Accounts, Ban(u) \/ Unban(u)
      PROVE  DeletionTypeOK' /\ StillDue' /\ AskersKnown' /\ CancelStands'
  BY <1>6 DEF Ban, Unban, DeletionTypeOK, StillDue, AskersKnown, CancelStands
<1>7. CASE PurgeStarts
  BY <1>7 DEF PurgeStarts, Expired, DeletionTypeOK, StillDue, AskersKnown, CancelStands
<1>8. CASE PurgeEnds
  BY <1>8 DEF PurgeEnds, DeletionTypeOK, StillDue, AskersKnown, CancelStands
<1>9. CASE PurgeFails
  BY <1>9 DEF PurgeFails, DeletionTypeOK, StillDue, AskersKnown, CancelStands
<1>10. CASE UNCHANGED deletionVars
  BY <1>10 DEF deletionVars, DeletionTypeOK, StillDue, AskersKnown, CancelStands
<1> QED BY <1>1, <1>2, <1>3, <1>4, <1>5, <1>6, <1>7, <1>8, <1>9, <1>10 DEF DeletionNext

\* The job bans nobody who changed his mind or whose days of grace are not over, unless
\* the date was saved between its query and its save, or was about to be at its save:
\* for every number of accounts and of requests.
THEOREM CancelsStand == DeletionSpec => [](DeletionTypeOK /\ CancelStands)
<1>1. DeletionInv => DeletionTypeOK /\ CancelStands
  BY DEF DeletionInv
<1> QED BY <1>1, DeletionInitial, DeletionStep, PTL DEF DeletionSpec

-----------------------------------------------------------------------------
(* Sessions.                                                               *)

\* What each request has in hand: the token it read was issued once, and the one it
\* issued waits for its commit, with the same session, in no other hand.
HandsHoldTokens ==
    \A d \in Devices :
      /\ seHand[d].at = "idle" => seHand[d] = Away
      /\ seHand[d].at \in {"read", "issued"} =>
           seHand[d].token \in Tokens /\ seToken[seHand[d].token] \in {"live", "revoked"}
      /\ seHand[d].at = "issued" =>
           /\ seHand[d].next \in Tokens
           /\ seToken[seHand[d].next] = "new" /\ seSince[seHand[d].next] = seHand[d].since
           /\ \A e \in Devices \ {d} :
                seHand[e].at = "issued" => seHand[e].next # seHand[d].next
      /\ seHand[d].at # "issued" => seHand[d].next = NULL

\* A session that was in nobody's hands when the last reset was over is younger.
YoungerThanReset ==
    /\ seRelogin =< sePassword
    /\ \A t \in Tokens \ seLate : seToken[t] = "live" => seSince[t] >= seRelogin
    /\ \A d \in Devices :
         seHand[d].at # "idle" /\ ~seHand[d].late => seHand[d].since >= seRelogin

SessionInv == SessionTypeOK /\ HandsHoldTokens /\ YoungerThanReset

\* The initial states satisfy SessionInv.
LEMMA SessionInitial == SessionInit => SessionInv
<1> SUFFICES ASSUME SessionInit PROVE SessionTypeOK /\ HandsHoldTokens /\ YoungerThanReset
  BY DEF SessionInv
<1> USE SessionAssumption DEF SessionInit
<1>1. SessionTypeOK
  <2>1. Away \in [at : {"idle", "verified", "read", "issued"},
                  token : Tokens \cup {NULL}, next : Tokens \cup {NULL},
                  since : 0..MaxPassword, late : BOOLEAN]
    BY 0 \in 0..MaxPassword DEF Away
  <2>2. sePassword \in 0..MaxPassword /\ seRelogin \in 0..MaxPassword
    OBVIOUS
  <2>3. seToken \in [Tokens -> {"absent", "new", "live", "revoked"}]
    OBVIOUS
  <2>4. seSince \in [Tokens -> 0..MaxPassword]
    OBVIOUS
  <2>5. seHand \in [Devices -> [at : {"idle", "verified", "read", "issued"},
                  token : Tokens \cup {NULL}, next : Tokens \cup {NULL},
                  since : 0..MaxPassword, late : BOOLEAN]]
    BY <2>1
  <2>6. seReset \in BOOLEAN /\ seLate \subseteq Tokens
    OBVIOUS
  <2> QED BY <2>2, <2>3, <2>4, <2>5, <2>6 DEF SessionTypeOK
<1>2. HandsHoldTokens
  BY DEF HandsHoldTokens, Away
<1>3. YoungerThanReset
  BY DEF YoungerThanReset, Away
<1> QED BY <1>1, <1>2, <1>3

\* Every step of SessionNext keeps SessionInv.
LEMMA SessionStep == SessionInv /\ [SessionNext]_sessionVars => SessionInv'
<1> SUFFICES ASSUME SessionTypeOK, HandsHoldTokens, YoungerThanReset, [SessionNext]_sessionVars
             PROVE  SessionTypeOK' /\ HandsHoldTokens' /\ YoungerThanReset'
  BY DEF SessionInv
<1> USE SessionAssumption DEF SessionTypeOK
<1>1. ASSUME NEW d \in Devices, Verify(d)
      PROVE  SessionTypeOK' /\ HandsHoldTokens' /\ YoungerThanReset'
  <2>1. SessionTypeOK'
    BY <1>1 DEF Verify, Away
  <2>2. HandsHoldTokens'
    BY <1>1 DEF Verify, HandsHoldTokens, Away
  <2>3. YoungerThanReset'
    BY <1>1 DEF Verify, YoungerThanReset, Away
  <2> QED BY <2>1, <2>2, <2>3
<1>2. ASSUME NEW d \in Devices, NEW t \in Tokens, LogIn(d, t)
      PROVE  SessionTypeOK' /\ HandsHoldTokens' /\ YoungerThanReset'
  <2>1. SessionTypeOK'
    BY <1>2 DEF LogIn, Away, MarkLate
  <2>2. HandsHoldTokens'
    BY <1>2 DEF LogIn, HandsHoldTokens, Away
  <2>3. YoungerThanReset'
    BY <1>2 DEF LogIn, YoungerThanReset, Away, MarkLate
  <2> QED BY <2>1, <2>2, <2>3
<1>3. ASSUME NEW d \in Devices, NEW t \in Tokens, ReadToken(d, t)
      PROVE  SessionTypeOK' /\ HandsHoldTokens' /\ YoungerThanReset'
  <2>1. SessionTypeOK'
    BY <1>3 DEF ReadToken, Away
  <2>2. HandsHoldTokens'
    BY <1>3 DEF ReadToken, HandsHoldTokens, Away
  <2>3. YoungerThanReset'
    BY <1>3 DEF ReadToken, YoungerThanReset, Away
  <2> QED BY <2>1, <2>2, <2>3
<1>4. ASSUME NEW d \in Devices, NEW t \in Tokens, IssueNext(d, t)
      PROVE  SessionTypeOK' /\ HandsHoldTokens' /\ YoungerThanReset'
  <2>1. SessionTypeOK'
    BY <1>4 DEF IssueNext
  <2>2. HandsHoldTokens'
    BY <1>4 DEF IssueNext, HandsHoldTokens, Away
  <2>3. YoungerThanReset'
    BY <1>4 DEF IssueNext, YoungerThanReset
  <2> QED BY <2>1, <2>2, <2>3
<1>5. ASSUME NEW d \in Devices, Rotate(d)
      PROVE  SessionTypeOK' /\ HandsHoldTokens' /\ YoungerThanReset'
  <2>1. SessionTypeOK'
    BY <1>5 DEF Rotate, MarkLate, Away, HandsHoldTokens
  <2>2. HandsHoldTokens'
    BY <1>5 DEF Rotate, HandsHoldTokens, Away
  <2>3. YoungerThanReset'
    BY <1>5 DEF Rotate, MarkLate, YoungerThanReset, HandsHoldTokens, Away
  <2> QED BY <2>1, <2>2, <2>3
<1>6. ASSUME NEW d \in Devices, Abandon(d)
      PROVE  SessionTypeOK' /\ HandsHoldTokens' /\ YoungerThanReset'
  <2>1. SessionTypeOK'
    BY <1>6 DEF Abandon, Away
  <2>2. HandsHoldTokens'
    BY <1>6 DEF Abandon, HandsHoldTokens, Away
  <2>3. YoungerThanReset'
    BY <1>6 DEF Abandon, YoungerThanReset, Away
  <2> QED BY <2>1, <2>2, <2>3
<1>7. ASSUME NEW t \in Tokens, EndSession(t)
      PROVE  SessionTypeOK' /\ HandsHoldTokens' /\ YoungerThanReset'
  BY <1>7 DEF EndSession, HandsHoldTokens, YoungerThanReset
<1>8. CASE ChangePassword
  BY <1>8 DEF ChangePassword, HandsHoldTokens, YoungerThanReset
<1>9. CASE StartReset
  BY <1>9 DEF StartReset, ResetStep, ResetSteps, SaveNew, HandsHoldTokens, YoungerThanReset
<1>10. CASE FinishReset
  <2>1. RevokeAll /\ seRelogin' = sePassword /\ seSince' = seSince /\ seReset' = FALSE
    BY <1>10 DEF FinishReset, ResetStep, ResetSteps, RevokeAll
  <2>2. SessionTypeOK'
    <3>1. seToken' \in [Tokens -> {"absent", "new", "live", "revoked"}]
      BY <2>1 DEF RevokeAll
    <3>2. seHand' \in [Devices -> [at : {"idle", "verified", "read", "issued"},
                     token : Tokens \cup {NULL}, next : Tokens \cup {NULL},
                     since : 0..MaxPassword, late : BOOLEAN]]
      <4> DEFINE late(h) == IF h = Away THEN Away ELSE [h EXCEPT !.late = TRUE]
      <4>1. \A h \in [at : {"idle", "verified", "read", "issued"},
                       token : Tokens \cup {NULL}, next : Tokens \cup {NULL},
                       since : 0..MaxPassword, late : BOOLEAN] :
              late(h) \in [at : {"idle", "verified", "read", "issued"},
                           token : Tokens \cup {NULL}, next : Tokens \cup {NULL},
                           since : 0..MaxPassword, late : BOOLEAN]
        OBVIOUS
      <4>2. seHand' = [d \in Devices |-> late(seHand[d])]
        BY <2>1, Zenon DEF RevokeAll
      <4> HIDE DEF late
      <4> QED BY <4>1, <4>2
    <3> QED BY <2>1, <3>1, <3>2 DEF RevokeAll
  <2>3. HandsHoldTokens'
    BY <2>1 DEF RevokeAll, HandsHoldTokens, Away
  <2>4. YoungerThanReset'
    BY <2>1 DEF RevokeAll, YoungerThanReset, HandsHoldTokens, Away
  <2> QED BY <2>2, <2>3, <2>4
<1>11. CASE ResetBreaks
  BY <1>11 DEF ResetBreaks, HandsHoldTokens, YoungerThanReset
<1>12. CASE UNCHANGED sessionVars
  BY <1>12 DEF sessionVars, HandsHoldTokens, YoungerThanReset
<1> QED
  BY <1>1, <1>2, <1>3, <1>4, <1>5, <1>6, <1>7, <1>8, <1>9, <1>10, <1>11, <1>12 DEF SessionNext

\* Once a reset is over, sessions were opened with its password or a later one, but for
\* those of requests that had read before it revoked: for every number of devices and tokens.
THEOREM SessionsEnded == SessionSpec => [](SessionTypeOK /\ ResetEndsSessions)
<1>1. SessionInit => SessionInv
  BY SessionInitial
<1>2. SessionInv /\ [SessionNext]_sessionVars => SessionInv'
  BY SessionStep
<1>3. SessionInv => SessionTypeOK /\ ResetEndsSessions
  BY DEF SessionInv, YoungerThanReset, ResetEndsSessions
<1> QED BY <1>1, <1>2, <1>3, PTL DEF SessionSpec

-----------------------------------------------------------------------------
(* Roles.                                                                  *)

\* A review that is alone with its request finds it pending, and one that found the
\* role given has still nothing to give.
ReviewsInHand ==
    \A v \in Reviewers : rlHand[v].at # "idle" =>
      /\ ~rlHand[v].new => Sought(rlHand[v].req) \in rlRole \cup rlRevoked
      /\ rlHand[v].req \notin rlOverlap =>
           /\ rlStatus[rlHand[v].req] = "pending"
           /\ \A w \in Reviewers \ {v} :
                rlHand[w].at # "idle" => rlHand[w].req # rlHand[v].req

RoleInv == RoleTypeOK /\ ReviewsInHand /\ RolesMatchReviews

\* What a request seeks is a grant.
LEMMA SoughtIsAGrant == \A r \in RoleRequests : Sought(r) \in Grants
BY RoleAssumption DEF RoleRequests, Sought, Grants

\* The initial states satisfy RoleInv.
LEMMA RoleInitial == RoleInit => RoleInv
<1>1. RoleInit => RoleTypeOK
  BY DEF RoleInit, RoleTypeOK
<1>2. RoleInit => ReviewsInHand
  BY DEF RoleInit, ReviewsInHand, NoReview
<1>3. RoleInit => RolesMatchReviews
  BY DEF RoleInit, RolesMatchReviews
<1> QED BY <1>1, <1>2, <1>3 DEF RoleInv

\* Every step of RoleNext keeps RoleInv.
LEMMA RoleStep == RoleInv /\ [RoleNext]_roleVars => RoleInv'
<1> SUFFICES ASSUME RoleTypeOK, ReviewsInHand, RolesMatchReviews, [RoleNext]_roleVars
             PROVE  RoleTypeOK' /\ ReviewsInHand' /\ RolesMatchReviews'
  BY DEF RoleInv
<1> USE SoughtIsAGrant, DirectAssumption
<1>1. ASSUME NEW r \in RoleRequests, LookForPending(r)
      PROVE  RoleTypeOK' /\ ReviewsInHand' /\ RolesMatchReviews'
  <2>1. RoleTypeOK'
    BY <1>1 DEF LookForPending, RoleTypeOK
  <2>2. ReviewsInHand'
    BY <1>1 DEF LookForPending, ReviewsInHand, RoleTypeOK
  <2>3. RolesMatchReviews'
    BY <1>1 DEF LookForPending, RolesMatchReviews, RoleTypeOK
  <2> QED BY <2>1, <2>2, <2>3
<1>2. ASSUME NEW r \in RoleRequests, Submitted(r)
      PROVE  RoleTypeOK' /\ ReviewsInHand' /\ RolesMatchReviews'
  <2>1. RoleTypeOK'
    BY <1>2 DEF Submitted, RoleTypeOK
  <2>2. ReviewsInHand'
    BY <1>2 DEF Submitted, ReviewsInHand, RoleTypeOK
  <2>3. RolesMatchReviews'
    BY <1>2 DEF Submitted, RolesMatchReviews, RoleTypeOK
  <2> QED BY <2>1, <2>2, <2>3
<1>3. ASSUME NEW v \in Reviewers, NEW r \in RoleRequests, ReadForReview(v, r)
      PROVE  RoleTypeOK' /\ ReviewsInHand' /\ RolesMatchReviews'
  <2>1. RoleTypeOK'
    BY <1>3 DEF ReadForReview, RoleTypeOK, Reviewable, NoReview
  <2>2. ReviewsInHand'
    BY <1>3 DEF ReadForReview, ReviewsInHand, RoleTypeOK, Reviewable, NoReview
  <2>3. RolesMatchReviews'
    BY <1>3 DEF ReadForReview, RolesMatchReviews, RoleTypeOK, Reviewable, NoReview
  <2> QED BY <2>1, <2>2, <2>3
<1>4. ASSUME NEW v \in Reviewers, NEW to \in {"approved", "rejected"}, SaveReview(v, to)
      PROVE  RoleTypeOK' /\ ReviewsInHand' /\ RolesMatchReviews'
  <2>1. RoleTypeOK'
    <3>1. /\ rlHand'[v] = [rlHand[v] EXCEPT !.at = "saved", !.to = to]
          /\ rlHand'[v] \in [at : {"read", "saved"}, req : RoleRequests,
                             to : {"pending", "approved", "rejected"}, new : BOOLEAN]
      <4>1. rlHand[v] \in [at : {"read", "saved"}, req : RoleRequests,
                           to : {"pending", "approved", "rejected"}, new : BOOLEAN]
        BY <1>4 DEF SaveReview, RoleTypeOK, NoReview
      <4>2. rlHand'[v] = [rlHand[v] EXCEPT !.at = "saved", !.to = to]
        BY <1>4 DEF SaveReview, RoleTypeOK
      <4> QED BY <4>1, <4>2
    <3>2. rlHand' = [rlHand EXCEPT ![v] = rlHand'[v]]
      BY <1>4, <3>1 DEF SaveReview, RoleTypeOK
    <3> QED BY <1>4, <3>1, <3>2 DEF SaveReview, RoleTypeOK
  <2>2. ReviewsInHand'
    BY <1>4 DEF SaveReview, ReviewsInHand, RoleTypeOK, NoReview
  <2>3. RolesMatchReviews'
    BY <1>4 DEF SaveReview, RolesMatchReviews, RoleTypeOK, NoReview
  <2> QED BY <2>1, <2>2, <2>3
<1>5. ASSUME NEW v \in Reviewers, CommitReview(v)
      PROVE  RoleTypeOK' /\ ReviewsInHand' /\ RolesMatchReviews'
  <2>1. RoleTypeOK'
    BY <1>5 DEF CommitReview, RoleTypeOK, NewRole, Granted, NoReview
  <2>2. ReviewsInHand'
    BY <1>5 DEF CommitReview, ReviewsInHand, RoleTypeOK, NewRole, Granted, NoReview
  <2>3. RolesMatchReviews'
    <3> DEFINE q == rlHand[v].req
               to == rlHand[v].to
    <3>1. /\ q \in RoleRequests /\ rlHand[v].at # "idle"
          /\ q \notin rlOverlap => rlStatus[q] = "pending"
          /\ ~rlHand[v].new => Sought(q) \in rlRole \cup rlRevoked
      BY <1>5 DEF CommitReview, RoleTypeOK, NoReview, ReviewsInHand
    <3>2. /\ \A r \in RoleRequests : rlStatus'[r] = IF r = q THEN to ELSE rlStatus[r]
          /\ rlProfile' = IF to = "approved" THEN rlProfile \cup {Sought(q)} ELSE rlProfile
          /\ rlRole' = rlRole \cup NewRole(v) /\ rlRevoked' = rlRevoked \ NewRole(v)
          /\ rlOverlap' = rlOverlap /\ rlAssigned' = rlAssigned
      BY <1>5 DEF CommitReview, RoleTypeOK, Granted
    <3>3. /\ to = "approved" => Sought(q) \in rlRole \cup rlRevoked \cup NewRole(v)
          /\ NewRole(v) \subseteq {Sought(q)} /\ (NewRole(v) # {} => to = "approved")
      BY <3>1 DEF NewRole, Granted
    <3>4. ASSUME NEW r \in RoleRequests, rlStatus'[r] = "approved"
          PROVE  Sought(r) \in rlProfile' /\ Sought(r) \in rlRole' \cup rlRevoked'
      BY <3>2, <3>3, <3>4 DEF RolesMatchReviews
    <3>5. ASSUME NEW g \in rlRole' \ rlAssigned'
          PROVE  \E r \in RoleRequests :
                   Sought(r) = g /\ (rlStatus'[r] = "approved" \/ r \in rlOverlap')
      BY <3>1, <3>2, <3>3, <3>5 DEF RolesMatchReviews
    <3> QED BY <3>4, <3>5 DEF RolesMatchReviews
  <2> QED BY <2>1, <2>2, <2>3
<1>6. ASSUME NEW v \in Reviewers, ReviewFails(v)
      PROVE  RoleTypeOK' /\ ReviewsInHand' /\ RolesMatchReviews'
  <2>1. RoleTypeOK'
    BY <1>6 DEF ReviewFails, RoleTypeOK, NoReview
  <2>2. ReviewsInHand'
    BY <1>6 DEF ReviewFails, ReviewsInHand, RoleTypeOK, NoReview
  <2>3. RolesMatchReviews'
    BY <1>6 DEF ReviewFails, RolesMatchReviews, RoleTypeOK, NoReview
  <2> QED BY <2>1, <2>2, <2>3
<1>7. ASSUME NEW g \in Direct, AssignRole(g)
      PROVE  RoleTypeOK' /\ ReviewsInHand' /\ RolesMatchReviews'
  <2>1. RoleTypeOK'
    BY <1>7 DEF AssignRole, RoleTypeOK
  <2>2. ReviewsInHand'
    BY <1>7 DEF AssignRole, ReviewsInHand, RoleTypeOK
  <2>3. RolesMatchReviews'
    BY <1>7 DEF AssignRole, RolesMatchReviews, RoleTypeOK
  <2> QED BY <2>1, <2>2, <2>3
<1>8. ASSUME NEW g \in Direct, RevokeRole(g)
      PROVE  RoleTypeOK' /\ ReviewsInHand' /\ RolesMatchReviews'
  <2>1. RoleTypeOK'
    BY <1>8 DEF RevokeRole, RoleTypeOK
  <2>2. ReviewsInHand'
    BY <1>8 DEF RevokeRole, ReviewsInHand, RoleTypeOK
  <2>3. RolesMatchReviews'
    BY <1>8 DEF RevokeRole, RolesMatchReviews, RoleTypeOK
  <2> QED BY <2>1, <2>2, <2>3
<1>9. CASE UNCHANGED roleVars
  <2>1. RoleTypeOK'
    BY <1>9 DEF roleVars, RoleTypeOK
  <2>2. ReviewsInHand'
    BY <1>9 DEF roleVars, ReviewsInHand, RoleTypeOK
  <2>3. RolesMatchReviews'
    BY <1>9 DEF roleVars, RolesMatchReviews, RoleTypeOK
  <2> QED BY <2>1, <2>2, <2>3
<1> QED BY <1>1, <1>2, <1>3, <1>4, <1>5, <1>6, <1>7, <1>8, <1>9 DEF RoleNext, ApplyAsArtist, ApplyAsManager,
     ReviewArtistRequest, ReviewManagerRequest, Review, RoleRequests

\* A user whose request reads approved has the role and the profile; who has the role
\* was given it, or two reviews had a request in hand at once.
THEOREM RolesFollowReviews == RoleSpec => [](RoleTypeOK /\ RolesMatchReviews)
<1>1. RoleInit => RoleInv
  BY RoleInitial
<1>2. RoleInv /\ [RoleNext]_roleVars => RoleInv'
  BY RoleStep
<1>3. RoleInv => RoleTypeOK /\ RolesMatchReviews
  BY DEF RoleInv
<1> QED BY <1>1, <1>2, <1>3, PTL DEF RoleSpec

-----------------------------------------------------------------------------
(* Subscriptions.                                                          *)

\* Events are said before they are applied, and applied before they are processed.
EventsInTurn ==
    /\ suProcessed \subseteq suApplied
    /\ \A s \in Subscriptions, n \in 1..MaxEvents : <<s, n>> \in suApplied => n =< Len(suSaid[s])
    /\ \A w \in Webhooks : suHandler[w].at # "idle" =>
         /\ suHandler[w].event[2] =< Len(suSaid[suHandler[w].event[1]])
         /\ suHandler[w].at = "applied" => suHandler[w].event \in suApplied

\* A subscription whose events came in order has a row since its checkout was applied,
\* which one handler has at a time, and is as its last event said.
Orderly == {s \in Subscriptions :
    /\ suRows[s] = IF <<s, 1>> \in suApplied THEN 1 ELSE 0
    /\ \A w \in Webhooks :
         suHandler[w].at = "claimed" /\ suHandler[w].event = <<s, 1>> =>
           /\ <<s, 1>> \notin suApplied
           /\ \A x \in Webhooks \ {w} :
                suHandler[x].at # "idle" => suHandler[x].event # <<s, 1>>
    /\ \A n \in 1..MaxEvents :
         /\ <<s, n>> \in suApplied
         /\ \A k \in 1..MaxEvents : <<s, k>> \in suApplied => k =< n
         => suActive[s] = IF suSaid[s][n] THEN suRows[s] ELSE 0}

AsLastApplied ==
    /\ \A s \in Subscriptions : suActive[s] =< suRows[s]
    /\ Subscriptions \ suDisordered \subseteq Orderly

\* A subscription begins with its checkout.
BeginsActive == \A s \in Subscriptions : Len(suSaid[s]) > 0 => suSaid[s][1]

SubscriptionInv == SubscriptionTypeOK /\ EventsInTurn /\ AsLastApplied /\ BeginsActive

\* The initial states satisfy SubscriptionInv.
LEMMA SubscriptionInitial == SubscriptionInit => SubscriptionInv
<1> SUFFICES ASSUME SubscriptionInit
             PROVE SubscriptionTypeOK /\ EventsInTurn /\ AsLastApplied /\ BeginsActive
  BY DEF SubscriptionInv
<1> USE SubscriptionAssumption DEF SubscriptionInit
<1>1. SubscriptionTypeOK
  <2>1. suSaid \in [Subscriptions -> Seq(BOOLEAN)] /\ \A s \in Subscriptions : Len(suSaid[s]) = 0
    <3>1. <<>> \in Seq(BOOLEAN) /\ Len(<<>>) = 0
      OBVIOUS
    <3> QED BY <3>1
  <2>2. suHandler \in [Webhooks -> {NoEvent} \cup [at : {"claimed", "applied"}, event : Events]]
    OBVIOUS
  <2>3. suRows \in [Subscriptions -> 0..2] /\ suActive \in [Subscriptions -> 0..2]
    OBVIOUS
  <2>4. suFree \in BOOLEAN /\ suProcessed = {} /\ suApplied = {} /\ suDisordered = {} /\ suRead = NULL
    OBVIOUS
  <2> QED BY <2>1, <2>2, <2>3, <2>4 DEF SubscriptionTypeOK
<1>2. EventsInTurn
  BY DEF EventsInTurn, NoEvent
<1>3. AsLastApplied
  BY DEF AsLastApplied, Orderly, NoEvent
<1>4. BeginsActive
  BY DEF BeginsActive
<1> QED BY <1>1, <1>2, <1>3, <1>4

\* What Stripe said it does not take back.
LEMMA SaidGrows ==
    ASSUME SubscriptionTypeOK, NEW s \in Subscriptions, NEW active \in BOOLEAN,
           StripeSays(s, active)
    PROVE  /\ suSaid' \in [Subscriptions -> Seq(BOOLEAN)]
           /\ \A x \in Subscriptions :
                /\ Len(suSaid'[x]) =< MaxEvents /\ Len(suSaid[x]) =< Len(suSaid'[x])
                /\ \A n \in 1..Len(suSaid[x]) : suSaid'[x][n] = suSaid[x][n]
           /\ Len(suSaid[s]) = 0 => suSaid'[s][1] = active
<1>1. suSaid[s] \in Seq(BOOLEAN) /\ Len(suSaid[s]) < MaxEvents
      /\ suSaid' = [suSaid EXCEPT ![s] = Append(suSaid[s], active)]
  BY DEF SubscriptionTypeOK, StripeSays
<1>2. /\ Append(suSaid[s], active) \in Seq(BOOLEAN)
      /\ Len(Append(suSaid[s], active)) = Len(suSaid[s]) + 1 /\ Len(suSaid[s]) \in Nat
      /\ \A n \in 1..Len(suSaid[s]) : Append(suSaid[s], active)[n] = suSaid[s][n]
      /\ Append(suSaid[s], active)[Len(suSaid[s]) + 1] = active
  BY <1>1
<1>3. \A x \in Subscriptions : suSaid[x] \in Seq(BOOLEAN) /\ Len(suSaid[x]) \in Nat
                               /\ Len(suSaid[x]) =< MaxEvents
  BY DEF SubscriptionTypeOK
<1>4. suSaid'[s] = Append(suSaid[s], active)
      /\ \A x \in Subscriptions : x # s => suSaid'[x] = suSaid[x]
  BY <1>1 DEF SubscriptionTypeOK
<1>5. suSaid' \in [Subscriptions -> Seq(BOOLEAN)]
  BY <1>1, <1>2 DEF SubscriptionTypeOK
<1> QED BY <1>1, <1>2, <1>3, <1>4, <1>5, SubscriptionAssumption

\* Nothing else changes when Stripe says something.
LEMMA SaidIsKept ==
    ASSUME SubscriptionInv, NEW s \in Subscriptions, NEW active \in BOOLEAN,
           StripeSays(s, active), Len(suSaid[s]) = 0 => active,
           UNCHANGED <<suProcessed, suHandler, suRows, suActive, suRead, suApplied,
                       suDisordered>>, suFree' \in BOOLEAN
    PROVE  SubscriptionInv'
<1> USE SubscriptionAssumption
<1>1. \A x \in Subscriptions : suSaid[x] \in Seq(BOOLEAN) /\ Len(suSaid[x]) \in Nat
                               /\ Len(suSaid'[x]) \in Nat
  BY SaidGrows DEF SubscriptionInv, SubscriptionTypeOK
<1>2. SubscriptionTypeOK'
  BY SaidGrows DEF SubscriptionInv, SubscriptionTypeOK, NoEvent, Events
<1>3. EventsInTurn'
  <2>1. \A w \in Webhooks : suHandler[w].at # "idle" => suHandler[w].event[1] \in Subscriptions
                                /\ suHandler[w].event[2] \in Nat
    BY DEF SubscriptionInv, SubscriptionTypeOK, Events, NoEvent
  <2>2. \A x \in Subscriptions, n \in Nat : n =< Len(suSaid[x]) => n =< Len(suSaid'[x])
    BY <1>1, SaidGrows DEF SubscriptionInv
  <2> QED BY <2>1, <2>2 DEF SubscriptionInv, EventsInTurn
<1>4. AsLastApplied'
  <2>1. \A x \in Subscriptions, n \in 1..MaxEvents :
          <<x, n>> \in suApplied => suSaid'[x][n] = suSaid[x][n]
    BY <1>1, SaidGrows DEF SubscriptionInv, EventsInTurn
  <2> QED BY <2>1 DEF SubscriptionInv, AsLastApplied, Orderly
<1>5. BeginsActive'
  BY <1>1, SaidGrows DEF SubscriptionInv, BeginsActive, StripeSays, SubscriptionTypeOK
<1> QED BY <1>2, <1>3, <1>4, <1>5 DEF SubscriptionInv

\* Every step of SubscriptionNext keeps SubscriptionInv.
LEMMA SubscriptionStep == SubscriptionInv /\ [SubscriptionNext]_subscriptionVars => SubscriptionInv'
<1> SUFFICES ASSUME SubscriptionTypeOK, EventsInTurn, AsLastApplied, BeginsActive, [SubscriptionNext]_subscriptionVars
             PROVE  SubscriptionTypeOK' /\ EventsInTurn' /\ AsLastApplied' /\ BeginsActive'
  BY DEF SubscriptionInv
<1> USE SubscriptionAssumption
<1>1. ASSUME NEW s \in Subscriptions, CheckedOut(s)
      PROVE  SubscriptionTypeOK' /\ EventsInTurn' /\ AsLastApplied' /\ BeginsActive'
  BY <1>1, SaidIsKept DEF CheckedOut, SubscriptionInv, SubscriptionTypeOK
<1>2. ASSUME NEW s \in Subscriptions, NEW active \in BOOLEAN, StripeChanges(s, active)
      PROVE  SubscriptionTypeOK' /\ EventsInTurn' /\ AsLastApplied' /\ BeginsActive'
  <2>1. Len(suSaid[s]) # 0
    BY <1>2 DEF StripeChanges, SubscriptionTypeOK
  <2> QED BY <1>2, <2>1, SaidIsKept DEF StripeChanges, SubscriptionInv, SubscriptionTypeOK
<1>3. ASSUME NEW w \in Webhooks, NEW e \in Events, ClaimEvent(w, e)
      PROVE  SubscriptionTypeOK' /\ EventsInTurn' /\ AsLastApplied' /\ BeginsActive'
  <2>1. SubscriptionTypeOK'
    BY <1>3 DEF ClaimEvent, SubscriptionTypeOK, NoEvent, Events, Sent, Fresh
  <2>2. EventsInTurn'
    BY <1>3 DEF ClaimEvent, EventsInTurn, NoEvent, Events, Sent, Fresh
  <2>3. AsLastApplied'
    BY <1>3 DEF ClaimEvent, AsLastApplied, Orderly, NoEvent, Events, Sent, Fresh
  <2>4. BeginsActive'
    BY <1>3 DEF ClaimEvent, BeginsActive, NoEvent, Events, Sent, Fresh
  <2> QED BY <2>1, <2>2, <2>3, <2>4
<1>4. ASSUME NEW w \in Webhooks, ApplyEvent(w)
      PROVE  SubscriptionTypeOK' /\ EventsInTurn' /\ AsLastApplied' /\ BeginsActive'
  <2> DEFINE e == suHandler[w].event
             y == e[1]
             m == e[2]
  <2>1. /\ suHandler[w] \in [at : {"claimed", "applied"}, event : Events]
        /\ suHandler[w].at = "claimed"
        /\ y \in Subscriptions /\ m \in 1..MaxEvents /\ e = <<y, m>>
    BY <1>4 DEF ApplyEvent, SubscriptionTypeOK, NoEvent, Events
  <2>0. /\ suRows[y] \in 0..2 /\ suActive[y] \in 0..2 /\ suActive[y] =< suRows[y]
        /\ m = 1 => /\ suRows[y] + 1 \in 0..2 /\ suActive[y] + 1 \in 0..2
                    /\ suRows' = [suRows EXCEPT ![y] = suRows[y] + 1]
                    /\ suActive' = [suActive EXCEPT ![y] = suActive[y] + 1]
        /\ m # 1 => /\ suRows' = suRows
                    /\ suActive' = [suActive EXCEPT ![y] = IF suSaid[y][m] THEN suRows[y] ELSE 0]
    <3>1. suRows[y] \in 0..2 /\ suActive[y] \in 0..2 /\ suActive[y] =< suRows[y]
      BY <2>1 DEF SubscriptionTypeOK, AsLastApplied
    <3>2. CASE m = 1
      <4>1. suRows[y] < 2 /\ suRows' = [suRows EXCEPT ![y] = suRows[y] + 1]
            /\ suActive' = [suActive EXCEPT ![y] = suActive[y] + 1]
        BY <1>4, <3>2 DEF ApplyEvent
      <4> QED BY <3>1, <3>2, <4>1
    <3>3. CASE m # 1
      BY <1>4, <3>1, <3>3 DEF ApplyEvent
    <3> QED BY <2>1, <3>2, <3>3
  <2>2. /\ \A x \in Webhooks : x # w => suHandler'[x] = suHandler[x]
        /\ suHandler'[w].at = "applied" /\ suHandler'[w].event = e
        /\ UNCHANGED <<suSaid, suProcessed, suFree, suRead>>
        /\ suApplied' = suApplied \cup {e}
    BY <1>4, <2>1 DEF ApplyEvent, SubscriptionTypeOK
  <2>3. SubscriptionTypeOK'
    <3>1. suHandler' \in [Webhooks -> {NoEvent} \cup [at : {"claimed", "applied"}, event : Events]]
      BY <1>4, <2>1 DEF ApplyEvent, SubscriptionTypeOK
    <3>2. suRows' \in [Subscriptions -> 0..2] /\ suActive' \in [Subscriptions -> 0..2]
      <4>1. suRows \in [Subscriptions -> 0..2] /\ suActive \in [Subscriptions -> 0..2]
        BY DEF SubscriptionTypeOK
      <4>2. (IF suSaid[y][m] THEN suRows[y] ELSE 0) \in 0..2
        BY <2>0
      <4>3. CASE m = 1
        BY <2>0, <2>1, <4>1, <4>3
      <4>4. CASE m # 1
        BY <2>0, <2>1, <4>1, <4>2, <4>4
      <4> QED BY <4>3, <4>4
    <3>3. suApplied' \subseteq Events /\ suDisordered' \subseteq Subscriptions
      BY <1>4, <2>1, <2>2 DEF ApplyEvent, SubscriptionTypeOK
    <3> QED BY <2>2, <3>1, <3>2, <3>3 DEF SubscriptionTypeOK
  <2>4. EventsInTurn'
    BY <2>1, <2>2 DEF EventsInTurn
  <2>5. AsLastApplied'
    <3>1. \A x \in Subscriptions : x # y =>
            suRows'[x] = suRows[x] /\ suActive'[x] = suActive[x]
      BY <2>0, <2>1 DEF SubscriptionTypeOK
    <3>2. /\ \A x \in Subscriptions \ {y} : x \in suDisordered' <=> x \in suDisordered
          /\ \A x \in Subscriptions : x \in suDisordered => x \in suDisordered'
          /\ y \notin suDisordered' =>
               \A k \in 1..MaxEvents : <<y, k>> \in suApplied => ~(k > m)
      BY <1>4, <2>1 DEF ApplyEvent, SubscriptionTypeOK
    <3>3. suRows'[y] = (IF m = 1 THEN suRows[y] + 1 ELSE suRows[y])
          /\ suActive'[y] = (IF m = 1 THEN suActive[y] + 1 ELSE IF suSaid[y][m] THEN suRows[y] ELSE 0)
      BY <2>0, <2>1 DEF SubscriptionTypeOK
    <3>4. ASSUME NEW x \in Subscriptions PROVE suActive'[x] =< suRows'[x]
      <4>1. CASE x # y
        BY <3>1, <4>1 DEF AsLastApplied
      <4>2. CASE x = y
        BY <2>0, <3>3, <4>2
      <4> QED BY <4>1, <4>2
    <3>5. ASSUME NEW x \in Subscriptions \ suDisordered', x # y
          PROVE  x \in Orderly'
      <4>1. \A n \in 1..MaxEvents : <<x, n>> \in suApplied' <=> <<x, n>> \in suApplied
        BY <2>1, <2>2, <3>5
      <4>2. x \in Orderly
        BY <3>2, <3>5 DEF AsLastApplied
      <4>3. \A n \in 1..MaxEvents : e # <<x, n>>
        BY <2>1, <3>5
      <4> QED BY <2>2, <3>1, <3>5, <4>1, <4>2, <4>3, <2>1 DEF Orderly
    <3>6. ASSUME y \notin suDisordered'
          PROVE  y \in Orderly'
      <4>1. y \in Orderly
        BY <2>1, <3>2, <3>6 DEF AsLastApplied
      <4>2. /\ \A n \in 1..MaxEvents : <<y, n>> \in suApplied' <=> <<y, n>> \in suApplied \/ n = m
            /\ \A k \in 1..MaxEvents : <<y, k>> \in suApplied => k =< m
        BY <2>1, <2>2, <3>2, <3>6
      <4>3. suRows'[y] = IF <<y, 1>> \in suApplied' THEN 1 ELSE 0
        <5>1. suRows[y] = IF <<y, 1>> \in suApplied THEN 1 ELSE 0
          BY <4>1 DEF Orderly
        <5>2. m = 1 => <<y, 1>> \notin suApplied
          BY <2>1, <4>1 DEF Orderly
        <5>3. <<y, 1>> \in suApplied' <=> <<y, 1>> \in suApplied \/ m = 1
          BY <2>1, <4>2
        <5> QED BY <3>3, <5>1, <5>2, <5>3
      <4>4. ASSUME NEW v \in Webhooks,
                   suHandler'[v].at = "claimed", suHandler'[v].event = <<y, 1>>
            PROVE  /\ <<y, 1>> \notin suApplied'
                   /\ \A x \in Webhooks \ {v} :
                        suHandler'[x].at # "idle" => suHandler'[x].event # <<y, 1>>
        BY <2>1, <2>2, <4>1, <4>2, <4>4 DEF Orderly
      <4>5. ASSUME NEW n \in 1..MaxEvents, <<y, n>> \in suApplied',
                   \A k \in 1..MaxEvents : <<y, k>> \in suApplied' => k =< n
            PROVE  suActive'[y] = IF suSaid'[y][n] THEN suRows'[y] ELSE 0
        <5>1. n = m
          BY <2>1, <4>2, <4>5
        <5>2. CASE m # 1
          BY <2>2, <3>3, <5>1, <5>2
        <5>3. CASE m = 1
          <6>1. suSaid[y][1]
            <7>1. y \in Subscriptions /\ w \in Webhooks /\ suHandler[w].at # "idle"
              BY <2>1
            <7>2. suHandler[w].event[2] =< Len(suSaid[suHandler[w].event[1]])
              BY <7>1 DEF EventsInTurn
            <7>3. 1 =< Len(suSaid[y])
              BY <5>3, <7>2
            <7>4. Len(suSaid[y]) > 0
              BY <7>1, <7>3 DEF SubscriptionTypeOK
            <7> QED BY <7>1, <7>4 DEF BeginsActive
          <6>2. <<y, 1>> \notin suApplied
            BY <2>1, <4>1, <5>3 DEF Orderly
          <6>3. suRows[y] = 0 /\ suActive[y] = 0
            BY <2>0, <4>1, <6>2 DEF Orderly
          <6> QED BY <2>2, <3>3, <5>1, <5>3, <6>1, <6>3
        <5> QED BY <5>2, <5>3
      <4> QED BY <2>1, <4>3, <4>4, <4>5 DEF Orderly
    <3> QED BY <2>1, <3>4, <3>5, <3>6 DEF AsLastApplied
  <2>6. BeginsActive'
    BY <2>2 DEF BeginsActive
  <2> QED BY <2>3, <2>4, <2>5, <2>6
<1>5. ASSUME NEW w \in Webhooks, MarkEvent(w)
      PROVE  SubscriptionTypeOK' /\ EventsInTurn' /\ AsLastApplied' /\ BeginsActive'
  <2>1. SubscriptionTypeOK'
    BY <1>5 DEF MarkEvent, SubscriptionTypeOK, NoEvent, Events
  <2>2. EventsInTurn'
    BY <1>5 DEF MarkEvent, EventsInTurn, NoEvent, Events
  <2>3. AsLastApplied'
    BY <1>5 DEF MarkEvent, AsLastApplied, Orderly, NoEvent, Events
  <2>4. BeginsActive'
    BY <1>5 DEF MarkEvent, BeginsActive, NoEvent, Events
  <2> QED BY <2>1, <2>2, <2>3, <2>4
<1>6. ASSUME NEW w \in Webhooks, HandlerBreaksOff(w)
      PROVE  SubscriptionTypeOK' /\ EventsInTurn' /\ AsLastApplied' /\ BeginsActive'
  <2>1. SubscriptionTypeOK'
    BY <1>6 DEF HandlerBreaksOff, SubscriptionTypeOK, NoEvent, Events
  <2>2. EventsInTurn'
    BY <1>6 DEF HandlerBreaksOff, EventsInTurn, NoEvent, Events
  <2>3. AsLastApplied'
    BY <1>6 DEF HandlerBreaksOff, AsLastApplied, Orderly, NoEvent, Events
  <2>4. BeginsActive'
    BY <1>6 DEF HandlerBreaksOff, BeginsActive, NoEvent, Events
  <2> QED BY <2>1, <2>2, <2>3, <2>4
<1>7. CASE ActivateReads
  <2>1. SubscriptionTypeOK'
    BY <1>7 DEF ActivateReads, SubscriptionTypeOK, ActiveRows
  <2>2. EventsInTurn'
    BY <1>7 DEF ActivateReads, EventsInTurn, ActiveRows
  <2>3. AsLastApplied'
    BY <1>7 DEF ActivateReads, AsLastApplied, Orderly
  <2>4. BeginsActive'
    BY <1>7 DEF ActivateReads, BeginsActive, ActiveRows
  <2> QED BY <2>1, <2>2, <2>3, <2>4
<1>8. CASE ActivateSaves
  <2>1. SubscriptionTypeOK'
    BY <1>8 DEF ActivateSaves, SubscriptionTypeOK
  <2>2. EventsInTurn'
    BY <1>8 DEF ActivateSaves, EventsInTurn
  <2>3. AsLastApplied'
    BY <1>8 DEF ActivateSaves, AsLastApplied, Orderly
  <2>4. BeginsActive'
    BY <1>8 DEF ActivateSaves, BeginsActive
  <2> QED BY <2>1, <2>2, <2>3, <2>4
<1>9. CASE CancelSubscription
  <2>1. PICK row \in ActiveRows :
          /\ IF row = "free" THEN suFree' = FALSE /\ UNCHANGED suSaid
                             ELSE StripeSays(row, TRUE) /\ UNCHANGED suFree
          /\ UNCHANGED <<suProcessed, suHandler, suRows, suActive, suRead,
                         suApplied, suDisordered>>
    BY <1>9 DEF CancelSubscription
  <2>2. CASE row = "free"
    <3>1. SubscriptionTypeOK'
      BY <2>1, <2>2 DEF SubscriptionTypeOK
    <3>2. EventsInTurn' /\ AsLastApplied' /\ BeginsActive'
      BY <2>1, <2>2 DEF EventsInTurn, AsLastApplied, Orderly, BeginsActive
    <3> QED BY <3>1, <3>2
  <2>3. CASE row # "free"
    <3>1. row \in Subscriptions /\ suFree' \in BOOLEAN
      BY <2>1, <2>3 DEF ActiveRows, SubscriptionTypeOK
    <3> QED BY <2>1, <2>3, <3>1, SaidIsKept DEF SubscriptionInv
  <2> QED BY <2>2, <2>3
<1>10. CASE UNCHANGED subscriptionVars
  <2>1. SubscriptionTypeOK'
    BY <1>10 DEF subscriptionVars, SubscriptionTypeOK
  <2>2. EventsInTurn'
    BY <1>10 DEF subscriptionVars, EventsInTurn
  <2>3. AsLastApplied'
    BY <1>10 DEF subscriptionVars, AsLastApplied, Orderly
  <2>4. BeginsActive'
    BY <1>10 DEF subscriptionVars, BeginsActive
  <2> QED BY <2>1, <2>2, <2>3, <2>4
<1> QED BY <1>1, <1>2, <1>3, <1>4, <1>5, <1>6, <1>7, <1>8, <1>9, <1>10 DEF SubscriptionNext

\* A subscription has one row, active while the latest event applied says it is, unless its
\* events were applied out of turn: for every number of subscriptions and of handlers.
THEOREM SubscriptionsFollowStripe ==
    SubscriptionSpec => [](SubscriptionTypeOK /\ ActiveMatchesStripe)
<1>1. SubscriptionInit => SubscriptionInv
  BY SubscriptionInitial
<1>2. SubscriptionInv /\ [SubscriptionNext]_subscriptionVars => SubscriptionInv'
  BY SubscriptionStep
<1>3. SubscriptionInv => SubscriptionTypeOK /\ ActiveMatchesStripe
  <2> SUFFICES ASSUME SubscriptionInv, NEW s \in Subscriptions \ suDisordered,
                      suSaid[s] # <<>>, Sent(s) \subseteq suProcessed
               PROVE  suActive[s] = IF suSaid[s][Len(suSaid[s])] THEN 1 ELSE 0
    BY DEF ActiveMatchesStripe, SubscriptionInv
  <2> DEFINE n == Len(suSaid[s])
  <2>1. n \in 1..MaxEvents /\ 1 \in 1..MaxEvents
    BY SubscriptionAssumption DEF SubscriptionInv, SubscriptionTypeOK
  <2>2. <<s, n>> \in suApplied /\ <<s, 1>> \in suApplied
    BY <2>1 DEF Sent, SubscriptionInv, EventsInTurn
  <2>3. \A k \in 1..MaxEvents : <<s, k>> \in suApplied => k =< n
    BY DEF SubscriptionInv, EventsInTurn
  <2> QED BY <2>1, <2>2, <2>3 DEF SubscriptionInv, AsLastApplied, Orderly
<1> QED BY <1>1, <1>2, <1>3, PTL DEF SubscriptionSpec

-----------------------------------------------------------------------------
(* Payout methods.                                                         *)

\* Two defaults are one; and while none was lost there is one, as soon as there are
\* methods, or a request has read that there are and adds another.
OneDefault ==
    /\ \A m, n \in Methods : pmMethod[m] = "default" /\ pmMethod[n] = "default" => m = n
    /\ ~pmLost /\ (\/ \E m \in Methods : pmMethod[m] # "none"
                   \/ \E e \in Editors : pmEdit[e].at = "read" /\ ~pmEdit[e].default)
         => \E m \in Methods : pmMethod[m] = "default"

\* The row a request is to add is nobody else's.
RowsApart ==
    \A e \in Editors : pmEdit[e] # NoEdit /\ pmEdit[e].kind = "add" =>
      /\ pmEdit[e].row \in Methods /\ pmMethod[pmEdit[e].row] = "none"
      /\ pmEdit[e].row # NULL
      /\ \A x \in Editors : x # e => pmEdit[x].row # pmEdit[e].row

PayoutMethodInv == PayoutMethodTypeOK /\ OneDefault /\ RowsApart

\* The initial states satisfy PayoutMethodInv.
LEMMA PayoutMethodInitial == PayoutMethodInit => PayoutMethodInv
<1>1. PayoutMethodInit => PayoutMethodTypeOK
  BY DEF PayoutMethodInit, PayoutMethodTypeOK
<1>2. PayoutMethodInit => OneDefault
  BY DEF PayoutMethodInit, OneDefault, NoEdit
<1>3. PayoutMethodInit => RowsApart
  BY DEF PayoutMethodInit, RowsApart
<1> QED BY <1>1, <1>2, <1>3 DEF PayoutMethodInv

\* Every step of PayoutMethodNext keeps PayoutMethodInv.
LEMMA PayoutMethodStep == PayoutMethodInv /\ [PayoutMethodNext]_payoutMethodVars => PayoutMethodInv'
<1> SUFFICES ASSUME PayoutMethodTypeOK, OneDefault, RowsApart, [PayoutMethodNext]_payoutMethodVars
             PROVE  PayoutMethodTypeOK' /\ OneDefault' /\ RowsApart'
  BY DEF PayoutMethodInv
<1> USE DEF NoEdit
<1>1. ASSUME NEW e \in Editors, NEW m \in Methods, UpdateReads(e, m)
      PROVE  PayoutMethodTypeOK' /\ OneDefault' /\ RowsApart'
  <2>1. PayoutMethodTypeOK'
    BY <1>1 DEF UpdateReads, PayoutMethodTypeOK, Saved, Defaults
  <2>2. OneDefault'
    BY <1>1 DEF UpdateReads, OneDefault, PayoutMethodTypeOK, Saved, Defaults
  <2>3. RowsApart'
    BY <1>1 DEF UpdateReads, RowsApart, PayoutMethodTypeOK, Saved, Defaults
  <2> QED BY <2>1, <2>2, <2>3
<1>2. ASSUME NEW e \in Editors, NEW m \in Methods, NEW asked \in BOOLEAN, AddReads(e, m, asked)
      PROVE  PayoutMethodTypeOK' /\ OneDefault' /\ RowsApart'
  <2>1. PayoutMethodTypeOK'
    BY <1>2 DEF AddReads, PayoutMethodTypeOK, Saved
  <2>2. OneDefault'
    BY <1>2 DEF AddReads, OneDefault, PayoutMethodTypeOK, Saved
  <2>3. RowsApart'
    <3>1. /\ \A x \in Editors : x # e => pmEdit'[x] = pmEdit[x]
          /\ pmEdit'[e].row = m /\ pmMethod' = pmMethod
      BY <1>2 DEF AddReads, PayoutMethodTypeOK
    <3>2. pmMethod[m] = "none" /\ pmEdit[e] = NoEdit /\ \A x \in Editors : pmEdit[x].row # m
      BY <1>2 DEF AddReads, Saved, PayoutMethodTypeOK
    <3>3. m # NULL
      BY <3>2 DEF NoEdit
    <3> QED BY <3>1, <3>2, <3>3 DEF RowsApart
  <2> QED BY <2>1, <2>2, <2>3
<1>3. ASSUME NEW e \in Editors, Demote(e)
      PROVE  PayoutMethodTypeOK' /\ OneDefault' /\ RowsApart'
  <2>1. PayoutMethodTypeOK'
    BY <1>3 DEF Demote, PayoutMethodTypeOK
  <2>2. OneDefault'
    BY <1>3 DEF Demote, OneDefault, PayoutMethodTypeOK
  <2>3. RowsApart'
    <3>1. /\ \A x \in Editors : x # e => pmEdit'[x] = pmEdit[x]
          /\ pmEdit'[e].row = pmEdit[e].row /\ pmEdit'[e].kind = pmEdit[e].kind
          /\ pmMethod' = pmMethod
      BY <1>3 DEF Demote, PayoutMethodTypeOK
    <3>2. pmEdit[e] # NoEdit
      BY <1>3 DEF Demote, NoEdit
    <3> QED BY <3>1, <3>2 DEF RowsApart
  <2> QED BY <2>1, <2>2, <2>3
<1>4. ASSUME NEW e \in Editors, AddCommits(e)
      PROVE  PayoutMethodTypeOK' /\ OneDefault' /\ RowsApart'
  <2>1. PayoutMethodTypeOK'
    BY <1>4 DEF AddCommits, PayoutMethodTypeOK, Demoted
  <2>2. OneDefault'
    <3> DEFINE row == pmEdit[e].row
    <3>1. row \in Methods
      BY <1>4 DEF AddCommits, PayoutMethodTypeOK
    <3>2. \A x \in Editors : x # e => pmEdit'[x] = pmEdit[x]
      BY <1>4 DEF AddCommits, PayoutMethodTypeOK
    <3>3. pmEdit'[e].at # "read"
      BY <1>4 DEF AddCommits, PayoutMethodTypeOK
    <3>4. CASE pmEdit[e].default
      <4>1. \A m \in Methods : pmMethod'[m] = "default" <=> m = row
        BY <1>4, <3>1, <3>4 DEF AddCommits, PayoutMethodTypeOK, Demoted
      <4> QED BY <3>1, <4>1 DEF OneDefault
    <3>5. CASE ~pmEdit[e].default
      <4>1. \A m \in Methods : pmMethod'[m] = IF m = row THEN "plain" ELSE pmMethod[m]
        BY <1>4, <3>1, <3>5 DEF AddCommits, PayoutMethodTypeOK
      <4>2. pmEdit[e].at = "read" /\ (pmLost' <=> pmLost)
        BY <1>4, <3>5 DEF AddCommits, PayoutMethodTypeOK
      <4>3. pmLost \/ \E m \in Methods : pmMethod[m] = "default"
        BY <3>5, <4>2 DEF OneDefault
      <4>4. pmMethod[row] = "none"
        <5>1. pmEdit[e] # NoEdit /\ pmEdit[e].kind = "add"
          BY <1>4, <4>2 DEF AddCommits, NoEdit
        <5> QED BY <5>1 DEF RowsApart
      <4> QED BY <3>2, <3>3, <4>1, <4>2, <4>3, <4>4 DEF OneDefault
    <3> QED BY <3>4, <3>5
  <2>3. RowsApart'
    BY <1>4 DEF AddCommits, RowsApart, PayoutMethodTypeOK, Demoted
  <2> QED BY <2>1, <2>2, <2>3
<1>5. ASSUME NEW e \in Editors, UpdateCommits(e)
      PROVE  PayoutMethodTypeOK' /\ OneDefault' /\ RowsApart'
  <2>1. PayoutMethodTypeOK'
    BY <1>5 DEF UpdateCommits, PayoutMethodTypeOK, Demoted, Saved
  <2>2. OneDefault'
    BY <1>5 DEF UpdateCommits, OneDefault, PayoutMethodTypeOK, Demoted, Saved
  <2>3. RowsApart'
    BY <1>5 DEF UpdateCommits, RowsApart, PayoutMethodTypeOK, Demoted, Saved
  <2> QED BY <2>1, <2>2, <2>3
<1>6. ASSUME NEW e \in Editors, EditFails(e)
      PROVE  PayoutMethodTypeOK' /\ OneDefault' /\ RowsApart'
  <2>1. PayoutMethodTypeOK'
    BY <1>6 DEF EditFails, PayoutMethodTypeOK
  <2>2. OneDefault'
    BY <1>6 DEF EditFails, OneDefault, PayoutMethodTypeOK
  <2>3. RowsApart'
    BY <1>6 DEF EditFails, RowsApart, PayoutMethodTypeOK
  <2> QED BY <2>1, <2>2, <2>3
<1>7. ASSUME NEW m \in Methods, DeleteMethod(m)
      PROVE  PayoutMethodTypeOK' /\ OneDefault' /\ RowsApart'
  <2>1. PayoutMethodTypeOK'
    BY <1>7 DEF DeleteMethod, PayoutMethodTypeOK, Saved, Defaults
  <2>2. OneDefault'
    BY <1>7 DEF DeleteMethod, OneDefault, PayoutMethodTypeOK, Saved, Defaults
  <2>3. RowsApart'
    BY <1>7 DEF DeleteMethod, RowsApart, PayoutMethodTypeOK, Saved, Defaults
  <2> QED BY <2>1, <2>2, <2>3
<1>8. CASE UNCHANGED payoutMethodVars
  <2>1. PayoutMethodTypeOK'
    BY <1>8 DEF payoutMethodVars, PayoutMethodTypeOK
  <2>2. OneDefault'
    BY <1>8 DEF payoutMethodVars, OneDefault, PayoutMethodTypeOK
  <2>3. RowsApart'
    BY <1>8 DEF payoutMethodVars, RowsApart, PayoutMethodTypeOK
  <2> QED BY <2>1, <2>2, <2>3
<1> QED BY <1>1, <1>2, <1>3, <1>4, <1>5, <1>6, <1>7, <1>8 DEF PayoutMethodNext

\* A user has one default payout method at most, unless requests on it overlapped or
\* broke off: for every number of methods and requests.
THEOREM OneMethodIsDefault == PayoutMethodSpec => [](PayoutMethodTypeOK /\ AtMostOneDefault)
<1>1. PayoutMethodInit => PayoutMethodInv
  BY PayoutMethodInitial
<1>2. PayoutMethodInv /\ [PayoutMethodNext]_payoutMethodVars => PayoutMethodInv'
  BY PayoutMethodStep
<1>3. PayoutMethodInv => PayoutMethodTypeOK /\ AtMostOneDefault
  <2> SUFFICES ASSUME OneDefault PROVE AtMostOneDefault
    BY DEF PayoutMethodInv
  <2>1. Saved # {} /\ ~pmLost => Defaults # {}
    BY DEF OneDefault, Saved, Defaults
  <2>2. CASE Defaults = {}
    BY <2>1, <2>2, FS_EmptySet DEF AtMostOneDefault
  <2>3. CASE Defaults # {}
    <3>1. PICK m \in Defaults : TRUE
      BY <2>3
    <3>2. Defaults = {m}
      BY <3>1 DEF OneDefault, Defaults
    <3> QED BY <2>1, <3>2, FS_Singleton DEF AtMostOneDefault
  <2> QED BY <2>2, <2>3
<1> QED BY <1>1, <1>2, <1>3, PTL DEF PayoutMethodSpec

-----------------------------------------------------------------------------
(* Accounts that begin.                                                    *)

\* Of the requests that inserted a row, no two have the same address, and none the
\* address of an account; what a request has seen is there still.
HandsAgree ==
    /\ \A r \in Signups : sgSignup[r] # NULL =>
         /\ sgSignup[r].inserted => sgSignup[r].address \notin sgUsers /\ sgSignup[r].seen # NULL
         /\ sgSignup[r].seen # NULL => sgSignup[r].seen.users \subseteq sgUsers
         /\ sgSignup[r].account # NULL => sgSignup[r].address = AddressOf[sgSignup[r].account]
    /\ \A r, q \in Signups :
         (/\ sgSignup[r] # NULL /\ sgSignup[r].inserted
          /\ sgSignup[q] # NULL /\ sgSignup[q].inserted
          /\ sgSignup[r].address = sgSignup[q].address) => r = q

\* Whose referral was claimed is referred, and has an account.
ReferredHaveAccounts ==
    /\ \A a \in Addresses : sgReferrer[a] # NULL => a \in sgUsers
    /\ \A a \in sgClaimed : sgReferrer[a] # NULL

RewardsOf(a) == {b \in sgClaimed : sgReferrer[b] = a}
CreditsAddUp ==
    \A a \in sgUsers : sgCredits[a] = Welcome + Reward * Cardinality(RewardsOf(a))
ReferrersWereThere == \A a \in Addresses : sgReferrer[a] \in (sgUsers \ {a}) \cup {NULL}
LinksAreOfAddresses ==
    \A p \in ProviderAccounts :
      sgLink[p] # NULL => sgLink[p] = AddressOf[p] /\ AddressOf[p] \in sgUsers

SignupInv ==
    /\ SignupTypeOK /\ HandsAgree /\ ReferredHaveAccounts
    /\ AdminsByRaceOnly /\ CreditsAddUp /\ ReferrersWereThere /\ LinksAreOfAddresses

\* The initial states satisfy SignupInv.
LEMMA SignupInitial == SignupInit => SignupInv
<1> SUFFICES ASSUME SignupInit PROVE SignupInv
  OBVIOUS
<1>1. SignupTypeOK
  BY SignupAssumption DEF SignupInit, SignupTypeOK
<1>2. HandsAgree /\ ReferredHaveAccounts /\ CreditsAddUp /\ ReferrersWereThere /\ LinksAreOfAddresses
  BY DEF SignupInit, HandsAgree, ReferredHaveAccounts, CreditsAddUp, ReferrersWereThere,
         LinksAreOfAddresses
<1>3. AdminsByRaceOnly
  <2>1. sgAdmins = {} /\ Bare = {}
    BY DEF SignupInit, Bare
  <2>2. Cardinality(Signups) \in Nat /\ Cardinality({}) = 0
    BY SignupAssumption, FS_CardinalityType, FS_EmptySet
  <2> QED BY <2>1, <2>2 DEF AdminsByRaceOnly
<1> QED BY <1>1, <1>2, <1>3 DEF SignupInv

\* The sets that are counted are finite.
LEMMA SignupsAreFinite ==
    ASSUME SignupTypeOK
    PROVE  /\ IsFiniteSet(sgAdmins) /\ IsFiniteSet(Bare) /\ Cardinality(sgAdmins) \in Nat
           /\ Cardinality(Bare) \in Nat /\ Cardinality(Signups) \in Nat
           /\ Cardinality(Bare) <= Cardinality(Signups)
<1>1. sgAdmins \subseteq Addresses /\ Bare \subseteq Signups
  BY DEF SignupTypeOK, Bare
<1>2. /\ IsFiniteSet(sgAdmins)
      /\ IsFiniteSet(Bare) /\ Cardinality(Bare) <= Cardinality(Signups)
  BY <1>1, SignupAssumption, FS_Subset
<1>3. IsFiniteSet(Signups)
  BY SignupAssumption
<1> QED BY <1>2, <1>3, FS_CardinalityType

\* A step that moves one request and no account.
LEMMA HandMoves ==
    ASSUME SignupInv, NEW r \in Signups, NEW new \in SignupInHand \cup {NULL},
           sgSignup' = [sgSignup EXCEPT ![r] = new], KeepAccounts,
           new # NULL =>
             /\ new.inserted => new.address \notin sgUsers /\ new.seen # NULL
             /\ new.seen # NULL => new.seen.users \subseteq sgUsers
             /\ new.account # NULL => new.address = AddressOf[new.account]
             /\ new.inserted => \A q \in Signups \ {r} :
                  sgSignup[q] # NULL /\ sgSignup[q].inserted => sgSignup[q].address # new.address
             /\ new.seen # NULL /\ new.seen.bare => sgAdmins = {} \/ r \in Bare
    PROVE  SignupInv'
<1>1. UNCHANGED <<sgUsers, sgAdmins, sgReferrer, sgClaimed, sgCredits, sgLink>>
  BY DEF KeepAccounts
<1>2. SignupTypeOK /\ HandsAgree /\ AdminsByRaceOnly
  BY DEF SignupInv
<1>3. /\ sgSignup' \in [Signups -> SignupInHand \cup {NULL}] /\ sgSignup'[r] = new
      /\ \A q \in Signups \ {r} : sgSignup'[q] = sgSignup[q]
  BY <1>2 DEF SignupTypeOK
<1>4. SignupTypeOK'
  BY <1>1, <1>2, <1>3 DEF SignupTypeOK
<1>5. HandsAgree'
  BY <1>1, <1>2, <1>3 DEF HandsAgree
<1>6. AdminsByRaceOnly'
  <2>1. CASE sgAdmins = {}
    <3>1. Cardinality(sgAdmins') = 0
      BY <1>1, <2>1, FS_EmptySet
    <3>2. Cardinality(Bare') <= Cardinality(Signups) /\ Cardinality(Bare') \in Nat
      <4>1. Bare' \subseteq Signups
        BY DEF Bare
      <4> QED BY <4>1, SignupAssumption, FS_Subset, FS_CardinalityType
    <3>3. Cardinality(Signups) \in Nat
      BY <1>2, SignupsAreFinite
    <3> QED BY <3>1, <3>2, <3>3 DEF AdminsByRaceOnly
  <2>2. CASE sgAdmins # {}
    <3>1. Bare' \subseteq Bare
      BY <1>3, <2>2 DEF Bare
    <3>2. Cardinality(Bare') <= Cardinality(Bare) /\ Cardinality(Bare') \in Nat
      BY <1>2, <3>1, SignupsAreFinite, FS_Subset, FS_CardinalityType
    <3>3. Cardinality(sgAdmins) \in Nat /\ Cardinality(Bare) \in Nat /\ Cardinality(Signups) \in Nat
      BY <1>2, SignupsAreFinite
    <3> QED BY <1>1, <1>2, <3>2, <3>3 DEF AdminsByRaceOnly
  <2> QED BY <2>1, <2>2
<1>7. ReferredHaveAccounts' /\ ReferrersWereThere' /\ LinksAreOfAddresses'
  BY <1>1 DEF SignupInv, ReferredHaveAccounts, ReferrersWereThere, LinksAreOfAddresses
<1>8. CreditsAddUp'
  BY <1>1 DEF SignupInv, CreditsAddUp, RewardsOf
<1> QED BY <1>4, <1>5, <1>6, <1>7, <1>8 DEF SignupInv

\* Every step of SignupNext keeps SignupInv.
LEMMA SignupStep == SignupInv /\ [SignupNext]_signupVars => SignupInv'
<1> SUFFICES ASSUME SignupInv, [SignupNext]_signupVars PROVE SignupInv'
  OBVIOUS
<1>0. /\ SignupTypeOK /\ HandsAgree /\ ReferredHaveAccounts
      /\ AdminsByRaceOnly /\ CreditsAddUp /\ ReferrersWereThere /\ LinksAreOfAddresses
  BY DEF SignupInv
<1>a. /\ Snapshot \in Snapshots /\ Snapshot # NULL /\ Snapshot.users = sgUsers
      /\ Snapshot.bare = (sgAdmins = {})
  <2>1. Snapshot = [users |-> sgUsers, bare |-> sgAdmins = {}]
    BY DEF Snapshot, NoAdminYet
  <2>2. sgUsers \in SUBSET Addresses /\ (sgAdmins = {}) \in BOOLEAN
    BY <1>0 DEF SignupTypeOK
  <2>3. Snapshot \in [users : SUBSET Addresses, bare : BOOLEAN]
    BY <2>1, <2>2
  <2> QED BY <2>1, <2>3, SignupAssumption DEF Snapshots
<1>b. \A r \in Signups : sgSignup[r] # NULL =>
        /\ sgSignup[r] \in SignupInHand
        /\ sgSignup[r].address \in Addresses /\ sgSignup[r].account \in ProviderAccounts \cup {NULL}
        /\ sgSignup[r].code \in Addresses \cup {NULL} /\ sgSignup[r].seen \in Snapshots \cup {NULL}
        /\ sgSignup[r].inserted \in BOOLEAN
  BY <1>0 DEF SignupTypeOK, SignupInHand
<1>1. ASSUME NEW r \in Signups, NEW a \in Addresses, NEW code \in Addresses \cup {NULL},
             Register(r, a, code)
      PROVE  SignupInv'
  <2> DEFINE new == [address |-> a, account |-> NULL, code |-> code, seen |-> NULL,
                     inserted |-> FALSE]
  <2>1. sgSignup' = [sgSignup EXCEPT ![r] = new] /\ KeepAccounts
    BY <1>1 DEF Register
  <2>2. new \in SignupInHand /\ new.account = NULL /\ new.seen = NULL /\ new.inserted = FALSE
    BY DEF SignupInHand
  <2> HIDE DEF new
  <2> QED BY <2>1, <2>2, HandMoves
<1>2. ASSUME NEW r \in Signups, NEW p \in ProviderAccounts, Vouched(r, p)
      PROVE  SignupInv'
  <2> DEFINE new == [address |-> AddressOf[p], account |-> p, code |-> NULL, seen |-> NULL,
                     inserted |-> FALSE]
  <2>1. sgSignup' = [sgSignup EXCEPT ![r] = new] /\ KeepAccounts
    BY <1>2 DEF Vouched
  <2>2. /\ new \in SignupInHand /\ new.seen = NULL /\ new.inserted = FALSE
        /\ new.address = AddressOf[new.account]
    BY SignupAssumption DEF SignupInHand
  <2> HIDE DEF new
  <2> QED BY <2>1, <2>2, HandMoves
<1>3. ASSUME NEW r \in Signups, FirstRead(r)
      PROVE  SignupInv'
  <2> DEFINE it == sgSignup[r]
             linked == it.account # NULL /\ sgLink[it.account] # NULL
             read == [it EXCEPT !.seen = Snapshot]
             new == IF linked THEN NULL ELSE read
  <2>1. /\ it # NULL /\ it.seen = NULL
        /\ sgSignup' = [sgSignup EXCEPT ![r] = new] /\ KeepAccounts
    BY <1>3 DEF FirstRead
  <2>2. /\ read \in SignupInHand /\ read.seen = Snapshot /\ read.inserted = it.inserted
        /\ read.account = it.account /\ read.address = it.address
    BY <1>a, <1>b, <2>1 DEF SignupInHand
  <2>3. /\ ~it.inserted
        /\ it.account # NULL => it.address = AddressOf[it.account]
    BY <1>0, <2>1 DEF HandsAgree
  <2> HIDE DEF it, linked, read
  <2>4. new \in SignupInHand \cup {NULL} /\ (new # NULL => new = read)
    BY <2>2
  <2> HIDE DEF new
  <2> QED BY <1>a, <2>1, <2>2, <2>3, <2>4, HandMoves
<1>4. ASSUME NEW r \in Signups, InsertUser(r)
      PROVE  SignupInv'
  <2> DEFINE it == sgSignup[r]
             seen == IF it.seen = NULL THEN Snapshot ELSE it.seen
             row == [it EXCEPT !.inserted = TRUE, !.seen = seen]
             new == IF it.address \in sgUsers THEN NULL ELSE row
  <2>1. it # NULL /\ ~Taken(it.address) /\ KeepAccounts
    BY <1>4 DEF InsertUser
  <2>2. sgSignup' = [sgSignup EXCEPT ![r] = new]
    BY <1>4 DEF InsertUser
  <2>3. seen \in Snapshots
    BY <1>a, <1>b, <2>1
  <2>4. /\ seen # NULL /\ seen.users \subseteq sgUsers
        /\ seen.bare => sgAdmins = {} \/ r \in Bare
    BY <1>0, <1>a, <2>1 DEF HandsAgree, Bare
  <2>5. /\ row \in SignupInHand /\ row.seen = seen
        /\ row.account = it.account /\ row.address = it.address
    BY <1>b, <2>1, <2>3 DEF SignupInHand
  <2>6. /\ it.account # NULL => it.address = AddressOf[it.account]
        /\ \A q \in Signups \ {r} :
             sgSignup[q] # NULL /\ sgSignup[q].inserted => sgSignup[q].address # it.address
    BY <1>0, <2>1 DEF HandsAgree, Taken
  <2> HIDE DEF it, seen, row
  <2>7. /\ new \in SignupInHand \cup {NULL} /\ (new # NULL => new = row)
        /\ new # NULL => it.address \notin sgUsers
    BY <2>5
  <2> HIDE DEF new
  <2> QED BY <2>1, <2>2, <2>4, <2>5, <2>6, <2>7, HandMoves
<1>5. ASSUME NEW r \in Signups, SignupFails(r)
      PROVE  SignupInv'
  <2>1. sgSignup' = [sgSignup EXCEPT ![r] = NULL] /\ KeepAccounts
    BY <1>5 DEF SignupFails
  <2> QED BY <2>1, HandMoves
<1>6. ASSUME NEW r \in Signups, CommitAccount(r)
      PROVE  SignupInv'
  <2> DEFINE it == sgSignup[r]
             a == it.address
             seen == it.seen
             by == ReferrerOf(it)
  <2>1. /\ it # NULL /\ it.inserted /\ (it.account # NULL => sgLink[it.account] = NULL)
        /\ sgUsers' = sgUsers \cup {a}
        /\ sgAdmins' = IF seen.bare THEN sgAdmins \cup {a} ELSE sgAdmins
        /\ sgReferrer' = [sgReferrer EXCEPT ![a] = by]
        /\ sgCredits' = [sgCredits EXCEPT ![a] = Welcome]
        /\ sgLink' = [p \in ProviderAccounts |-> IF p = it.account THEN a ELSE sgLink[p]]
        /\ sgSignup' = [sgSignup EXCEPT ![r] = NULL]
        /\ sgClaimed' = sgClaimed
    BY <1>6 DEF CommitAccount, IsFirst
  <2>2. /\ a \in Addresses \ sgUsers /\ seen \in Snapshots /\ seen.users \subseteq sgUsers
        /\ it.account # NULL => a = AddressOf[it.account]
    BY <1>0, <1>b, <2>1 DEF HandsAgree
  <2>3. by \in sgUsers \cup {NULL}
    BY <2>2 DEF ReferrerOf
  <2>4. sgUsers \subseteq Addresses /\ sgAdmins \subseteq sgUsers /\ seen.bare \in BOOLEAN
    BY <1>0, <2>2 DEF SignupTypeOK, Snapshots
  <2>5. /\ sgReferrer[a] = NULL /\ a \notin sgClaimed
    BY <1>0, <2>2 DEF ReferredHaveAccounts
  <2>6. /\ sgSignup' \in [Signups -> SignupInHand \cup {NULL}] /\ sgSignup'[r] = NULL
        /\ \A q \in Signups \ {r} : sgSignup'[q] = sgSignup[q]
    BY <1>0, <2>1 DEF SignupTypeOK
  <2>7. /\ sgReferrer' \in [Addresses -> Addresses \cup {NULL}] /\ sgReferrer'[a] = by
        /\ \A b \in Addresses \ {a} : sgReferrer'[b] = sgReferrer[b]
    BY <1>0, <2>1, <2>2, <2>3, <2>4 DEF SignupTypeOK
  <2>8. /\ sgCredits' \in [Addresses -> Nat] /\ sgCredits'[a] = Welcome
        /\ \A b \in Addresses \ {a} : sgCredits'[b] = sgCredits[b]
    BY <1>0, <2>1, <2>2, SignupAssumption DEF SignupTypeOK
  <2>9. r \in Bare <=> seen.bare
    BY <1>0, <2>1 DEF Bare, HandsAgree
  <2>10. \A q \in Signups \ {r} : sgSignup[q] # NULL /\ sgSignup[q].inserted =>
           sgSignup[q].address # a
    BY <1>0, <2>1 DEF HandsAgree
  <2> HIDE DEF it, a, seen, by
  <2>t. SignupTypeOK'
    <3>1. sgLink' \in [ProviderAccounts -> Addresses \cup {NULL}]
      BY <1>0, <2>1, <2>2 DEF SignupTypeOK
    <3>2. sgUsers' \subseteq Addresses /\ sgAdmins' \subseteq sgUsers' /\ sgClaimed' \subseteq Addresses
      BY <1>0, <2>1, <2>2, <2>4 DEF SignupTypeOK
    <3> QED BY <2>6, <2>7, <2>8, <3>1, <3>2 DEF SignupTypeOK
  <2>h. HandsAgree'
    <3>1. \A q \in Signups : sgSignup'[q] # NULL => q # r /\ sgSignup'[q] = sgSignup[q]
      BY <2>6
    <3> QED BY <1>0, <2>1, <2>10, <3>1 DEF HandsAgree
  <2>r. ReferredHaveAccounts'
    <3>1. sgClaimed \subseteq Addresses
      BY <1>0 DEF SignupTypeOK
    <3> QED BY <1>0, <2>1, <2>5, <2>7, <3>1 DEF ReferredHaveAccounts
  <2>w. ReferrersWereThere'
    BY <1>0, <2>1, <2>2, <2>3, <2>7 DEF ReferrersWereThere
  <2>l. LinksAreOfAddresses'
    BY <1>0, <2>1, <2>2, SignupAssumption DEF LinksAreOfAddresses
  <2>c. CreditsAddUp'
    <3>1. sgClaimed \subseteq Addresses \ {a}
      BY <1>0, <2>5 DEF SignupTypeOK
    <3>2. \A b : {c \in sgClaimed' : sgReferrer'[c] = b} = RewardsOf(b)
      BY <2>1, <2>7, <3>1 DEF RewardsOf
    <3>3. RewardsOf(a) = {}
      <4>1. \A c \in sgClaimed : sgReferrer[c] \in sgUsers
        BY <1>0, <3>1 DEF ReferrersWereThere, ReferredHaveAccounts
      <4> QED BY <2>2, <4>1 DEF RewardsOf
    <3>4. \A b \in sgUsers' : sgCredits'[b] = Welcome + Reward * Cardinality(RewardsOf(b))
      <4>1. Welcome = Welcome + Reward * Cardinality(RewardsOf(a))
        BY <3>3, FS_EmptySet, SignupAssumption
      <4>2. \A b \in sgUsers : b \in Addresses \ {a}
        BY <2>2, <2>4
      <4>3. \A b \in sgUsers : sgCredits'[b] = sgCredits[b]
        BY <2>8, <4>2
      <4> QED BY <1>0, <2>1, <2>8, <4>1, <4>3 DEF CreditsAddUp
    <3> QED BY <3>2, <3>4 DEF CreditsAddUp, RewardsOf
  <2>a. AdminsByRaceOnly'
    <3>1. Bare' = Bare \ {r}
      BY <2>6 DEF Bare
    <3>2. /\ IsFiniteSet(Bare) /\ IsFiniteSet(sgAdmins) /\ Cardinality(Bare) \in Nat
          /\ Cardinality(sgAdmins) \in Nat /\ Cardinality(Signups) \in Nat
      BY <1>0, SignupsAreFinite
    <3>3. Cardinality(Bare') = IF seen.bare THEN Cardinality(Bare) - 1 ELSE Cardinality(Bare)
      BY <2>9, <3>1, <3>2, FS_RemoveElement
    <3>4. Cardinality(sgAdmins') = IF seen.bare THEN Cardinality(sgAdmins) + 1
                                                ELSE Cardinality(sgAdmins)
      <4>1. a \notin sgAdmins
        BY <2>2, <2>4
      <4> QED BY <2>1, <3>2, <4>1, FS_AddElement
    <3> QED BY <1>0, <2>4, <3>2, <3>3, <3>4 DEF AdminsByRaceOnly
  <2> QED BY <2>t, <2>h, <2>r, <2>w, <2>l, <2>c, <2>a DEF SignupInv
<1>7. ASSUME NEW r \in Signups, CommitLink(r)
      PROVE  SignupInv'
  <2> DEFINE it == sgSignup[r]
  <2>1. /\ it # NULL /\ it.account # NULL /\ it.seen # NULL /\ it.address \in it.seen.users
        /\ sgLink' = [sgLink EXCEPT ![it.account] = it.address]
        /\ sgSignup' = [sgSignup EXCEPT ![r] = NULL]
        /\ UNCHANGED <<sgUsers, sgAdmins, sgReferrer, sgClaimed, sgCredits>>
    BY <1>7 DEF CommitLink
  <2>2. /\ it.account \in ProviderAccounts /\ it.address \in sgUsers
        /\ it.address = AddressOf[it.account]
    BY <1>0, <1>b, <2>1 DEF HandsAgree
  <2> HIDE DEF it
  <2>3. sgLink' \in [ProviderAccounts -> Addresses \cup {NULL}] /\ LinksAreOfAddresses'
    BY <1>0, <2>1, <2>2 DEF SignupTypeOK, LinksAreOfAddresses
  <2>4. /\ sgSignup' \in [Signups -> SignupInHand \cup {NULL}]
        /\ \A q \in Signups : sgSignup'[q] # NULL => sgSignup'[q] = sgSignup[q]
    BY <1>0, <2>1 DEF SignupTypeOK
  <2>5. SignupTypeOK'
    BY <1>0, <2>1, <2>3, <2>4 DEF SignupTypeOK
  <2>6. HandsAgree'
    BY <1>0, <2>1, <2>4 DEF HandsAgree
  <2>7. AdminsByRaceOnly'
    <3>1. Bare' \subseteq Bare
      BY <2>4 DEF Bare
    <3>2. IsFiniteSet(Bare)
      BY <1>0, SignupsAreFinite
    <3>3. Cardinality(Bare') <= Cardinality(Bare) /\ Cardinality(Bare') \in Nat
      BY <3>1, <3>2, FS_Subset, FS_CardinalityType
    <3>4. Cardinality(sgAdmins) \in Nat /\ Cardinality(Bare) \in Nat /\ Cardinality(Signups) \in Nat
      BY <1>0, SignupsAreFinite
    <3> QED BY <1>0, <2>1, <3>3, <3>4 DEF AdminsByRaceOnly
  <2>8. ReferredHaveAccounts' /\ ReferrersWereThere'
    BY <1>0, <2>1 DEF ReferredHaveAccounts, ReferrersWereThere
  <2>9. CreditsAddUp'
    BY <1>0, <2>1 DEF CreditsAddUp, RewardsOf
  <2> QED BY <2>3, <2>5, <2>6, <2>7, <2>8, <2>9 DEF SignupInv
<1>8. ASSUME NEW a \in Addresses, ClaimReward(a)
      PROVE  SignupInv'
  <2> DEFINE by == sgReferrer[a]
  <2>1. /\ by # NULL /\ a \notin sgClaimed /\ sgClaimed' = sgClaimed \cup {a}
        /\ sgCredits' = [sgCredits EXCEPT ![by] = @ + Reward]
        /\ UNCHANGED <<sgUsers, sgAdmins, sgReferrer, sgLink, sgSignup>>
    BY <1>8 DEF ClaimReward, Claimable
  <2>2. by \in sgUsers /\ sgUsers \subseteq Addresses /\ sgClaimed \subseteq Addresses
    BY <1>0, <2>1 DEF ReferrersWereThere, SignupTypeOK
  <2>3. sgReferrer[a] = by
    OBVIOUS
  <2> HIDE DEF by
  <2>4. /\ sgCredits' \in [Addresses -> Nat] /\ sgCredits'[by] = sgCredits[by] + Reward
        /\ \A b \in Addresses \ {by} : sgCredits'[b] = sgCredits[b]
        /\ sgCredits[by] \in Nat
    BY <1>0, <2>1, <2>2, SignupAssumption DEF SignupTypeOK
  <2>5. SignupTypeOK'
    BY <1>0, <2>1, <2>2, <2>4 DEF SignupTypeOK
  <2>6. HandsAgree' /\ ReferrersWereThere' /\ LinksAreOfAddresses'
    BY <1>0, <2>1 DEF HandsAgree, ReferrersWereThere, LinksAreOfAddresses
  <2>7. ReferredHaveAccounts'
    BY <1>0, <2>1, <2>3 DEF ReferredHaveAccounts
  <2>8. AdminsByRaceOnly'
    BY <1>0, <2>1 DEF AdminsByRaceOnly, Bare
  <2>9. CreditsAddUp'
    <3> DEFINE New(b) == {c \in sgClaimed' : sgReferrer'[c] = b}
    <3>1. New(by) = RewardsOf(by) \cup {a} /\ a \notin RewardsOf(by)
      BY <2>1, <2>3 DEF RewardsOf
    <3>2. \A b \in sgUsers \ {by} : New(b) = RewardsOf(b)
      BY <2>1, <2>3 DEF RewardsOf
    <3>3. IsFiniteSet(RewardsOf(by))
      <4>1. RewardsOf(by) \subseteq Addresses
        BY <2>2 DEF RewardsOf
      <4> QED BY <4>1, SignupAssumption, FS_Subset
    <3> HIDE DEF New
    <3>4. /\ Cardinality(New(by)) = Cardinality(RewardsOf(by)) + 1
          /\ Cardinality(RewardsOf(by)) \in Nat
      BY <3>1, <3>3, FS_AddElement, FS_CardinalityType
    <3>5. sgCredits'[by] = Welcome + Reward * Cardinality(New(by))
      <4> DEFINE n == Cardinality(RewardsOf(by))
      <4>1. sgCredits[by] = Welcome + Reward * n
        BY <1>0, <2>2 DEF CreditsAddUp
      <4>2. n \in Nat /\ Cardinality(New(by)) = n + 1
        BY <3>4
      <4> HIDE DEF n
      <4> QED BY <2>4, <4>1, <4>2, SignupAssumption
    <3>6. \A b \in sgUsers' : sgCredits'[b] = Welcome + Reward * Cardinality(New(b))
      <4>1. \A b \in sgUsers \ {by} : sgCredits'[b] = Welcome + Reward * Cardinality(New(b))
        <5>1. \A b \in sgUsers \ {by} : sgCredits'[b] = sgCredits[b]
          BY <2>2, <2>4
        <5> QED BY <1>0, <3>2, <5>1 DEF CreditsAddUp
      <4> QED BY <2>1, <3>5, <4>1
    <3> QED BY <3>6 DEF CreditsAddUp, RewardsOf, New
  <2> QED BY <2>5, <2>6, <2>7, <2>8, <2>9 DEF SignupInv
<1>9. ASSUME NEW a \in Addresses, AdminLeaves(a)
      PROVE  SignupInv'
  <2>1. /\ a \in sgAdmins /\ sgAdmins' = sgAdmins \ {a}
        /\ UNCHANGED <<sgUsers, sgReferrer, sgClaimed, sgCredits, sgLink, sgSignup>>
    BY <1>9 DEF AdminLeaves
  <2>2. SignupTypeOK'
    BY <1>0, <2>1 DEF SignupTypeOK
  <2>3. HandsAgree' /\ ReferrersWereThere' /\ LinksAreOfAddresses' /\ ReferredHaveAccounts'
    BY <1>0, <2>1 DEF HandsAgree, ReferrersWereThere, LinksAreOfAddresses, ReferredHaveAccounts
  <2>4. CreditsAddUp'
    BY <1>0, <2>1 DEF CreditsAddUp, RewardsOf
  <2>5. AdminsByRaceOnly'
    <3>1. Bare' = Bare
      BY <2>1 DEF Bare
    <3>2. IsFiniteSet(sgAdmins) /\ Cardinality(sgAdmins) \in Nat /\ Cardinality(Bare) \in Nat
          /\ Cardinality(Signups) \in Nat
      BY <1>0, SignupsAreFinite
    <3>3. Cardinality(sgAdmins') = Cardinality(sgAdmins) - 1
      BY <2>1, <3>2, FS_RemoveElement
    <3> QED BY <1>0, <3>1, <3>2, <3>3 DEF AdminsByRaceOnly
  <2> QED BY <2>2, <2>3, <2>4, <2>5 DEF SignupInv
<1>10. CASE UNCHANGED signupVars
  <2>1. UNCHANGED <<sgUsers, sgAdmins, sgReferrer, sgClaimed, sgCredits, sgLink, sgSignup>>
    BY <1>10 DEF signupVars
  <2>2. SignupTypeOK' /\ HandsAgree' /\ ReferrersWereThere' /\ LinksAreOfAddresses'
    BY <1>0, <2>1 DEF SignupTypeOK, HandsAgree, ReferrersWereThere, LinksAreOfAddresses
  <2>3. ReferredHaveAccounts' /\ AdminsByRaceOnly' /\ CreditsAddUp'
    BY <1>0, <2>1 DEF ReferredHaveAccounts, AdminsByRaceOnly, CreditsAddUp, RewardsOf, Bare
  <2> QED BY <2>2, <2>3 DEF SignupInv
<1> QED BY <1>1, <1>2, <1>3, <1>4, <1>5, <1>6, <1>7, <1>8, <1>9, <1>10 DEF SignupNext

\* NewcomersAddUp for any number of addresses, accounts and requests.
THEOREM NewcomersStart == SignupSpec => []NewcomersAddUp
<1>1. SignupInv => NewcomersAddUp
  BY DEF SignupInv, NewcomersAddUp, CreditsAddUp, RewardsOf, ReferrersWereThere, LinksAreOfAddresses
<1> QED BY <1>1, SignupInitial, SignupStep, PTL DEF SignupSpec

-----------------------------------------------------------------------------
(* Codes and PINs.                                                         *)

Code == [age : Ages, attempts : Nat, used : BOOLEAN]
CodeTry == {NULL} \cup [code : SentCodes, attempts : Nat, right : BOOLEAN, accepted : BOOLEAN]

\* The kinds of a code are not NULL.
LEMMA KindsAreNamed == \A kind \in {"otp", "reset"} : kind # NULL
BY CodesAssumption

\* Nothing is known of a code before it is sent.
NothingBefore ==
    /\ cdKind = NULL => cdAsk = {} /\ SentCodes = {}
    /\ \A c \in 1..MaxCodes \ SentCodes : cdServed[c] = 0 /\ cdWrong[c] = 0

\* A check of an otp began below the limit.
BelowLimit ==
    \A v \in Verifiers : cdTry[v] # NULL /\ cdKind = "otp" /\ ~cdTry[v].accepted =>
      cdTry[v].attempts < MaxAttempts

\* The codes whose row says how often they were tried and whether they served.
Counted ==
    {c \in SentCodes :
       /\ cdServed[c] <= 1
       /\ cdWrong[c] <= cdCodes[c].attempts
       /\ cdKind = "otp" => cdCodes[c].attempts <= MaxAttempts
       /\ ~cdCodes[c].used => cdServed[c] = 0}

\* The codes with which one check at most was accepted, which then has still to use it.
AcceptedChecks == {v \in Verifiers : cdTry[v] # NULL /\ cdTry[v].accepted}
AcceptedOnce ==
    {c \in SentCodes :
       \A v \in AcceptedChecks : cdTry[v].code = c =>
         /\ cdCodes[c].used /\ cdServed[c] = 0
         /\ \A w \in AcceptedChecks : cdTry[w].code = c => w = v}

\* Of a code whose checks did not overlap, the count of tries is right, and who was
\* accepted is the only one, and has not made use of it yet.
TriesOfCodes ==
    /\ NothingBefore /\ BelowLimit
    /\ SentCodes \ cdRaced \subseteq Counted
    /\ SentCodes \ cdRaced \subseteq AcceptedOnce

CodeInv == CodeTypeOK /\ TriesOfCodes

\* The initial states satisfy CodeInv.
LEMMA CodeInitial == CodeInit => CodeInv
<1> SUFFICES ASSUME CodeInit PROVE CodeTypeOK /\ TriesOfCodes
  BY DEF CodeInv
<1>0. MaxCodes \in Nat /\ MaxAttempts \in Nat
  BY CodesAssumption
<1>1. SentCodes = {} /\ Len(cdCodes) = 0 /\ cdCodes \in Seq(Code)
  <2>1. cdCodes = <<>>
    BY DEF CodeInit
  <2>2. cdCodes \in Seq(Code) /\ Len(cdCodes) = 0
    BY <2>1, EmptySeq
  <2>3. DOMAIN cdCodes = {}
    BY <2>1
  <2> QED BY <2>2, <2>3 DEF SentCodes
<1>2. CodeTypeOK
  <2>1. cdServed \in [1..MaxCodes -> Nat] /\ cdWrong \in [1..MaxCodes -> Nat]
    BY DEF CodeInit
  <2>2. cdTry \in [Verifiers -> CodeTry] /\ cdRaced \subseteq SentCodes /\ cdAsk \subseteq Askers
    BY DEF CodeInit, CodeTry
  <2>3. cdKind \in {"otp", "reset", NULL} /\ Len(cdCodes) <= MaxCodes
    BY <1>0, <1>1 DEF CodeInit
  <2> QED BY <1>1, <2>1, <2>2, <2>3 DEF CodeTypeOK, Code, CodeTry
<1>3. TriesOfCodes
  BY <1>1 DEF CodeInit, TriesOfCodes, NothingBefore, BelowLimit
<1> QED BY <1>2, <1>3

\* Of some numbers up to n one is the greatest.
LEMMA AGreatestOne ==
    ASSUME NEW n \in Nat, NEW S \in SUBSET (0..n), S # {}
    PROVE  \E c \in S : \A d \in S : d <= c
<1> DEFINE R == OpToRel(<, Nat)
           T == {n - c : c \in S}
<1>1. T \subseteq Nat /\ T # {}
  <2>1. \A c \in S : n - c \in Nat
    OBVIOUS
  <2>2. T \subseteq Nat
    BY <2>1
  <2>3. T # {}
    OBVIOUS
  <2> QED BY <2>2, <2>3
<1>2. PICK x \in T : \A y \in T : <<y, x>> \notin R
  <2>1. IsWellFoundedOn(R, Nat)
    BY NatLessThanWellFounded
  <2> HIDE DEF R, T
  <2> QED BY <1>1, <2>1, WFMin
<1>3. PICK c \in S : x = n - c
  OBVIOUS
<1>4. \A d \in S : ~(n - d < n - c)
  <2> SUFFICES ASSUME NEW d \in S, n - d < n - c PROVE FALSE
    OBVIOUS
  <2>1. n - d \in T
    OBVIOUS
  <2>2. <<n - d, x>> \in R
    BY <1>3, <1>1, <2>1 DEF OpToRel
  <2> QED BY <1>2, <2>1, <2>2
<1> QED BY <1>4

\* The codes as a function of their numbers, and what is known of a check.
LEMMA CodesAreNumbered ==
    ASSUME CodeTypeOK
    PROVE  /\ cdCodes \in Seq(Code) /\ Len(cdCodes) \in Nat /\ Len(cdCodes) <= MaxCodes
           /\ SentCodes = 1..Len(cdCodes)
           /\ \A c \in SentCodes : cdCodes[c] \in Code
           /\ \A c \in SentCodes : c \in 1..MaxCodes /\ cdServed[c] \in Nat /\ cdWrong[c] \in Nat
           /\ \A c \in SentCodes : cdCodes[c].attempts \in Nat /\ cdCodes[c].used \in BOOLEAN
<1>0. MaxCodes \in Nat /\ MaxAttempts \in Nat
  BY CodesAssumption
<1>1. cdCodes \in Seq(Code) /\ Len(cdCodes) <= MaxCodes
  BY DEF CodeTypeOK, Code
<1>2. Len(cdCodes) \in Nat /\ DOMAIN cdCodes = 1..Len(cdCodes)
  BY <1>1, LenProperties
<1>3. SentCodes = 1..Len(cdCodes)
  BY <1>2 DEF SentCodes
<1>4. \A c \in SentCodes : cdCodes[c] \in Code
  BY <1>1, <1>3, ElementOfSeq
<1>5. \A c \in SentCodes : c \in 1..MaxCodes
  BY <1>0, <1>1, <1>2, <1>3
<1>6. \A c \in SentCodes : cdServed[c] \in Nat /\ cdWrong[c] \in Nat
  BY <1>5 DEF CodeTypeOK
<1>7. \A c \in SentCodes : cdCodes[c].attempts \in Nat /\ cdCodes[c].used \in BOOLEAN
  BY <1>4 DEF Code
<1> QED BY <1>1, <1>2, <1>3, <1>4, <1>5, <1>6, <1>7

\* The tries of a call are numbers.
LEMMA TriesAreTyped ==
    ASSUME CodeTypeOK
    PROVE  /\ cdTry \in [Verifiers -> CodeTry]
           /\ \A v \in Verifiers : cdTry[v] # NULL =>
                /\ cdTry[v].code \in SentCodes /\ cdTry[v].attempts \in Nat
                /\ cdTry[v].right \in BOOLEAN /\ cdTry[v].accepted \in BOOLEAN
BY DEF CodeTypeOK, CodeTry

\* The newest of some codes is one of them.
LEMMA NewestIsOneOfThem ==
    ASSUME CodeTypeOK, NEW cs \in SUBSET SentCodes, cs # {}
    PROVE  Newest(cs) \in cs
<1>1. MaxCodes \in Nat /\ \A c \in SentCodes : c \in 1..MaxCodes
  BY CodesAreNumbered, CodesAssumption
<1>2. cs \subseteq 0..MaxCodes
  BY <1>1
<1>3. \E c \in cs : \A d \in cs : d <= c
  BY <1>1, <1>2, AGreatestOne
<1> QED BY <1>3 DEF Newest

\* What a step must keep, once what it does to each code and each check is known.
LEMMA CodeKept ==
    ASSUME CodeTypeOK, SentCodes' = SentCodes, cdCodes' \in Seq(Code), Len(cdCodes') = Len(cdCodes),
           cdKind' \in {"otp", "reset", NULL}, cdAsk' \subseteq Askers,
           cdTry' \in [Verifiers -> CodeTry], cdRaced' \subseteq SentCodes,
           cdServed' \in [1..MaxCodes -> Nat], cdWrong' \in [1..MaxCodes -> Nat]
    PROVE  CodeTypeOK'
<1>1. Len(cdCodes') <= MaxCodes
  BY DEF CodeTypeOK
<1>2. CodeTry = {NULL} \cup [code : SentCodes', attempts : Nat, right : BOOLEAN, accepted : BOOLEAN]
  BY DEF CodeTry
<1> QED BY <1>1, <1>2 DEF CodeTypeOK, Code

\* A step that changes one code, or sends one.
LEMMA ChangedCode ==
    ASSUME NEW i \in 1..Len(cdCodes), NEW e \in Code, cdCodes \in Seq(Code),
           cdCodes' = [cdCodes EXCEPT ![i] = e]
    PROVE  /\ cdCodes' \in Seq(Code) /\ Len(cdCodes') = Len(cdCodes)
           /\ \A c \in 1..Len(cdCodes) : cdCodes'[c] = IF c = i THEN e ELSE cdCodes[c]
BY SMT

\* A code is added behind the others.
LEMMA AddedCode ==
    ASSUME NEW e \in Code, cdCodes \in Seq(Code), cdCodes' = Append(cdCodes, e)
    PROVE  /\ cdCodes' \in Seq(Code) /\ Len(cdCodes') = Len(cdCodes) + 1
           /\ \A c \in 1..Len(cdCodes) : cdCodes'[c] = cdCodes[c]
           /\ cdCodes'[Len(cdCodes) + 1] = e
<1>1. /\ Append(cdCodes, e) \in Seq(Code)
      /\ Len(Append(cdCodes, e)) = Len(cdCodes) + 1
  BY AppendProperties
<1>2. \A c \in 1..Len(cdCodes) : Append(cdCodes, e)[c] = cdCodes[c]
  BY AppendProperties
<1>3. Append(cdCodes, e)[Len(cdCodes) + 1] = e
  BY AppendProperties
<1> QED BY <1>1, <1>2, <1>3

\* Who is accepted with a code stays the only one while nobody else is.
LEMMA AcceptedKept ==
    ASSUME NEW c \in SentCodes, c \in AcceptedOnce, c \in SentCodes',
           \A v \in AcceptedChecks' :
             cdTry'[v].code = c => v \in AcceptedChecks /\ cdTry[v].code = c,
           cdCodes[c].used => cdCodes'[c].used, cdServed'[c] = cdServed[c]
    PROVE  c \in AcceptedOnce'
BY DEF AcceptedOnce

\* Every step of CodeNext keeps CodeInv.
LEMMA CodeStep == CodeInv /\ [CodeNext]_codeVars => CodeInv'
<1> SUFFICES ASSUME CodeTypeOK, TriesOfCodes, [CodeNext]_codeVars
             PROVE  CodeTypeOK' /\ TriesOfCodes'
  BY DEF CodeInv
<1>0. MaxCodes \in Nat /\ MaxAttempts \in Nat
  BY CodesAssumption
<1>a. /\ cdCodes \in Seq(Code) /\ Len(cdCodes) \in Nat /\ Len(cdCodes) <= MaxCodes
      /\ SentCodes = 1..Len(cdCodes)
  BY CodesAreNumbered
<1>b. /\ \A c \in SentCodes : cdCodes[c] \in Code
      /\ \A c \in SentCodes : c \in 1..MaxCodes /\ cdServed[c] \in Nat /\ cdWrong[c] \in Nat
      /\ \A c \in SentCodes : cdCodes[c].attempts \in Nat /\ cdCodes[c].used \in BOOLEAN
  BY CodesAreNumbered
<1>c. /\ cdTry \in [Verifiers -> CodeTry]
      /\ \A v \in Verifiers : cdTry[v] # NULL =>
           /\ cdTry[v].code \in SentCodes /\ cdTry[v].attempts \in Nat
           /\ cdTry[v].right \in BOOLEAN /\ cdTry[v].accepted \in BOOLEAN
  BY TriesAreTyped
<1>d. /\ cdKind \in {"otp", "reset", NULL} /\ cdAsk \subseteq Askers
      /\ cdRaced \subseteq SentCodes
      /\ cdServed \in [1..MaxCodes -> Nat] /\ cdWrong \in [1..MaxCodes -> Nat]
  BY DEF CodeTypeOK
<1>e. /\ NothingBefore /\ BelowLimit
      /\ SentCodes \ cdRaced \subseteq Counted
      /\ SentCodes \ cdRaced \subseteq AcceptedOnce
  BY DEF TriesOfCodes
<1>1. ASSUME NEW s \in Askers, NEW kind \in {"otp", "reset"}, AskCode(s, kind)
      PROVE  CodeTypeOK' /\ TriesOfCodes'
  <2>1. /\ cdKind \in {kind, NULL} /\ cdKind' = kind /\ cdAsk' = cdAsk \cup {s}
        /\ UNCHANGED <<cdCodes, cdTry, cdServed, cdWrong, cdRaced>>
    BY <1>1 DEF AskCode
  <2>2. SentCodes' = SentCodes
    BY <2>1 DEF SentCodes
  <2>3. SentCodes # {} => cdKind' = cdKind
    BY <2>1, <1>e DEF NothingBefore
  <2>t. CodeTypeOK'
    BY <1>a, <1>c, <1>d, <2>1, <2>2, CodeKept
  <2>n. NothingBefore'
    BY <1>e, <2>1, <2>2, KindsAreNamed DEF NothingBefore
  <2>b. BelowLimit'
    BY <1>c, <1>e, <2>1, <2>2, <2>3 DEF BelowLimit
  <2>c. (SentCodes \ cdRaced \subseteq Counted)'
    BY <1>e, <2>1, <2>2, <2>3 DEF Counted
  <2>d. (SentCodes \ cdRaced \subseteq AcceptedOnce)'
    <3>1. \A x \in AcceptedChecks' : x \in AcceptedChecks /\ cdTry'[x].code = cdTry[x].code
      BY <2>1 DEF AcceptedChecks
    <3>2. ASSUME NEW c \in SentCodes' \ cdRaced' PROVE c \in AcceptedOnce'
      BY <1>e, <2>1, <2>2, <3>1, AcceptedKept
    <3> QED BY <3>2
  <2> QED BY <2>t, <2>n, <2>b, <2>c, <2>d DEF TriesOfCodes
<1>2. ASSUME NEW s \in Askers, SendCode(s)
      PROVE  CodeTypeOK' /\ TriesOfCodes'
  <2> DEFINE new == [age |-> "fresh", attempts |-> 0, used |-> FALSE]
             n == Len(cdCodes) + 1
  <2>1. /\ s \in cdAsk /\ Len(cdCodes) < MaxCodes /\ cdAsk' = cdAsk \ {s}
        /\ cdCodes' = Append(cdCodes, new)
        /\ UNCHANGED <<cdKind, cdTry, cdServed, cdWrong, cdRaced>>
    BY <1>2 DEF SendCode
  <2>2. new \in Code /\ new.attempts = 0 /\ new.used = FALSE
    BY DEF Code, Ages
  <2> HIDE DEF new
  <2>3. /\ cdCodes' \in Seq(Code) /\ Len(cdCodes') = Len(cdCodes) + 1
        /\ \A c \in 1..Len(cdCodes) : cdCodes'[c] = cdCodes[c]
        /\ cdCodes'[n] = new
    BY <1>a, <2>1, <2>2, AddedCode
  <2>4. SentCodes' = 1..Len(cdCodes')
    BY <2>3, LenProperties DEF SentCodes
  <2>5. SentCodes' = SentCodes \cup {n} /\ n \notin SentCodes /\ n \in 1..MaxCodes
    BY <1>0, <1>a, <2>1, <2>3, <2>4
  <2>6. cdServed[n] = 0 /\ cdWrong[n] = 0
    BY <1>e, <2>5 DEF NothingBefore
  <2>7. /\ \A c \in SentCodes : cdCodes'[c] = cdCodes[c]
        /\ cdCodes'[n].attempts = 0 /\ cdCodes'[n].used = FALSE
    BY <1>a, <2>2, <2>3
  <2>8. \A v \in Verifiers : cdTry[v] # NULL => cdTry[v].code # n
    BY <1>c, <2>5
  <2>t. CodeTypeOK'
    <3>1. cdTry' \in [Verifiers -> {NULL} \cup
            [code : SentCodes', attempts : Nat, right : BOOLEAN, accepted : BOOLEAN]]
      BY <1>c, <2>1, <2>5 DEF CodeTry
    <3>2. Len(cdCodes') <= MaxCodes /\ cdRaced' \subseteq SentCodes'
      <4>1. Len(cdCodes') <= MaxCodes
        BY <1>0, <1>a, <2>1, <2>3
      <4>2. cdRaced' \subseteq SentCodes'
        BY <1>d, <2>1, <2>5
      <4> QED BY <4>1, <4>2
    <3> QED BY <1>d, <2>1, <2>3, <3>1, <3>2 DEF CodeTypeOK, Code
  <2>n. NothingBefore'
    BY <1>d, <1>e, <2>1, <2>5 DEF NothingBefore
  <2>b. BelowLimit'
    BY <1>e, <2>1 DEF BelowLimit
  <2>c. (SentCodes \ cdRaced \subseteq Counted)'
    <3>1. ASSUME NEW c \in SentCodes \ cdRaced PROVE c \in Counted'
      <4>1. c \in Counted /\ c \in SentCodes'
        BY <1>e, <2>5
      <4> QED BY <4>1, <2>1, <2>7 DEF Counted
    <3>2. n \in Counted'
      BY <1>0, <2>1, <2>5, <2>6, <2>7 DEF Counted
    <3> QED BY <2>1, <2>5, <3>1, <3>2
  <2>d. (SentCodes \ cdRaced \subseteq AcceptedOnce)'
    <3>1. ASSUME NEW c \in SentCodes \ cdRaced PROVE c \in AcceptedOnce'
      <4>1. c \in AcceptedOnce /\ c \in SentCodes'
        BY <1>e, <2>5
      <4>2. AcceptedChecks' = AcceptedChecks
        BY <2>1 DEF AcceptedChecks
      <4> QED BY <4>1, <4>2, <2>1, <2>7, AcceptedKept
    <3>2. n \in AcceptedOnce'
      <4>1. \A v \in AcceptedChecks' : cdTry'[v].code # n
        BY <2>1, <2>8 DEF AcceptedChecks
      <4> QED BY <4>1, <2>5 DEF AcceptedOnce
    <3> QED BY <2>1, <2>5, <3>1, <3>2
  <2> QED BY <2>t, <2>n, <2>b, <2>c, <2>d DEF TriesOfCodes
<1>3. ASSUME NEW k \in SentCodes, Age(k)
      PROVE  CodeTypeOK' /\ TriesOfCodes'
  <2> DEFINE age == IF cdCodes[k].age = "fresh" THEN "valid" ELSE "expired"
             new == [cdCodes[k] EXCEPT !.age = age]
  <2>1. cdCodes' = [cdCodes EXCEPT ![k] = new]
    BY <1>3 DEF Age
  <2>2. UNCHANGED <<cdKind, cdAsk, cdTry, cdServed, cdWrong, cdRaced>>
    BY <1>3 DEF Age
  <2>3. new \in Code /\ new.attempts = cdCodes[k].attempts /\ new.used = cdCodes[k].used
    BY <1>b DEF Code, Ages
  <2> HIDE DEF new
  <2>4. /\ cdCodes' \in Seq(Code) /\ Len(cdCodes') = Len(cdCodes)
        /\ \A c \in 1..Len(cdCodes) : cdCodes'[c] = IF c = k THEN new ELSE cdCodes[c]
    <3>1. k \in 1..Len(cdCodes)
      BY <1>a
    <3> QED BY <1>a, <2>1, <2>3, <3>1, ChangedCode
  <2>5. SentCodes' = SentCodes
    BY <1>a, <2>4, LenProperties DEF SentCodes
  <2>6. \A c \in SentCodes : /\ cdCodes'[c].attempts = cdCodes[c].attempts
                             /\ cdCodes'[c].used = cdCodes[c].used
    BY <1>a, <2>3, <2>4
  <2>t. CodeTypeOK'
    BY <1>c, <1>d, <2>2, <2>4, <2>5, CodeKept
  <2>n. NothingBefore'
    BY <1>e, <2>2, <2>5 DEF NothingBefore
  <2>b. BelowLimit'
    BY <1>e, <2>2 DEF BelowLimit
  <2>c. (SentCodes \ cdRaced \subseteq Counted)'
    BY <1>e, <2>2, <2>5, <2>6 DEF Counted
  <2>d. (SentCodes \ cdRaced \subseteq AcceptedOnce)'
    <3>1. \A x \in AcceptedChecks' : x \in AcceptedChecks /\ cdTry'[x].code = cdTry[x].code
      BY <2>2 DEF AcceptedChecks
    <3>2. ASSUME NEW c \in SentCodes' \ cdRaced' PROVE c \in AcceptedOnce'
      BY <1>e, <2>2, <2>5, <2>6, <3>1, AcceptedKept
    <3> QED BY <3>2
  <2> QED BY <2>t, <2>n, <2>b, <2>c, <2>d DEF TriesOfCodes
<1>4. ASSUME NEW v \in Verifiers, NEW right \in BOOLEAN, ReadCode(v, right)
      PROVE  CodeTypeOK' /\ TriesOfCodes'
  <2> DEFINE unused == {c \in SentCodes : ~cdCodes[c].used}
             k == Newest(unused)
             new == [code |-> k, attempts |-> cdCodes[k].attempts, right |-> right, accepted |-> FALSE]
  <2>1. /\ unused # {} /\ MayTry(cdCodes[k]) /\ cdTry' = [cdTry EXCEPT ![v] = new]
    BY <1>4 DEF ReadCode
  <2>2. UNCHANGED <<cdKind, cdCodes, cdAsk, cdServed, cdWrong, cdRaced>>
    BY <1>4 DEF ReadCode
  <2>3. k \in SentCodes
    <3>1. unused \in SUBSET SentCodes
      OBVIOUS
    <3> HIDE DEF unused
    <3>2. k \in unused
      BY <2>1, <3>1, NewestIsOneOfThem
    <3> QED BY <3>1, <3>2
  <2> HIDE DEF unused, k
  <2>4. /\ new \in CodeTry /\ new.code = k /\ new.accepted = FALSE
        /\ new.attempts = cdCodes[k].attempts
    BY <1>b, <2>3 DEF CodeTry
  <2>5. cdKind = "otp" => new.attempts < MaxAttempts
    BY <2>1, <2>4 DEF MayTry
  <2> HIDE DEF new
  <2>6. /\ cdTry' \in [Verifiers -> CodeTry] /\ cdTry'[v] = new
        /\ \A w \in Verifiers \ {v} : cdTry'[w] = cdTry[w]
    BY <1>c, <2>1, <2>4
  <2>7. SentCodes' = SentCodes
    BY <2>2 DEF SentCodes
  <2>t. CodeTypeOK'
    BY <1>a, <1>d, <2>2, <2>6, <2>7, CodeKept
  <2>n. NothingBefore'
    BY <1>e, <2>2, <2>7 DEF NothingBefore
  <2>b. BelowLimit'
    BY <1>e, <2>2, <2>5, <2>6 DEF BelowLimit
  <2>c. (SentCodes \ cdRaced \subseteq Counted)'
    BY <1>e, <2>2, <2>7 DEF Counted
  <2>d. (SentCodes \ cdRaced \subseteq AcceptedOnce)'
    <3>1. \A x \in AcceptedChecks' : x \in AcceptedChecks /\ cdTry'[x].code = cdTry[x].code
      BY <2>4, <2>6 DEF AcceptedChecks
    <3>2. ASSUME NEW c \in SentCodes' \ cdRaced' PROVE c \in AcceptedOnce'
      BY <1>e, <2>2, <2>7, <3>1, AcceptedKept
    <3> QED BY <3>2
  <2> QED BY <2>t, <2>n, <2>b, <2>c, <2>d DEF TriesOfCodes
<1>5. ASSUME NEW v \in Verifiers, SaveCode(v), cdTry[v].right
      PROVE  CodeTypeOK' /\ TriesOfCodes'
  <2> DEFINE k == cdTry[v].code
             new == Consumed(cdCodes[k])
  <2>1. /\ cdTry[v] # NULL /\ cdCodes' = [cdCodes EXCEPT ![k] = new]
        /\ cdTry' = [cdTry EXCEPT ![v].accepted = TRUE]
        /\ UNCHANGED <<cdWrong, cdKind, cdAsk, cdServed>>
    BY <1>5 DEF SaveCode
  <2>2. k \in SentCodes
    BY <1>c, <2>1
  <2>3. /\ cdRaced \subseteq cdRaced' /\ cdRaced' \subseteq cdRaced \cup {k}
        /\ k \notin cdRaced' => ~cdCodes[k].used
    BY <1>5 DEF SaveCode
  <2>4. new \in Code /\ new.attempts = cdCodes[k].attempts /\ new.used = TRUE
    BY <1>b, <2>2 DEF Code, Consumed
  <2>5. /\ cdTry' \in [Verifiers -> CodeTry]
        /\ cdTry'[v].code = k /\ cdTry'[v].accepted = TRUE
        /\ \A w \in Verifiers \ {v} : cdTry'[w] = cdTry[w]
    <3>1. [cdTry[v] EXCEPT !.accepted = TRUE] \in
            [code : SentCodes, attempts : Nat, right : BOOLEAN, accepted : BOOLEAN]
      BY <1>c, <2>1 DEF CodeTry
    <3> QED BY <1>c, <2>1, <3>1 DEF CodeTry
  <2> HIDE DEF new
  <2>6. /\ cdCodes' \in Seq(Code) /\ Len(cdCodes') = Len(cdCodes)
        /\ \A c \in 1..Len(cdCodes) : cdCodes'[c] = IF c = k THEN new ELSE cdCodes[c]
    <3>1. k \in 1..Len(cdCodes)
      BY <1>a, <2>2
    <3> QED BY <1>a, <2>1, <2>4, <3>1, ChangedCode
  <2>7. SentCodes' = SentCodes
    BY <1>a, <2>6, LenProperties DEF SentCodes
  <2>8. \A c \in SentCodes : /\ cdCodes'[c].attempts = cdCodes[c].attempts
                             /\ cdCodes'[c].used = (cdCodes[c].used \/ c = k)
    BY <1>a, <1>b, <2>4, <2>6
  <2>9. cdTry[v].code = k
    OBVIOUS
  <2> HIDE DEF k
  <2>t. CodeTypeOK'
    BY <1>d, <2>1, <2>2, <2>3, <2>5, <2>6, <2>7, CodeKept
  <2>n. NothingBefore'
    BY <1>e, <2>1, <2>7 DEF NothingBefore
  <2>b. BelowLimit'
    BY <1>e, <2>1, <2>5 DEF BelowLimit
  <2>c. (SentCodes \ cdRaced \subseteq Counted)'
    BY <1>e, <2>1, <2>3, <2>7, <2>8 DEF Counted
  <2>d. (SentCodes \ cdRaced \subseteq AcceptedOnce)'
    <3>1. \A x \in AcceptedChecks' :
            cdTry'[x].code = cdTry[x].code /\ (x # v => x \in AcceptedChecks)
      BY <2>5, <2>9 DEF AcceptedChecks
    <3>2. ASSUME NEW c \in SentCodes \ cdRaced', c # k PROVE c \in AcceptedOnce'
      <4>1. c \in AcceptedOnce /\ (cdCodes[c].used => cdCodes'[c].used)
        BY <1>e, <2>3, <2>8, <3>2
      <4> QED BY <2>1, <2>7, <2>9, <3>1, <3>2, <4>1, AcceptedKept
    <3>3. ASSUME k \notin cdRaced' PROVE k \in AcceptedOnce'
      <4>1. k \in AcceptedOnce /\ k \in Counted /\ ~cdCodes[k].used
        BY <1>e, <2>2, <2>3, <3>3
      <4>2. /\ cdServed[k] = 0
            /\ \A w \in AcceptedChecks : cdTry[w].code # k
        BY <4>1 DEF AcceptedOnce, Counted
      <4>3. cdCodes'[k].used /\ \A w \in AcceptedChecks' : cdTry'[w].code = k => w = v
        BY <2>2, <2>8, <3>1, <4>2
      <4> QED BY <2>1, <2>2, <2>7, <4>2, <4>3 DEF AcceptedOnce
    <3> QED BY <2>7, <3>2, <3>3
  <2> QED BY <2>t, <2>n, <2>b, <2>c, <2>d DEF TriesOfCodes
<1>6. ASSUME NEW v \in Verifiers, SaveCode(v), ~cdTry[v].right
      PROVE  CodeTypeOK' /\ TriesOfCodes'
  <2> DEFINE k == cdTry[v].code
             new == [cdCodes[k] EXCEPT !.attempts = cdTry[v].attempts + 1]
  <2>1. /\ cdTry[v] # NULL /\ ~cdTry[v].accepted /\ cdCodes' = [cdCodes EXCEPT ![k] = new]
        /\ cdTry' = [cdTry EXCEPT ![v] = NULL]
        /\ cdWrong' = [cdWrong EXCEPT ![k] = UpTo(MaxAttempts + 1, @ + 1)]
        /\ UNCHANGED <<cdKind, cdAsk, cdServed>>
    BY <1>6 DEF SaveCode
  <2>2. k \in SentCodes /\ cdTry[v].attempts \in Nat
    BY <1>c, <2>1
  <2>3. /\ cdRaced \subseteq cdRaced' /\ cdRaced' \subseteq cdRaced \cup {k}
        /\ k \notin cdRaced' => ~cdCodes[k].used /\ cdCodes[k].attempts = cdTry[v].attempts
    BY <1>6 DEF SaveCode
  <2>4. /\ new \in Code /\ new.attempts = cdTry[v].attempts + 1 /\ new.used = cdCodes[k].used
    BY <1>b, <2>2 DEF Code
  <2>5. /\ cdTry' \in [Verifiers -> CodeTry] /\ cdTry'[v] = NULL
        /\ \A w \in Verifiers \ {v} : cdTry'[w] = cdTry[w]
    BY <1>c, <2>1 DEF CodeTry
  <2> HIDE DEF new
  <2>6. /\ cdCodes' \in Seq(Code) /\ Len(cdCodes') = Len(cdCodes)
        /\ \A c \in 1..Len(cdCodes) : cdCodes'[c] = IF c = k THEN new ELSE cdCodes[c]
    <3>1. k \in 1..Len(cdCodes)
      BY <1>a, <2>2
    <3> QED BY <1>a, <2>1, <2>4, <3>1, ChangedCode
  <2>7. SentCodes' = SentCodes
    BY <1>a, <2>6, LenProperties DEF SentCodes
  <2>8. /\ \A c \in SentCodes : cdCodes'[c].used = cdCodes[c].used
        /\ \A c \in SentCodes \ {k} : cdCodes'[c].attempts = cdCodes[c].attempts
        /\ cdCodes'[k].attempts = cdTry[v].attempts + 1
    BY <1>a, <2>2, <2>4, <2>6
  <2>9. /\ cdWrong' \in [1..MaxCodes -> Nat] /\ cdWrong'[k] <= cdWrong[k] + 1
        /\ \A c \in (1..MaxCodes) \ {k} : cdWrong'[c] = cdWrong[c]
    <3>1. k \in 1..MaxCodes /\ cdWrong[k] \in Nat
      BY <1>b, <2>2
    <3>2. UpTo(MaxAttempts + 1, cdWrong[k] + 1) \in Nat
      BY <1>0, <3>1 DEF UpTo
    <3>3. UpTo(MaxAttempts + 1, cdWrong[k] + 1) <= cdWrong[k] + 1
      BY <1>0, <3>1 DEF UpTo
    <3> QED BY <1>d, <2>1, <3>1, <3>2, <3>3
  <2>10. cdKind = "otp" => cdTry[v].attempts < MaxAttempts
    BY <1>e, <2>1 DEF BelowLimit
  <2> HIDE DEF k
  <2>t. CodeTypeOK'
    BY <1>d, <2>1, <2>2, <2>3, <2>5, <2>6, <2>7, <2>9, CodeKept
  <2>n. NothingBefore'
    BY <1>e, <2>1, <2>2, <2>7, <2>9 DEF NothingBefore
  <2>b. BelowLimit'
    BY <1>e, <2>1, <2>5 DEF BelowLimit
  <2>c. (SentCodes \ cdRaced \subseteq Counted)'
    <3>1. ASSUME NEW c \in SentCodes \ cdRaced', c # k PROVE c \in Counted'
      BY <1>b, <1>e, <2>1, <2>3, <2>7, <2>8, <2>9, <3>1 DEF Counted
    <3>2. ASSUME k \notin cdRaced' PROVE k \in Counted'
      <4>1. k \in Counted /\ ~cdCodes[k].used /\ cdCodes[k].attempts = cdTry[v].attempts
        BY <1>e, <2>2, <2>3, <3>2
      <4>2. cdWrong[k] \in Nat /\ cdWrong'[k] \in Nat /\ cdWrong[k] <= cdTry[v].attempts /\ cdServed[k] = 0
        BY <1>b, <2>2, <2>9, <4>1 DEF Counted
      <4>3. cdWrong'[k] <= cdCodes'[k].attempts /\ (cdKind = "otp" => cdCodes'[k].attempts <= MaxAttempts)
        BY <1>0, <2>2, <2>8, <2>9, <2>10, <4>2
      <4> QED BY <2>1, <2>2, <2>7, <4>2, <4>3 DEF Counted
    <3> QED BY <2>7, <3>1, <3>2
  <2>d. (SentCodes \ cdRaced \subseteq AcceptedOnce)'
    <3>1. \A x \in AcceptedChecks' : x \in AcceptedChecks /\ cdTry'[x].code = cdTry[x].code
      BY <2>5 DEF AcceptedChecks
    <3>2. ASSUME NEW c \in SentCodes' \ cdRaced' PROVE c \in AcceptedOnce'
      BY <1>e, <2>1, <2>3, <2>7, <2>8, <3>1, AcceptedKept
    <3> QED BY <3>2
  <2> QED BY <2>t, <2>n, <2>b, <2>c, <2>d DEF TriesOfCodes
<1>7. ASSUME NEW v \in Verifiers, UseCode(v)
      PROVE  CodeTypeOK' /\ TriesOfCodes'
  <2> DEFINE k == cdTry[v].code
  <2>1. /\ cdTry[v] # NULL /\ cdTry[v].accepted /\ cdTry' = [cdTry EXCEPT ![v] = NULL]
        /\ cdServed' = [cdServed EXCEPT ![k] = UpTo(2, @ + 1)]
        /\ UNCHANGED <<cdKind, cdCodes, cdAsk, cdWrong, cdRaced>>
    BY <1>7 DEF UseCode
  <2>2. SentCodes' = SentCodes /\ k \in SentCodes
    BY <1>c, <2>1 DEF SentCodes
  <2>3. /\ cdTry' \in [Verifiers -> CodeTry] /\ cdTry'[v] = NULL
        /\ \A w \in Verifiers \ {v} : cdTry'[w] = cdTry[w]
    BY <1>c, <2>1 DEF CodeTry
  <2>4. /\ cdServed' \in [1..MaxCodes -> Nat] /\ cdServed'[k] <= cdServed[k] + 1
        /\ \A c \in (1..MaxCodes) \ {k} : cdServed'[c] = cdServed[c]
    <3>1. k \in 1..MaxCodes /\ cdServed[k] \in Nat
      BY <1>b, <2>2
    <3>2. UpTo(2, cdServed[k] + 1) \in Nat
      BY <3>1 DEF UpTo
    <3>3. UpTo(2, cdServed[k] + 1) <= cdServed[k] + 1
      BY <3>1 DEF UpTo
    <3> QED BY <1>d, <2>1, <3>1, <3>2, <3>3
  <2>5. ASSUME k \notin cdRaced
        PROVE  /\ cdServed[k] = 0 /\ cdCodes[k].used
               /\ \A w \in AcceptedChecks : cdTry[w].code = k => w = v
    <3>1. k \in AcceptedOnce /\ v \in AcceptedChecks
      BY <1>e, <2>1, <2>2, <2>5 DEF AcceptedChecks
    <3> QED BY <3>1 DEF AcceptedOnce
  <2> HIDE DEF k
  <2>t. CodeTypeOK'
    BY <1>a, <1>d, <2>1, <2>2, <2>3, <2>4, CodeKept
  <2>n. NothingBefore'
    BY <1>e, <2>1, <2>2, <2>4 DEF NothingBefore
  <2>b. BelowLimit'
    BY <1>e, <2>1, <2>3 DEF BelowLimit
  <2>c. (SentCodes \ cdRaced \subseteq Counted)'
    <3>1. ASSUME NEW c \in SentCodes \ cdRaced, c # k PROVE c \in Counted'
      BY <1>b, <1>e, <2>1, <2>2, <2>4, <3>1 DEF Counted
    <3>2. ASSUME k \notin cdRaced PROVE k \in Counted'
      <4>1. k \in Counted /\ cdServed'[k] <= 1 /\ cdCodes[k].used
        BY <1>e, <2>2, <2>4, <2>5, <3>2
      <4> QED BY <2>1, <2>2, <4>1 DEF Counted
    <3> QED BY <2>1, <2>2, <3>1, <3>2
  <2>d. (SentCodes \ cdRaced \subseteq AcceptedOnce)'
    <3>1. \A x \in AcceptedChecks' :
            x \in AcceptedChecks /\ x # v /\ cdTry'[x].code = cdTry[x].code
      BY <2>3 DEF AcceptedChecks
    <3>2. ASSUME NEW c \in SentCodes \ cdRaced, c # k PROVE c \in AcceptedOnce'
      <4>1. c \in AcceptedOnce /\ cdServed'[c] = cdServed[c]
        BY <1>b, <1>e, <2>4, <3>2
      <4> QED BY <2>1, <2>2, <3>1, <4>1, AcceptedKept
    <3>3. ASSUME k \notin cdRaced PROVE k \in AcceptedOnce'
      BY <2>2, <2>5, <3>1, <3>3 DEF AcceptedOnce
    <3> QED BY <2>1, <2>2, <3>2, <3>3
  <2> QED BY <2>t, <2>n, <2>b, <2>c, <2>d DEF TriesOfCodes
<1>8. ASSUME NEW v \in Verifiers, CheckBreaksOff(v)
      PROVE  CodeTypeOK' /\ TriesOfCodes'
  <2>1. /\ cdTry' = [cdTry EXCEPT ![v] = NULL]
        /\ UNCHANGED <<cdKind, cdCodes, cdAsk, cdServed, cdWrong, cdRaced>>
    BY <1>8 DEF CheckBreaksOff
  <2>2. SentCodes' = SentCodes
    BY <2>1 DEF SentCodes
  <2>3. /\ cdTry' \in [Verifiers -> CodeTry] /\ cdTry'[v] = NULL
        /\ \A w \in Verifiers \ {v} : cdTry'[w] = cdTry[w]
    BY <1>c, <2>1 DEF CodeTry
  <2>t. CodeTypeOK'
    BY <1>a, <1>d, <2>1, <2>2, <2>3, CodeKept
  <2>n. NothingBefore'
    BY <1>e, <2>1, <2>2 DEF NothingBefore
  <2>b. BelowLimit'
    BY <1>e, <2>1, <2>3 DEF BelowLimit
  <2>c. (SentCodes \ cdRaced \subseteq Counted)'
    BY <1>e, <2>1, <2>2 DEF Counted
  <2>d. (SentCodes \ cdRaced \subseteq AcceptedOnce)'
    <3>1. \A x \in AcceptedChecks' : x \in AcceptedChecks /\ cdTry'[x].code = cdTry[x].code
      BY <2>3 DEF AcceptedChecks
    <3>2. ASSUME NEW c \in SentCodes' \ cdRaced' PROVE c \in AcceptedOnce'
      BY <1>e, <2>1, <2>2, <3>1, AcceptedKept
    <3> QED BY <3>2
  <2> QED BY <2>t, <2>n, <2>b, <2>c, <2>d DEF TriesOfCodes
<1>9. CASE UNCHANGED codeVars
  <2>1. UNCHANGED <<cdKind, cdAsk, cdTry, cdServed, cdWrong, cdRaced, cdCodes>>
    BY <1>9 DEF codeVars
  <2>2. SentCodes' = SentCodes
    BY <2>1 DEF SentCodes
  <2>t. CodeTypeOK'
    BY <1>a, <1>c, <1>d, <2>1, <2>2, CodeKept
  <2>n. NothingBefore'
    BY <1>e, <2>1, <2>2 DEF NothingBefore
  <2>b. BelowLimit'
    BY <1>e, <2>1 DEF BelowLimit
  <2>c. (SentCodes \ cdRaced \subseteq Counted)'
    BY <1>e, <2>1, <2>2 DEF Counted
  <2>d. (SentCodes \ cdRaced \subseteq AcceptedOnce)'
    <3>1. \A x \in AcceptedChecks' : x \in AcceptedChecks /\ cdTry'[x].code = cdTry[x].code
      BY <2>1 DEF AcceptedChecks
    <3>2. ASSUME NEW c \in SentCodes' \ cdRaced' PROVE c \in AcceptedOnce'
      BY <1>e, <2>1, <2>2, <3>1, AcceptedKept
    <3> QED BY <3>2
  <2> QED BY <2>t, <2>n, <2>b, <2>c, <2>d DEF TriesOfCodes
<1> QED
  <2>1. \A v \in Verifiers : SaveCode(v) => CodeTypeOK' /\ TriesOfCodes'
    BY <1>5, <1>6
  <2> QED BY <1>1, <1>2, <1>3, <1>4, <2>1, <1>7, <1>8, <1>9 DEF CodeNext

\* What a PIN whose requests did not overlap counts are the wrong tries.
TriesOfPin ==
    /\ \A w \in PinChecks : pnTry[w] # NULL =>
         pnRow # NULL /\ (pnTry[w].does = "wrong" => pnTry[w].read.failed <= MaxPinAttempts)
    /\ pnRow # NULL /\ ~pnRaced =>
         /\ pnRow.failed = pnWrong
         /\ pnRow.locked = "none" <=> pnWrong < MaxPinAttempts

PinInv == PinTypeOK /\ TriesOfPin
PinTry == [read : PinRow, does : PinUses]

\* The initial states satisfy PinInv.
LEMMA PinInitial == PinInit => PinInv
<1> SUFFICES ASSUME PinInit PROVE PinTypeOK /\ TriesOfPin
  BY DEF PinInv
<1>0. MaxPinAttempts \in Nat
  BY PinAssumption
<1>1. PinTypeOK
  <2>1. pnTry \in [PinChecks -> {NULL} \cup [read : PinRow, does : PinUses]]
    BY DEF PinInit
  <2>2. /\ pnWrong \in 0..(MaxPinAttempts + 1)
        /\ pnRaced \in BOOLEAN
    <3>1. 0 \in 0..(MaxPinAttempts + 1)
      BY <1>0
    <3> QED BY <3>1 DEF PinInit
  <2> QED BY <2>1, <2>2 DEF PinInit, PinTypeOK
<1>2. TriesOfPin
  BY DEF PinInit, TriesOfPin
<1> QED BY <1>1, <1>2

\* Every step of PinNext keeps PinInv.
LEMMA PinStep == PinInv /\ [PinNext]_pinVars => PinInv'
<1> SUFFICES ASSUME PinTypeOK, TriesOfPin, [PinNext]_pinVars
             PROVE  PinTypeOK' /\ TriesOfPin'
  BY DEF PinInv
<1>0. MaxPinAttempts \in Nat \ {0}
  BY PinAssumption
<1>a. NewPin \in PinRow /\ NewPin.failed = 0 /\ NewPin.locked = "none"
  BY <1>0 DEF NewPin, PinRow, PinLocks
<1>b. /\ pnRow \in PinRow \cup {NULL} /\ pnTry \in [PinChecks -> {NULL} \cup PinTry]
      /\ pnWrong \in 0..(MaxPinAttempts + 1) /\ pnRaced \in BOOLEAN
      /\ 0 \in 0..(MaxPinAttempts + 1)
  BY <1>0 DEF PinTypeOK, PinTry
<1>c. \A r \in PinRow : r.failed \in 0..(MaxPinAttempts + 1) /\ r.locked \in PinLocks
  BY DEF PinRow
<1>d. \A t \in PinTry : t.read \in PinRow /\ t.does \in PinUses
  BY DEF PinTry
<1>e. \A r \in PinRow : r # NULL
  <2> SUFFICES ASSUME NEW r \in PinRow PROVE r # NULL
    OBVIOUS
  <2>1. r \in [failed : Nat, locked : PinLocks]
    <3>1. 0..(MaxPinAttempts + 1) \subseteq Nat
      BY <1>0
    <3> HIDE DEF PinLocks
    <3> QED BY <3>1 DEF PinRow
  <2>2. NULL \notin [failed : Nat, locked : PinLocks]
    BY PinAssumption DEF PinLocks
  <2> QED BY <2>1, <2>2
<1>1. CASE MakePin
  <2>1. pnRow' = NewPin /\ pnWrong' = 0 /\ UNCHANGED <<pnTry, pnRaced>>
    BY <1>1 DEF MakePin
  <2>2. PinTypeOK'
    BY <1>0, <1>a, <1>b, <2>1 DEF PinTypeOK, PinTry
  <2>3. ASSUME NewPin # NULL PROVE TriesOfPin'
    BY <1>0, <1>a, <2>1, <2>3 DEF TriesOfPin
  <2>4. NewPin # NULL
    BY <1>a, <1>e
  <2> QED BY <2>2, <2>3, <2>4
<1>2. CASE LockLapses
  <2> DEFINE new == [pnRow EXCEPT !.locked = "lapsed"]
  <2>1. /\ pnRow # NULL /\ pnRow.locked = "locked" /\ pnRow' = new
        /\ UNCHANGED <<pnTry, pnWrong, pnRaced>>
    BY <1>2 DEF LockLapses
  <2>2. new \in PinRow /\ new.failed = pnRow.failed /\ new.locked = "lapsed"
    BY <1>b, <2>1 DEF PinRow, PinLocks
  <2> HIDE DEF new
  <2>3. PinTypeOK'
    BY <1>b, <2>1, <2>2 DEF PinTypeOK, PinTry
  <2>4. TriesOfPin'
    <3>1. pnRow' # NULL
      BY <1>e, <2>1, <2>2
    <3>2. \A x \in PinChecks : pnTry'[x] # NULL =>
            (pnTry'[x].does = "wrong" => pnTry'[x].read.failed <= MaxPinAttempts)
      BY <2>1 DEF TriesOfPin
    <3>3. ~pnRaced' => /\ pnRow'.failed = pnWrong'
                       /\ pnRow'.locked = "none" <=> pnWrong' < MaxPinAttempts
      BY <2>1, <2>2 DEF TriesOfPin
    <3> QED BY <3>1, <3>2, <3>3 DEF TriesOfPin
  <2> QED BY <2>3, <2>4
<1>3. ASSUME NEW w \in PinChecks, NEW does \in PinUses, ReadPin(w, does)
      PROVE  PinTypeOK' /\ TriesOfPin'
  <2> DEFINE new == [read |-> pnRow, does |-> does]
  <2>1. /\ pnRow # NULL /\ (does = "wrong" => pnRow.failed <= MaxPinAttempts)
        /\ pnTry' = [pnTry EXCEPT ![w] = new]
        /\ UNCHANGED <<pnRow, pnWrong, pnRaced>>
    BY <1>3 DEF ReadPin
  <2>2. new \in PinTry /\ new.read = pnRow /\ new.does = does
    BY <1>b, <2>1 DEF PinTry
  <2> HIDE DEF new
  <2>3. /\ pnTry' \in [PinChecks -> {NULL} \cup PinTry] /\ pnTry'[w] = new
        /\ \A x \in PinChecks \ {w} : pnTry'[x] = pnTry[x]
    BY <1>b, <2>1, <2>2
  <2>4. PinTypeOK'
    BY <1>b, <2>1, <2>3 DEF PinTypeOK, PinTry
  <2>5. TriesOfPin'
    BY <2>1, <2>2, <2>3 DEF TriesOfPin
  <2> QED BY <2>4, <2>5
<1>4. ASSUME NEW w \in PinChecks, SavePin(w)
      PROVE  PinTypeOK' /\ TriesOfPin'
  <2> DEFINE try == pnTry[w]
             new == After(try)
             failed == IF new.failed = try.read.failed THEN pnRow.failed ELSE new.failed
             locked == IF new.locked = try.read.locked THEN pnRow.locked ELSE new.locked
             saved == [n \in {"failed", "locked"} |->
                         IF new[n] = try.read[n] THEN pnRow[n] ELSE new[n]]
  <2>1. /\ try # NULL /\ pnRow' = saved
        /\ pnRaced' = (pnRaced \/ pnRow # try.read)
        /\ pnWrong' = IF try.does # "wrong" THEN 0 ELSE UpTo(MaxPinAttempts + 1, pnWrong + 1)
        /\ pnTry' = [pnTry EXCEPT ![w] = NULL]
    BY <1>4 DEF SavePin
  <2>2. /\ try.read \in PinRow /\ pnRow \in PinRow /\ pnRow # NULL
        /\ try.does = "wrong" => try.read.failed <= MaxPinAttempts
    BY <1>b, <1>d, <2>1 DEF TriesOfPin
  <2>3. /\ try.read.failed \in 0..(MaxPinAttempts + 1) /\ pnRow.failed \in 0..(MaxPinAttempts + 1)
        /\ try.read.locked \in PinLocks /\ pnRow.locked \in PinLocks
    BY <1>c, <2>2
  <2>4. /\ new.failed = (IF try.does # "wrong" THEN 0 ELSE try.read.failed + 1)
        /\ new.locked = (IF new.failed >= MaxPinAttempts THEN "locked" ELSE "none")
    <3>1. CASE try.does # "wrong"
      BY <1>0, <1>a, <3>1 DEF After
    <3>2. CASE try.does = "wrong"
      BY <3>2 DEF After
    <3> QED BY <3>1, <3>2
  <2>5. saved = [failed |-> failed, locked |-> locked]
    OBVIOUS
  <2> HIDE DEF new, try
  <2>6. new.failed \in 0..(MaxPinAttempts + 1) /\ new.locked \in PinLocks
    BY <1>0, <2>2, <2>3, <2>4 DEF PinLocks
  <2>7. failed \in 0..(MaxPinAttempts + 1) /\ locked \in PinLocks
    BY <2>3, <2>6
  <2>8. saved \in PinRow /\ saved.failed = failed /\ saved.locked = locked
    BY <2>5, <2>7 DEF PinRow
  <2>9. /\ pnTry' \in [PinChecks -> {NULL} \cup PinTry] /\ pnTry'[w] = NULL
        /\ \A x \in PinChecks \ {w} : pnTry'[x] = pnTry[x]
    BY <1>b, <2>1
  <2>10. pnWrong' \in 0..(MaxPinAttempts + 1)
    BY <1>0, <1>b, <2>1 DEF UpTo
  <2> HIDE DEF saved, failed, locked
  <2>11. PinTypeOK'
    BY <1>b, <2>1, <2>8, <2>9, <2>10 DEF PinTypeOK, PinTry
  <2>12. ASSUME ~pnRaced'
         PROVE  /\ saved.failed = pnWrong'
                /\ saved.locked = "none" <=> pnWrong' < MaxPinAttempts
    <3>1. ~pnRaced /\ pnRow = try.read
      BY <1>b, <2>1, <2>12
    <3>2. failed = new.failed /\ locked = new.locked
      BY <3>1 DEF failed, locked
    <3>3. try.read.failed = pnWrong
      BY <2>2, <3>1 DEF TriesOfPin
    <3>4. pnWrong' = new.failed
      BY <1>0, <1>b, <2>1, <2>2, <2>4, <3>3 DEF UpTo
    <3>5. new.locked = "none" <=> new.failed < MaxPinAttempts
      BY <1>0, <2>4, <2>6
    <3> QED BY <2>8, <3>2, <3>4, <3>5
  <2>14. TriesOfPin'
    <3>1. \A x \in PinChecks : pnTry'[x] # NULL =>
            pnRow' # NULL /\ (pnTry'[x].does = "wrong" => pnTry'[x].read.failed <= MaxPinAttempts)
      BY <2>1, <1>e, <2>8, <2>9 DEF TriesOfPin
    <3> QED BY <2>1, <2>12, <3>1 DEF TriesOfPin
  <2> QED BY <2>11, <2>14
<1>5. ASSUME NEW w \in PinChecks, RefuseChange(w)
      PROVE  PinTypeOK' /\ TriesOfPin'
  <2>1. /\ pnTry' = [pnTry EXCEPT ![w] = NULL]
        /\ UNCHANGED <<pnRow, pnWrong, pnRaced>>
    BY <1>5 DEF RefuseChange
  <2>2. /\ pnTry' \in [PinChecks -> {NULL} \cup PinTry] /\ pnTry'[w] = NULL
        /\ \A x \in PinChecks \ {w} : pnTry'[x] = pnTry[x]
    BY <1>b, <2>1
  <2>3. PinTypeOK'
    BY <1>b, <2>1, <2>2 DEF PinTypeOK, PinTry
  <2>4. TriesOfPin'
    BY <2>1, <2>2 DEF TriesOfPin
  <2> QED BY <2>3, <2>4
<1>6. CASE UNCHANGED pinVars
  <2>1. UNCHANGED <<pnRow, pnTry, pnWrong, pnRaced>>
    BY <1>6 DEF pinVars
  <2>2. PinTypeOK'
    BY <2>1 DEF PinTypeOK
  <2>3. TriesOfPin'
    BY <2>1 DEF TriesOfPin
  <2> QED BY <2>2, <2>3
<1> QED BY <1>1, <1>2, <1>3, <1>4, <1>5, <1>6 DEF PinNext

\* A code serves once, and a code of verifyOtp and the PIN of verifyPin are tried no more
\* often than their limits say, unless requests about one row overlapped: for every
\* number of requests, of codes and of tries. Neither limit holds where the code has
\* none: for the codes that reset the PIN, and for the current PIN of setPin.
THEOREM TriesCount == CodeSpec /\ PinSpec => []TriesAreCounted
<1>1. CodeSpec => []CodeInv
  BY CodeInitial, CodeStep, PTL DEF CodeSpec
<1>2. PinSpec => []PinInv
  BY PinInitial, PinStep, PTL DEF PinSpec
<1>3. CodeInv => CodesServeOnce
  <2> SUFFICES ASSUME CodeInv, NEW c \in SentCodes \ cdRaced
               PROVE  cdServed[c] <= 1 /\ (cdKind = "otp" => cdWrong[c] <= MaxAttempts)
    BY DEF CodesServeOnce
  <2>1. c \in Counted
    BY DEF CodeInv, TriesOfCodes
  <2>2. /\ cdServed[c] \in Nat /\ cdWrong[c] \in Nat /\ cdCodes[c].attempts \in Nat
        /\ MaxAttempts \in Nat
    BY CodesAreNumbered, CodesAssumption DEF CodeInv
  <2> QED BY <2>1, <2>2 DEF Counted
<1>4. PinInv => LocksFollowTries
  <2> SUFFICES ASSUME PinInv, pnRow # NULL, ~pnRaced
               PROVE  /\ pnRow.locked = "locked" => pnWrong >= MaxPinAttempts
                      /\ pnRow.locked = "none" => pnWrong < MaxPinAttempts
    BY DEF LocksFollowTries
  <2>1. pnWrong \in 0..(MaxPinAttempts + 1) /\ MaxPinAttempts \in Nat
    BY PinAssumption DEF PinInv, PinTypeOK
  <2>2. pnRow.locked = "none" <=> pnWrong < MaxPinAttempts
    BY DEF PinInv, TriesOfPin
  <2> QED BY <2>1, <2>2
<1> QED BY <1>1, <1>2, <1>3, <1>4, PTL DEF TriesAreCounted

-----------------------------------------------------------------------------
(* Keys of payments.                                                       *)

KeysAtWork == {"running", "committed", "answered", "refused"}

\* The requests whose charge stands.
StandingKeys == ikCharged \ ikFailed

\* Who owns a row, and what the stage of a request tells about its charge.
OwnersInv ==
    /\ \A r \in Posts :
        /\ ikStage[r] \in KeysAtWork =>
             ikRow[KeyOf[r]].status = "in_progress" /\ ikRow[KeyOf[r]].owner = r
        /\ r \in StandingKeys =>
             ikRow[KeyOf[r]] # NoRow /\ ikRow[KeyOf[r]].owner = r
        /\ ikStage[r] \in {"committed", "answered"} => r \in StandingKeys
        /\ ikStage[r] \in {"unsent", "running"} => r \notin ikCharged
        /\ ikStage[r] = "refused" => r \notin StandingKeys
    /\ \A k \in Keys : ikRow[k] # NoRow => ikRow[k].hash = BodyOf[ikRow[k].owner]
    /\ \A k \in Keys : ikRow[k].status = "completed" => ikRow[k].owner \in StandingKeys

USE IdempotencyAssumption

-----------------------------------------------------------------------------
(* Types.                                                                  *)

\* Replies are of the type of replies.
LEMMA ReplyTypes ==
    ASSUME KeyTypeOK, NEW r \in Posts, NEW a, Reply(r, a),
           a \in {None, Error} \cup {Success(q) : q \in Posts}
    PROVE  ikAnswer' \in [Posts -> {None, Error} \cup {Success(q) : q \in Posts}]
  <1> DEFINE Told == {None, Error} \cup {Success(q) : q \in Posts}
  <1>1. ikAnswer \in [Posts -> Told] BY DEF KeyTypeOK
  <1>2. a \in Told OBVIOUS
  <1>3. ikAnswer' = [ikAnswer EXCEPT ![r] = IF r \in ikLost THEN ikAnswer[r] ELSE a]
    BY DEF Reply
  <1> HIDE DEF Told
  <1>4. ikAnswer' \in [Posts -> Told] BY <1>1, <1>2, <1>3
  <1> QED BY <1>4 DEF Told

\* A row is NoRow or a record; the two cannot be confused.
LEMMA RowFacts ==
    ASSUME KeyTypeOK, NEW k \in Keys
    PROVE  /\ ikRow[k] # NoRow => ikRow[k] \in Claimed /\ ikRow[k].owner \in Posts
           /\ ikRow[k].status \in {"in_progress", "completed"} => ikRow[k] # NoRow
  BY DEF KeyTypeOK, Claimed, NoRow

\* The initial states satisfy KeyTypeOK.
LEMMA KeyInitial == KeyInit => KeyTypeOK
  BY DEF KeyInit, KeyTypeOK, Stages, NoRow, Claimed

\* Every step of KeyNext keeps KeyTypeOK.
LEMMA KeyTyped == KeyTypeOK /\ OwnersInv /\ [KeyNext]_ikVars => KeyTypeOK'
  <1> SUFFICES ASSUME KeyTypeOK, OwnersInv, [KeyNext]_ikVars PROVE KeyTypeOK'
    OBVIOUS
  <1>1. CASE UNCHANGED ikVars
    BY <1>1 DEF ikVars, KeyTypeOK
  <1>2. ASSUME NEW r \in Posts, Claim(r) PROVE KeyTypeOK'
    <2>1. [status |-> "in_progress", hash |-> BodyOf[r], owner |-> r] \in Claimed
      BY DEF Claimed
    <2> QED BY <1>2, <2>1 DEF Claim, KeyTypeOK, Stages
  <1>3. ASSUME NEW r \in Posts, Replay(r) PROVE KeyTypeOK'
    <2>1. KeyOf[r] \in Keys OBVIOUS
    <2>2. ikRow[KeyOf[r]].owner \in Posts
      BY <1>3, <2>1, RowFacts DEF Replay, Replayable
    <2>3. Success(ikRow[KeyOf[r]].owner) \in {Success(q) : q \in Posts}
      BY <2>2
    <2>4. ikAnswer' \in [Posts -> {None, Error} \cup {Success(q) : q \in Posts}]
      BY <1>3, <2>3, ReplyTypes DEF Replay
    <2> QED BY <1>3, <2>4 DEF Replay, KeyTypeOK, Stages
  <1>4. ASSUME NEW r \in Posts, Conflict(r) \/ Refuse(r) \/ FailLate(r),
               FailLate(r) => r \in ikCharged
        PROVE  KeyTypeOK'
    <2>1. ikAnswer' \in [Posts -> {None, Error} \cup {Success(q) : q \in Posts}]
      BY <1>4, ReplyTypes DEF Conflict, Refuse, FailLate
    <2> QED BY <1>4, <2>1 DEF Conflict, Refuse, FailLate, KeyTypeOK, Stages
  <1>5. ASSUME NEW r \in Posts, Succeed(r) PROVE KeyTypeOK'
    <2>1. ikAnswer' \in [Posts -> {None, Error} \cup {Success(q) : q \in Posts}]
      BY <1>5, ReplyTypes DEF Succeed
    <2> QED BY <1>5, <2>1 DEF Succeed, KeyTypeOK, Stages
  <1>6. ASSUME NEW r \in Posts, Commit(r) PROVE KeyTypeOK'
    BY <1>6 DEF Commit, KeyTypeOK, Stages
  <1>7. ASSUME NEW r \in Posts, Finish(r) PROVE KeyTypeOK'
    <2>1. ikRow[KeyOf[r]] \in Claimed
      BY <1>7, RowFacts DEF Finish, OwnersInv, KeysAtWork
    <2>2. RowAtFinish(r) \in {NoRow} \cup Claimed
      BY <2>1 DEF RowAtFinish, Claimed
    <2>3. \/ RowAtFinish(r) = NoRow
          \/ RowAtFinish(r).owner = ikRow[KeyOf[r]].owner
      BY <2>1 DEF RowAtFinish, Claimed
    <2> DEFINE new == RowAtFinish(r)
    <2>4. ikRow' = [ikRow EXCEPT ![KeyOf[r]] = new]
      BY <1>7 DEF Finish
    <2>5. ikRow[KeyOf[r]] # NoRow
      BY <2>1 DEF Claimed, NoRow
    <2> HIDE DEF new
    <2>6. \A k \in Keys : ikRow'[k] # NoRow => KeyOf[ikRow'[k].owner] = k
      BY <2>3, <2>4, <2>5 DEF KeyTypeOK, new
    <2>7. ikRow' \in [Keys -> {NoRow} \cup Claimed]
      BY <2>2, <2>4 DEF KeyTypeOK, new
    <2> QED BY <1>7, <2>6, <2>7 DEF Finish, KeyTypeOK, Stages
  <1>8. ASSUME NEW r \in Posts, Disconnect(r) \/ Stop(r) PROVE KeyTypeOK'
    BY <1>8 DEF Disconnect, Stop, KeyTypeOK, Stages
  <1>9. ASSUME NEW r \in Posts, FailLate(r) PROVE r \in ikCharged
    BY <1>9 DEF FailLate, OwnersInv, StandingKeys
  <1> QED
    BY <1>1, <1>2, <1>3, <1>4, <1>5, <1>6, <1>7, <1>8, <1>9 DEF KeyNext

-----------------------------------------------------------------------------
(* Ownership.                                                              *)

\* The initial states satisfy OwnersInv.
LEMMA OwnersInit == KeyInit => OwnersInv
  BY DEF KeyInit, OwnersInv, KeysAtWork, StandingKeys, NoRow

\* Every step of KeyNext keeps OwnersInv.
LEMMA OwnersNext == KeyTypeOK /\ OwnersInv /\ [KeyNext]_ikVars => OwnersInv'
  <1> SUFFICES ASSUME KeyTypeOK, OwnersInv, [KeyNext]_ikVars PROVE OwnersInv'
    OBVIOUS
  <1>1. CASE UNCHANGED ikVars
    BY <1>1 DEF ikVars, OwnersInv, StandingKeys
  \* Nobody at work and no standing charge has the key: its row was free.
  <1>2. ASSUME NEW r \in Posts, Claim(r) PROVE OwnersInv'
    <2> DEFINE new == [status |-> "in_progress", hash |-> BodyOf[r], owner |-> r]
    <2>1. new # NoRow /\ new.owner = r /\ new.status = "in_progress"
              /\ new.hash = BodyOf[r]
      BY DEF NoRow
    <2> HIDE DEF new
    <2>2. ikRow' = [ikRow EXCEPT ![KeyOf[r]] = new] /\ ikRow[KeyOf[r]] = NoRow
      BY <1>2 DEF Claim, Free, new
    <2>3. \A q \in Posts : ikStage[q] \in KeysAtWork \/ q \in StandingKeys
                              => KeyOf[q] # KeyOf[r]
      BY <2>2 DEF OwnersInv, NoRow
    <2> QED
      BY <1>2, <2>1, <2>2, <2>3 DEF Claim, OwnersInv, KeysAtWork, StandingKeys, KeyTypeOK
  <1>3. ASSUME NEW r \in Posts, Replay(r) \/ Conflict(r) PROVE OwnersInv'
    BY <1>3 DEF Replay, Conflict, OwnersInv, KeysAtWork, StandingKeys, KeyTypeOK
  <1>4. ASSUME NEW r \in Posts, Commit(r) PROVE OwnersInv'
    <2>1. ikStage[r] = "running" /\ ikStage' = [ikStage EXCEPT ![r] = "committed"]
              /\ ikRow' = ikRow
      BY <1>4 DEF Commit
    <2>2. StandingKeys' = StandingKeys \cup {r} /\ ikCharged' = ikCharged \cup {r}
      BY <1>4, <2>1 DEF Commit, OwnersInv, StandingKeys, KeyTypeOK
    <2>3. ikRow[KeyOf[r]].status = "in_progress" /\ ikRow[KeyOf[r]].owner = r
              /\ ikRow[KeyOf[r]] # NoRow
      BY <2>1, RowFacts DEF OwnersInv, KeysAtWork
    <2> QED BY <2>1, <2>2, <2>3 DEF OwnersInv, KeysAtWork, KeyTypeOK
  <1>5. ASSUME NEW r \in Posts, Refuse(r) \/ Succeed(r) PROVE OwnersInv'
    BY <1>5 DEF Refuse, Succeed, OwnersInv, KeysAtWork, StandingKeys, KeyTypeOK
  \* The row has the stage "in_progress": it is not completed.
  <1>6. ASSUME NEW r \in Posts, FailLate(r) PROVE OwnersInv'
    <2>1. ikStage[r] = "committed" /\ ikStage' = [ikStage EXCEPT ![r] = "refused"]
              /\ ikRow' = ikRow /\ ikCharged' = ikCharged
      BY <1>6 DEF FailLate
    <2>2. StandingKeys' = StandingKeys \ {r}
      BY <1>6 DEF FailLate, StandingKeys
    <2>3. ikRow[KeyOf[r]].status = "in_progress" /\ ikRow[KeyOf[r]].owner = r
      BY <2>1 DEF OwnersInv, KeysAtWork
    <2>4. \A k \in Keys : ikRow[k].status = "completed" => ikRow[k].owner # r
      <3> SUFFICES ASSUME NEW k \in Keys, ikRow[k].status = "completed", ikRow[k].owner = r
                   PROVE  FALSE
        OBVIOUS
      <3>1. k = KeyOf[r]
        BY RowFacts DEF KeyTypeOK
      <3> QED BY <2>3, <3>1
    <2> QED BY <2>1, <2>2, <2>3, <2>4 DEF OwnersInv, KeysAtWork, KeyTypeOK
  \* A row is deleted by its owner alone, who is charged no more.
  <1>7. ASSUME NEW r \in Posts, Finish(r) PROVE OwnersInv'
    <2> DEFINE old == ikRow[KeyOf[r]]
               new == RowAtFinish(r)
    <2>1. old \in Claimed /\ old.owner = r /\ old.status = "in_progress"
      BY <1>7, RowFacts DEF Finish, OwnersInv, KeysAtWork
    <2>2. ikRow' = [ikRow EXCEPT ![KeyOf[r]] = new]
      BY <1>7 DEF Finish
    <2>3. CASE ikStage[r] = "answered"
      <3>1. new.status = "completed" /\ new.owner = r /\ new.hash = old.hash
                /\ new # NoRow
        BY <2>1, <2>3 DEF RowAtFinish, Claimed, NoRow
      <3>2. r \in StandingKeys
        BY <2>3 DEF OwnersInv
      <3>3. old # NoRow
        BY <2>1 DEF NoRow, Claimed
      <3> HIDE DEF new
      <3> QED
        BY <1>7, <2>1, <2>2, <3>1, <3>2, <3>3 DEF Finish, OwnersInv, KeysAtWork, StandingKeys, KeyTypeOK
    <2>4. CASE ikStage[r] = "refused"
      <3>1. new = NoRow /\ NoRow.status = "none"
        BY <2>4 DEF RowAtFinish, NoRow
      <3>2. r \notin StandingKeys
        BY <2>4 DEF OwnersInv
      <3>3. \A q \in Posts \ {r} : ikStage[q] \in KeysAtWork \/ q \in StandingKeys
                                       => KeyOf[q] # KeyOf[r]
        BY <2>1 DEF OwnersInv
      <3> HIDE DEF new
      <3> QED
        BY <1>7, <2>2, <3>1, <3>2, <3>3 DEF Finish, OwnersInv, KeysAtWork, StandingKeys, KeyTypeOK
    <2> QED BY <1>7, <2>3, <2>4 DEF Finish
  <1>8. ASSUME NEW r \in Posts, Disconnect(r) \/ Stop(r) PROVE OwnersInv'
    BY <1>8 DEF Disconnect, Stop, OwnersInv, KeysAtWork, StandingKeys, KeyTypeOK
  <1> QED
    BY <1>1, <1>2, <1>3, <1>4, <1>5, <1>6, <1>7, <1>8 DEF KeyNext

-----------------------------------------------------------------------------
(* The theorems.                                                           *)

\* Every reachable state has the declared types, and a key's row belongs to a
\* request with that key.
THEOREM KeysAreTyped == KeySpec => [](KeyTypeOK /\ OwnersInv)
  <1>1. KeyTypeOK /\ OwnersInv /\ [KeyNext]_ikVars => KeyTypeOK' /\ OwnersInv'
    BY KeyTyped, OwnersNext
  <1> QED
    BY KeyInitial, OwnersInit, <1>1, PTL DEF KeySpec

\* Of the charges made under a key, at most one did not end in an error answer:
\* two requests whose charge stands would both own the key's row.
THEOREM ChargedOncePerKey == KeySpec => []OneChargePerKey
  <1>1. KeyTypeOK /\ OwnersInv => OneChargePerKey
    BY DEF OwnersInv, StandingKeys, OneChargePerKey, KeyTypeOK
  <1> QED BY KeysAreTyped, <1>1, PTL

\* Without a failure after a commit the middleware's promise holds: no double
\* charge, whatever is retried, lost, stopped or not saved.
THEOREM NoDoubleChargeUnlessFailedLate ==
    KeySpec => [](ikFailed = {} => NoDoubleCharge)
  <1>1. OneChargePerKey => (ikFailed = {} => NoDoubleCharge)
    BY DEF OneChargePerKey, NoDoubleCharge
  <1> QED BY ChargedOncePerKey, <1>1, PTL

\* AnswersAreTrue, made inductive: who is told about has answered already, so
\* his charge cannot fail any more.
AnswersInv ==
    \A r \in Posts :
        ikAnswer[r].is = "success" =>
            LET q == ikAnswer[r].of
            IN  /\ q \in StandingKeys
                /\ ikStage[q] \in {"answered", "over"}
                /\ KeyOf[q] = KeyOf[r]
                /\ BodyOf[q] = BodyOf[r]

\* One more request is answered; the others keep their answers.
LEMMA OneAnswer ==
    ASSUME KeyTypeOK, AnswersInv, NEW r \in Posts, NEW a, Reply(r, a),
           StandingKeys \subseteq StandingKeys',
           \A q \in Posts : ikStage[q] \in {"answered", "over"} =>
                                  ikStage'[q] \in {"answered", "over"},
           a.is = "success" =>
               /\ a.of \in StandingKeys' /\ ikStage'[a.of] \in {"answered", "over"}
               /\ KeyOf[a.of] = KeyOf[r] /\ BodyOf[a.of] = BodyOf[r]
    PROVE  AnswersInv'
  <1> SUFFICES ASSUME NEW q \in Posts, ikAnswer'[q].is = "success"
               PROVE  LET p == ikAnswer'[q].of
                      IN  /\ p \in StandingKeys'
                          /\ ikStage'[p] \in {"answered", "over"}
                          /\ KeyOf[p] = KeyOf[q]
                          /\ BodyOf[p] = BodyOf[q]
    BY DEF AnswersInv
  <1>1. ikAnswer'[q] = ikAnswer[q] \/ (q = r /\ ikAnswer'[q] = a)
    BY DEF Reply, KeyTypeOK
  <1>2. StandingKeys \subseteq Posts
    BY DEF StandingKeys, KeyTypeOK
  <1> QED BY <1>1, <1>2 DEF AnswersInv

\* Requests that do not answer leave the answers as they are.
LEMMA NoAnswer ==
    ASSUME KeyTypeOK, AnswersInv, ikAnswer' = ikAnswer, StandingKeys \subseteq StandingKeys',
           \A q \in Posts : ikStage[q] \in {"answered", "over"} =>
                                  ikStage'[q] \in {"answered", "over"}
    PROVE  AnswersInv'
  BY DEF AnswersInv, StandingKeys, KeyTypeOK

\* Every step of KeyNext keeps AnswersInv.
LEMMA AnswersNext == KeyTypeOK /\ OwnersInv /\ AnswersInv /\ [KeyNext]_ikVars => AnswersInv'
  <1> SUFFICES ASSUME KeyTypeOK, OwnersInv, AnswersInv, [KeyNext]_ikVars PROVE AnswersInv'
    OBVIOUS
  <1>1. CASE UNCHANGED ikVars
    BY <1>1 DEF ikVars, AnswersInv, StandingKeys
  <1>2. ASSUME NEW r \in Posts,
               Claim(r) \/ Commit(r) \/ Finish(r) \/ Disconnect(r) \/ Stop(r)
        PROVE  AnswersInv'
    <2>1. ikAnswer' = ikAnswer /\ StandingKeys \subseteq StandingKeys'
      BY <1>2 DEF Claim, Commit, Finish, Disconnect, Stop, StandingKeys, OwnersInv
    <2>2. \A q \in Posts : ikStage[q] \in {"answered", "over"} =>
                                 ikStage'[q] \in {"answered", "over"}
      BY <1>2 DEF Claim, Commit, Finish, Disconnect, Stop, KeyTypeOK
    <2> QED BY <2>1, <2>2, NoAnswer
  <1>3. ASSUME NEW r \in Posts, Conflict(r) \/ Refuse(r) PROVE AnswersInv'
    <2>1. Reply(r, Error) /\ Error.is # "success" /\ StandingKeys \subseteq StandingKeys'
      BY <1>3 DEF Conflict, Refuse, StandingKeys, Error
    <2>2. \A q \in Posts : ikStage[q] \in {"answered", "over"} =>
                                 ikStage'[q] \in {"answered", "over"}
      BY <1>3 DEF Conflict, Refuse, KeyTypeOK
    <2> QED BY <2>1, <2>2, OneAnswer
  <1>4. ASSUME NEW r \in Posts, Succeed(r) PROVE AnswersInv'
    <2>1. Reply(r, Success(r)) /\ Success(r).of = r /\ StandingKeys \subseteq StandingKeys'
      BY <1>4 DEF Succeed, StandingKeys, Success
    <2>2. r \in StandingKeys' /\ ikStage'[r] = "answered"
      BY <1>4 DEF Succeed, StandingKeys, OwnersInv, KeyTypeOK
    <2>3. \A q \in Posts : ikStage[q] \in {"answered", "over"} =>
                                 ikStage'[q] \in {"answered", "over"}
      BY <1>4 DEF Succeed, KeyTypeOK
    <2> QED BY <2>1, <2>2, <2>3, OneAnswer
  \* The owner of a completed row has answered.
  <1>5. ASSUME NEW r \in Posts, Replay(r) PROVE AnswersInv'
    <2> DEFINE q == ikRow[KeyOf[r]].owner
    <2>1. /\ ikRow[KeyOf[r]].status = "completed" /\ ikRow[KeyOf[r]].hash = BodyOf[r]
          /\ KeyOf[r] \in Keys
      BY <1>5 DEF Replay, Replayable
    <2>2. ikRow[KeyOf[r]] # NoRow /\ q \in Posts
      BY <2>1, RowFacts
    <2>3. q \in StandingKeys /\ KeyOf[q] = KeyOf[r] /\ BodyOf[q] = BodyOf[r]
      BY <2>1, <2>2 DEF OwnersInv, KeyTypeOK
    <2>4. ikStage[q] = "over"
      BY <2>1, <2>2, <2>3 DEF OwnersInv, KeysAtWork, KeyTypeOK, Stages, StandingKeys
    <2>5. Reply(r, Success(q)) /\ Success(q).of = q /\ StandingKeys \subseteq StandingKeys'
      BY <1>5 DEF Replay, StandingKeys, Success
    <2>6. \A p \in Posts : ikStage[p] \in {"answered", "over"} =>
                                 ikStage'[p] \in {"answered", "over"}
      BY <1>5 DEF Replay, KeyTypeOK
    <2> HIDE DEF q
    <2> QED BY <2>2, <2>3, <2>4, <2>5, <2>6, OneAnswer
  \* Who fails late has not answered, so nobody was told about him.
  <1>6. ASSUME NEW r \in Posts, FailLate(r) PROVE AnswersInv'
    <2>1. /\ ikStage[r] = "committed" /\ Reply(r, Error) /\ ikCharged' = ikCharged
          /\ ikFailed' = ikFailed \cup {r}
          /\ ikStage' = [ikStage EXCEPT ![r] = "refused"]
      BY <1>6 DEF FailLate
    <2>2. SUFFICES ASSUME NEW p \in Posts, ikAnswer'[p].is = "success"
                   PROVE  LET q == ikAnswer'[p].of
                          IN  /\ q \in StandingKeys'
                              /\ ikStage'[q] \in {"answered", "over"}
                              /\ KeyOf[q] = KeyOf[p]
                              /\ BodyOf[q] = BodyOf[p]
      BY DEF AnswersInv
    <2>3. ikAnswer'[p] = ikAnswer[p]
      BY <2>1, <2>2 DEF Reply, Error, KeyTypeOK
    <2>4. ikAnswer[p].of \in StandingKeys /\ ikAnswer[p].of # r
      BY <2>1, <2>2, <2>3 DEF AnswersInv
    <2> QED BY <2>1, <2>2, <2>3, <2>4 DEF AnswersInv, StandingKeys, KeyTypeOK
  <1> QED
    BY <1>1, <1>2, <1>3, <1>4, <1>5, <1>6 DEF KeyNext

\* A success answer tells of a charge that was made for this key and this body.
THEOREM SuccessIsTrue == KeySpec => []AnswersAreTrue
  <1>1. KeyInit => AnswersInv
    BY DEF KeyInit, AnswersInv, None
  <1>2. AnswersInv => AnswersAreTrue
    BY DEF AnswersInv, AnswersAreTrue, StandingKeys
  <1> QED BY KeysAreTyped, <1>1, <1>2, AnswersNext, PTL DEF KeySpec

\* A key is blocked only by a request at work or by a loss: whoever leaves his
\* row in progress has lost his connection, stopped, or could not save it.
THEOREM BlockedKeys == KeySpec => []BlockedByLossOnly
  <1>1. KeyInit => BlockedByLossOnly
    BY DEF KeyInit, BlockedByLossOnly, NoRow
  <1>2. KeyTypeOK /\ OwnersInv /\ BlockedByLossOnly /\ [KeyNext]_ikVars => BlockedByLossOnly'
    <2> SUFFICES ASSUME KeyTypeOK, OwnersInv, BlockedByLossOnly, [KeyNext]_ikVars,
                        NEW k \in Keys, ikRow'[k].status = "in_progress"
                 PROVE  \/ ikStage'[ikRow'[k].owner] \in KeysAtWork
                        \/ ikRow'[k].owner \in ikLost'
      BY DEF BlockedByLossOnly, KeysAtWork
    <2>1. ikRow[k] = ikRow'[k] =>
            /\ ikRow[k].owner \in Posts
            /\ ikStage[ikRow[k].owner] \in KeysAtWork \/ ikRow[k].owner \in ikLost
      BY RowFacts DEF BlockedByLossOnly, KeysAtWork
    <2>2. CASE UNCHANGED ikVars
      BY <2>1, <2>2 DEF ikVars
    <2>3. ASSUME NEW r \in Posts, Claim(r)
          PROVE  ikStage'[ikRow'[k].owner] \in KeysAtWork \/ ikRow'[k].owner \in ikLost'
      <3>1. CASE k = KeyOf[r]
        BY <2>3, <3>1 DEF Claim, KeyTypeOK, KeysAtWork
      <3>2. CASE k # KeyOf[r]
        BY <2>1, <2>3, <3>2 DEF Claim, KeyTypeOK, KeysAtWork
      <3> QED BY <3>1, <3>2
    <2>4. ASSUME NEW r \in Posts,
                 \/ Replay(r) \/ Conflict(r) \/ Commit(r) \/ Refuse(r) \/ Succeed(r)
                 \/ FailLate(r) \/ Disconnect(r) \/ Stop(r)
          PROVE  ikStage'[ikRow'[k].owner] \in KeysAtWork \/ ikRow'[k].owner \in ikLost'
      <3>1. ikRow' = ikRow
        BY <2>4 DEF Replay, Conflict, Commit, Refuse, Succeed, FailLate, Disconnect, Stop
      <3>2. /\ ikLost \subseteq ikLost'
            /\ \A q \in Posts : ikStage[q] \in KeysAtWork =>
                                       ikStage'[q] \in KeysAtWork \/ q \in ikLost'
        BY <2>4 DEF Replay, Conflict, Commit, Refuse, Succeed, FailLate, Disconnect,
                    Stop, KeysAtWork, KeyTypeOK
      <3> QED BY <2>1, <3>1, <3>2
    <2>5. ASSUME NEW r \in Posts, Finish(r)
          PROVE  ikStage'[ikRow'[k].owner] \in KeysAtWork \/ ikRow'[k].owner \in ikLost'
      <3>1. ikRow[KeyOf[r]] \in Claimed
        BY <2>5, RowFacts DEF Finish, OwnersInv, KeysAtWork
      <3>2. RowAtFinish(r).status # "in_progress"
        BY <3>1 DEF RowAtFinish, NoRow, Claimed
      <3>3. k # KeyOf[r] /\ ikRow'[k] = ikRow[k]
        BY <2>5, <3>2 DEF Finish, KeyTypeOK
      <3>4. ikRow[k].owner # r
        BY <3>3, RowFacts DEF KeyTypeOK
      <3> QED BY <2>1, <2>5, <3>3, <3>4 DEF Finish, KeyTypeOK
    <2> QED BY <2>2, <2>3, <2>4, <2>5 DEF KeyNext
  <1> QED BY KeysAreTyped, <1>1, <1>2, PTL DEF KeySpec

\* A key is charged once, its answers are true, and it is blocked by a loss only.
THEOREM KeysAreKept == KeySpec => []KeysKept
  <1>1. OneChargePerKey /\ AnswersAreTrue /\ BlockedByLossOnly => KeysKept
    BY DEF KeysKept
  <1> QED BY <1>1, ChargedOncePerKey, SuccessIsTrue, BlockedKeys, PTL

-----------------------------------------------------------------------------
(* SponsorBooks.                                                           *)

\* A payment has its request to itself, which has a row and is not paid; what
\* has no row has no payment either.
PaymentsHold ==
    /\ \A p \in Payers : spPay[p] # NULL => ~spPaid[spPay[p]] /\ spStatus[spPay[p]] # "none"
    /\ \A p \in Payers : \A q \in Payers : spPay[p] = spPay[q] /\ spPay[p] # NULL => p = q
    /\ \A r \in Requests : spStatus[r] = "none" => ~spPaid[r]

\* A request that is not paid was charged nothing; one that is, its price,
\* unless it was priced again.
ChargesArePrices ==
    /\ \A r \in Requests : ~spPaid[r] => spCharged[r] = 0
    /\ \A r \in Requests \ spRepriced : spPaid[r] => spCharged[r] = spPrice[r]

\* What left the wallet is what was charged.
WalletIsCharged == spBalance + SumOn(spCharged, Requests) = Opening

\* Who approves the request.
Approving(r) == {a \in Admins : spHand[a].req = r /\ spHand[a].to = "approved"}

ApprovalsHaveAds ==
    /\ \A a \in Admins : spHand[a].at = "saved" => spHand[a].to = "approved"
    /\ \A r \in Requests : spAds[r] + Cardinality(Approving(r)) <= MaxAds
    /\ \A r \in Requests \ spBroken : spStatus[r] = "approved" =>
         spAds[r] > 0 \/ \E a \in Admins : spHand[a].at = "saved" /\ spHand[a].req = r

SponsorInv == SponsorTypeOK /\ PaymentsHold /\ ChargesArePrices /\ WalletIsCharged
                /\ ApprovalsHaveAds

\* The invariant says the property.
LEMMA SponsorSafe == SponsorInv => SponsorBooks
BY Zenon DEF SponsorInv, SponsorBooks, ChargesArePrices, WalletIsCharged, ApprovalsHaveAds,
      SumOn

\* The initial states satisfy SponsorInv.
LEMMA SponsorInitial == SponsorInit => SponsorInv
<1> SUFFICES ASSUME SponsorInit PROVE SponsorInv
  OBVIOUS
<1>1. SponsorTypeOK
  BY SponsorAssumption DEF SponsorInit, SponsorTypeOK, NoHand
<1>2. PaymentsHold /\ ChargesArePrices
  BY DEF SponsorInit, PaymentsHold, ChargesArePrices
<1>3. WalletIsCharged
  <2>1. SumOn(spCharged, Requests) = 0
    BY SumOfNothing, SponsorAssumption DEF SponsorInit
  <2> QED BY <2>1, SponsorAssumption DEF SponsorInit, WalletIsCharged
<1>4. ApprovalsHaveAds
  <2>1. \A r \in Requests : Approving(r) = {}
    BY DEF SponsorInit, Approving, NoHand
  <2>2. \A r \in Requests : Cardinality(Approving(r)) = 0
    BY <2>1, FS_EmptySet
  <2> QED BY <2>2, SponsorAssumption DEF SponsorInit, ApprovalsHaveAds, NoHand
<1> QED BY <1>1, <1>2, <1>3, <1>4 DEF SponsorInv

-----------------------------------------------------------------------------
\* Prices are natural numbers.
LEMMA PricesAreCredits == \A v \in Prices \cup {0} : v \in Nat
BY SponsorAssumption

\* Steps keep the types.
LEMMA SponsorTypeStep == SponsorInv /\ SponsorNext => SponsorTypeOK'
<1> SUFFICES ASSUME SponsorInv, SponsorNext PROVE SponsorTypeOK'
  OBVIOUS
<1>t. SponsorTypeOK /\ ApprovalsHaveAds
  BY DEF SponsorInv
<1>a. Prices \subseteq Nat /\ Opening \in Nat /\ MaxAds \in Nat /\ NULL \notin Requests
  BY SponsorAssumption
<1>b. \A r \in Requests : spPrice[r] \in Nat
  <2> TAKE r \in Requests
  <2>1. spPrice[r] \in Prices \cup {0}
    BY <1>t DEF SponsorTypeOK
  <2> QED BY <2>1, PricesAreCredits
<1>1. ASSUME NEW r \in Requests, NEW v \in Prices, Submit(r, v) PROVE SponsorTypeOK'
  BY <1>1, <1>t DEF Submit, SponsorTypeOK, SponsorStatuses
<1>2. ASSUME NEW p \in Payers, Pay(p) PROVE SponsorTypeOK'
  <2>1. spPay[p] \in Requests
    BY <1>2, <1>t DEF Pay, SponsorTypeOK
  <2>2. spPrice[spPay[p]] \in Nat
    BY <2>1, <1>b
  <2>3. spBalance' \in 0..Opening
    BY <1>2, <1>t, <1>a, <2>2 DEF Pay, Affords, SponsorTypeOK
  <2>4. spCharged' \in [Requests -> Nat]
    BY <1>2, <1>t, <2>1, <2>2 DEF Pay, SponsorTypeOK
  <2> QED BY <1>2, <1>t, <2>1, <2>3, <2>4 DEF Pay, SponsorTypeOK
<1>3. ASSUME NEW p \in Payers, PaymentFails(p) PROVE SponsorTypeOK'
  BY <1>3, <1>t DEF PaymentFails, SponsorTypeOK
<1>4. ASSUME NEW p \in Payers, NEW r \in Requests, StartPayment(p, r) PROVE SponsorTypeOK'
  BY <1>4, <1>t DEF StartPayment, SponsorTypeOK
<1>5. ASSUME NEW a \in Admins, NEW r \in Requests, NEW to \in SponsorStatuses,
             NEW v \in Prices \cup {0}, ReadRequest(a, r, to, v)
      PROVE  SponsorTypeOK'
  <2> DEFINE new == [at |-> "read", req |-> r, to |-> to, price |-> v, seen |-> spStatus[r]]
  <2>1. new \in [at : {"read", "saved"}, req : Requests, to : SponsorStatuses,
                 price : Prices \cup {0}, seen : SponsorStatuses]
    BY <1>5, <1>t DEF ReadRequest, SponsorTypeOK
  <2>2. spHand' = [spHand EXCEPT ![a] = new]
    BY <1>5 DEF ReadRequest
  <2> HIDE DEF new
  <2> QED BY <1>5, <1>t, <2>1, <2>2 DEF ReadRequest, SponsorTypeOK
<1>6. ASSUME NEW a \in Admins, NEW r \in Requests, NEW v \in Prices, ReadToPrice(a, r, v)
      PROVE  SponsorTypeOK'
  BY <1>5, <1>6 DEF ReadToPrice, SponsorStatuses
<1>7. ASSUME NEW a \in Admins, NEW r \in Requests, NEW d \in Reviews, ReadToReview(a, r, d)
      PROVE  SponsorTypeOK'
  BY <1>5, <1>7 DEF ReadToReview, SponsorStatuses
<1>8. ASSUME NEW a \in Admins, SaveRequest(a) PROVE SponsorTypeOK'
  <2> DEFINE h == spHand[a]
  <2>1. h \in [at : {"read", "saved"}, req : Requests, to : SponsorStatuses,
               price : Prices \cup {0}, seen : SponsorStatuses]
    BY <1>8, <1>t DEF SaveRequest, SponsorTypeOK, NoHand
  <2>2. AfterSave(h) \in {NoHand} \cup [at : {"read", "saved"}, req : Requests,
                 to : SponsorStatuses, price : Prices \cup {0}, seen : SponsorStatuses]
    BY <2>1 DEF AfterSave
  <2>3. /\ spStatus' = IF h.to = h.seen THEN spStatus ELSE [spStatus EXCEPT ![h.req] = h.to]
        /\ spPrice' = IF h.price = 0 THEN spPrice ELSE [spPrice EXCEPT ![h.req] = h.price]
        /\ spRepriced' = IF h.price # 0 /\ spPaid[h.req] THEN spRepriced \cup {h.req}
                                                         ELSE spRepriced
        /\ spHand' = [spHand EXCEPT ![a] = AfterSave(h)]
        /\ UNCHANGED <<spPaid, spBalance, spPay, spAds, spCharged, spBroken>>
    BY <1>8 DEF SaveRequest
  <2> HIDE DEF h
  <2> DEFINE k == AfterSave(h)
  <2>4. spHand' \in [Admins -> {NoHand} \cup
                     [at : {"read", "saved"}, req : Requests, to : SponsorStatuses,
                      price : Prices \cup {0}, seen : SponsorStatuses]]
    <3>1. spHand' = [spHand EXCEPT ![a] = k]
      BY <2>3
    <3> HIDE DEF k
    <3>2. k \in {NoHand} \cup [at : {"read", "saved"}, req : Requests,
                 to : SponsorStatuses, price : Prices \cup {0}, seen : SponsorStatuses]
      BY <2>2 DEF k
    <3> QED BY <1>t, <3>1, <3>2 DEF SponsorTypeOK
  <2>5. spStatus' \in [Requests -> SponsorStatuses \cup {"none"}]
    BY <1>t, <2>1, <2>3 DEF SponsorTypeOK
  <2>6. spPrice' \in [Requests -> Prices \cup {0}]
    BY <1>t, <2>1, <2>3 DEF SponsorTypeOK
  <2>7. spRepriced' \subseteq Requests
    BY <1>t, <2>1, <2>3 DEF SponsorTypeOK
  <2> QED BY <1>t, <2>3, <2>4, <2>5, <2>6, <2>7 DEF SponsorTypeOK
<1>9. ASSUME NEW a \in Admins, MakeVideo(a) PROVE SponsorTypeOK'
  <2> DEFINE r == spHand[a].req
  <2>1. r \in Requests
    BY <1>9, <1>t DEF MakeVideo, SponsorTypeOK, NoHand
  <2>2. IsFiniteSet(Approving(r)) /\ a \in Approving(r)
    BY <1>9, <1>t, SponsorAssumption, FS_Subset DEF MakeVideo, ApprovalsHaveAds, Approving
  <2>3. Cardinality(Approving(r)) \in Nat /\ Cardinality(Approving(r)) # 0
    BY <2>2, FS_CardinalityType, FS_EmptySet
  <2>4. spAds[r] + Cardinality(Approving(r)) <= MaxAds
    BY <1>t, <2>1 DEF ApprovalsHaveAds
  <2>5. spAds[r] + 1 \in 0..MaxAds
    BY <2>1, <2>3, <2>4, <1>t, <1>a DEF SponsorTypeOK
  <2>6. spAds' = [spAds EXCEPT ![r] = @ + 1] /\ spHand' = [spHand EXCEPT ![a] = NoHand]
    BY <1>9 DEF MakeVideo
  <2> HIDE DEF r
  <2>7. spAds' \in [Requests -> 0..MaxAds]
    BY <1>t, <2>1, <2>5, <2>6 DEF SponsorTypeOK
  <2> QED BY <1>9, <1>t, <2>6, <2>7 DEF MakeVideo, SponsorTypeOK
<1>10. ASSUME NEW a \in Admins, AdminFails(a) PROVE SponsorTypeOK'
  <2>1. spHand[a].req \in Requests
    BY <1>10, <1>t DEF AdminFails, SponsorTypeOK
  <2> QED BY <1>10, <1>t, <2>1 DEF AdminFails, SponsorTypeOK
<1> QED BY <1>1, <1>2, <1>3, <1>4, <1>6, <1>7, <1>8, <1>9, <1>10 DEF SponsorNext

\* Steps keep a payment alone with its request.
LEMMA PaymentsHoldStep == SponsorInv /\ SponsorNext => PaymentsHold'
<1> SUFFICES ASSUME SponsorInv, SponsorNext PROVE PaymentsHold'
  OBVIOUS
<1>t. SponsorTypeOK /\ PaymentsHold
  BY DEF SponsorInv
<1>a. NULL \notin Requests
  BY SponsorAssumption
<1>1. ASSUME NEW r \in Requests, NEW v \in Prices, Submit(r, v) PROVE PaymentsHold'
  BY <1>1, <1>t DEF Submit, SponsorTypeOK, PaymentsHold
<1>2. ASSUME NEW p \in Payers, Pay(p) PROVE PaymentsHold'
  BY <1>2, <1>t, <1>a DEF Pay, SponsorTypeOK, PaymentsHold
<1>3. ASSUME NEW p \in Payers, PaymentFails(p) PROVE PaymentsHold'
  BY <1>3, <1>t DEF PaymentFails, SponsorTypeOK, PaymentsHold
<1>4. ASSUME NEW p \in Payers, NEW r \in Requests, StartPayment(p, r) PROVE PaymentsHold'
  BY <1>4, <1>t, <1>a DEF StartPayment, Unlocked, SponsorTypeOK, PaymentsHold
<1>5. ASSUME UNCHANGED <<spStatus, spPaid, spPay>> PROVE PaymentsHold'
  BY <1>5, <1>t DEF PaymentsHold
<1>6. ASSUME NEW a \in Admins, SaveRequest(a) PROVE PaymentsHold'
  <2>1. spHand[a].to # "none" /\ spHand[a].req \in Requests
    BY <1>6, <1>t DEF SaveRequest, SponsorTypeOK, SponsorStatuses, Reviews, NoHand
  <2>2. \A r \in Requests : spStatus'[r] = spStatus[r] \/ spStatus'[r] # "none"
    BY <1>6, <1>t, <2>1 DEF SaveRequest, SponsorTypeOK
  <2>3. \A p \in Payers : spPay[p] # NULL => spPay[p] \in Requests
    BY <1>t DEF SponsorTypeOK
  <2>4. UNCHANGED <<spPaid, spPay>>
    BY <1>6 DEF SaveRequest
  <2> QED BY <1>t, <2>2, <2>3, <2>4 DEF PaymentsHold
<1> QED BY <1>1, <1>2, <1>3, <1>4, <1>5, <1>6
        DEF SponsorNext, ReadToPrice, ReadToReview, ReadRequest, MakeVideo, AdminFails

\* Steps keep what was charged the price of what is paid.
LEMMA ChargesArePricesStep == SponsorInv /\ SponsorNext => ChargesArePrices'
<1> SUFFICES ASSUME SponsorInv, SponsorNext PROVE ChargesArePrices'
  OBVIOUS
<1>t. SponsorTypeOK /\ PaymentsHold /\ ChargesArePrices
  BY DEF SponsorInv
<1>1. ASSUME NEW r \in Requests, NEW v \in Prices, Submit(r, v) PROVE ChargesArePrices'
  BY <1>1, <1>t DEF Submit, SponsorTypeOK, PaymentsHold, ChargesArePrices
<1>2. ASSUME NEW p \in Payers, Pay(p) PROVE ChargesArePrices'
  <2> DEFINE r == spPay[p]
  <2>1. r \in Requests /\ ~spPaid[r]
    BY <1>2, <1>t DEF Pay, SponsorTypeOK, PaymentsHold
  <2>2. spCharged[r] = 0 /\ spPrice[r] \in Nat
    <3>1. spPrice[r] \in Prices \cup {0}
      BY <1>t, <2>1 DEF SponsorTypeOK
    <3> QED BY <1>t, <2>1, <3>1, PricesAreCredits DEF ChargesArePrices
  <2>3. /\ spPaid' = [spPaid EXCEPT ![r] = TRUE]
        /\ spCharged' = [spCharged EXCEPT ![r] = @ + spPrice[r]]
        /\ UNCHANGED <<spPrice, spRepriced>>
    BY <1>2 DEF Pay
  <2> HIDE DEF r
  <2>4. spPaid'[r] /\ spCharged'[r] = spPrice[r]
    BY <1>t, <2>1, <2>2, <2>3 DEF SponsorTypeOK
  <2>5. \A s \in Requests \ {r} : spPaid'[s] = spPaid[s] /\ spCharged'[s] = spCharged[s]
    BY <1>t, <2>3 DEF SponsorTypeOK
  <2> QED BY <1>t, <2>3, <2>4, <2>5 DEF ChargesArePrices
<1>3. ASSUME UNCHANGED <<spPrice, spPaid, spCharged, spRepriced>> PROVE ChargesArePrices'
  BY <1>3, <1>t DEF ChargesArePrices
<1>4. ASSUME NEW a \in Admins, SaveRequest(a) PROVE ChargesArePrices'
  <2>1. spHand[a].req \in Requests
    BY <1>4, <1>t DEF SaveRequest, SponsorTypeOK, NoHand
  <2>2. \A r \in Requests \ spRepriced' : spPaid[r] => spPrice'[r] = spPrice[r] /\ r \notin spRepriced
    BY <1>4, <1>t, <2>1 DEF SaveRequest, SponsorTypeOK
  <2>3. UNCHANGED <<spPaid, spCharged>>
    BY <1>4 DEF SaveRequest
  <2> QED BY <1>t, <2>2, <2>3 DEF ChargesArePrices
<1> QED BY <1>1, <1>2, <1>3, <1>4
        DEF SponsorNext, PaymentFails, StartPayment, ReadToPrice, ReadToReview, ReadRequest,
            MakeVideo, AdminFails

\* Steps keep the wallet in step with what was charged.
LEMMA WalletIsChargedStep == SponsorInv /\ SponsorNext => WalletIsCharged'
<1> SUFFICES ASSUME SponsorInv, SponsorNext PROVE WalletIsCharged'
  OBVIOUS
<1>t. SponsorTypeOK /\ WalletIsCharged
  BY DEF SponsorInv
<1>a. Prices \subseteq Nat /\ IsFiniteSet(Requests) /\ Opening \in Nat
  BY SponsorAssumption
<1>1. ASSUME NEW p \in Payers, Pay(p) PROVE WalletIsCharged'
  <2> DEFINE r == spPay[p]
  <2>1. r \in Requests
    BY <1>1, <1>t DEF Pay, SponsorTypeOK
  <2>2. spPrice[r] \in Nat
    <3>1. spPrice[r] \in Prices \cup {0}
      BY <1>t, <2>1 DEF SponsorTypeOK
    <3> QED BY <3>1, PricesAreCredits
  <2>3. spCharged' = [spCharged EXCEPT ![r] = @ + spPrice[r]] /\ spBalance' = spBalance - spPrice[r]
    BY <1>1 DEF Pay
  <2> HIDE DEF r
  <2>4. \A s \in Requests : spCharged[s] \in Int
    BY <1>t DEF SponsorTypeOK
  <2>5. /\ spCharged'[r] = spCharged[r] + spPrice[r]
        /\ \A s \in Requests \ {r} : spCharged'[s] = spCharged[s]
    BY <1>t, <2>1, <2>3 DEF SponsorTypeOK
  <2>6. spCharged'[r] \in Int
    BY <2>1, <2>2, <2>4, <2>5
  <2>7. SumOn(spCharged', Requests) = SumOn(spCharged, Requests) + spCharged'[r] - spCharged[r]
    BY <1>a, <2>1, <2>4, <2>5, <2>6, SumChanges
  <2>8. SumOn(spCharged, Requests) \in Int
    BY <1>a, <2>4, SumSteps
  <2>9. spBalance \in Int /\ spCharged[r] \in Int
    BY <1>t, <1>a, <2>1, <2>4 DEF SponsorTypeOK
  <2>10. SumOn(spCharged', Requests) = SumOn(spCharged, Requests) + spPrice[r]
    BY <2>2, <2>5, <2>7, <2>8, <2>9
  <2> QED BY <1>t, <2>2, <2>3, <2>8, <2>9, <2>10 DEF WalletIsCharged
<1>2. ASSUME UNCHANGED <<spBalance, spCharged>> PROVE WalletIsCharged'
  BY <1>2, <1>t DEF WalletIsCharged
<1> QED BY <1>1, <1>2
        DEF SponsorNext, Submit, PaymentFails, StartPayment, ReadToPrice, ReadToReview,
            ReadRequest, SaveRequest, MakeVideo, AdminFails

\* A hand that is put down, or takes up another request.
LEMMA ApprovalsChange ==
    ASSUME SponsorTypeOK, ApprovalsHaveAds, NEW a \in Admins, NEW h, NEW r \in Requests
    PROVE  LET now == [spHand EXCEPT ![a] = h]
               then == {b \in Admins : now[b].req = r /\ now[b].to = "approved"}
           IN  /\ IsFiniteSet(Approving(r)) /\ Cardinality(Approving(r)) \in Nat
               /\ IsFiniteSet(then) /\ Cardinality(then) \in Nat
               /\ ~(h.req = r /\ h.to = "approved") => Cardinality(then) <= Cardinality(Approving(r))
               /\ ~(h.req = r /\ h.to = "approved") /\ a \in Approving(r)
                    => Cardinality(then) + 1 <= Cardinality(Approving(r))
               /\ a \in Approving(r) => Cardinality(then) <= Cardinality(Approving(r))
               /\ Cardinality(then) <= Cardinality(Approving(r)) + 1
<1> DEFINE now == [spHand EXCEPT ![a] = h]
           then == {b \in Admins : now[b].req = r /\ now[b].to = "approved"}
<1>0. IsFiniteSet(Admins)
  BY SponsorAssumption
<1>1. now[a] = h /\ \A b \in Admins \ {a} : now[b] = spHand[b]
  BY DEF SponsorTypeOK
<1> HIDE DEF now
<1>2. then = IF h.req = r /\ h.to = "approved" THEN Approving(r) \cup {a} ELSE Approving(r) \ {a}
  BY <1>1 DEF Approving
<1>3. IsFiniteSet(Approving(r)) /\ IsFiniteSet(then)
  BY <1>0, FS_Subset DEF Approving
<1>4. Cardinality(Approving(r)) \in Nat /\ Cardinality(then) \in Nat
  BY <1>3, FS_CardinalityType
<1>5. /\ Cardinality(Approving(r) \cup {a}) =
           IF a \in Approving(r) THEN Cardinality(Approving(r)) ELSE Cardinality(Approving(r)) + 1
      /\ Cardinality(Approving(r) \ {a}) =
           IF a \in Approving(r) THEN Cardinality(Approving(r)) - 1 ELSE Cardinality(Approving(r))
  BY <1>3, FS_AddElement, FS_RemoveElement
<1> HIDE DEF then
<1>6. /\ ~(h.req = r /\ h.to = "approved") => Cardinality(then) <= Cardinality(Approving(r))
      /\ ~(h.req = r /\ h.to = "approved") /\ a \in Approving(r)
           => Cardinality(then) + 1 <= Cardinality(Approving(r))
  BY <1>2, <1>4, <1>5
<1>7. /\ a \in Approving(r) => Cardinality(then) <= Cardinality(Approving(r))
      /\ Cardinality(then) <= Cardinality(Approving(r)) + 1
  BY <1>2, <1>4, <1>5
<1> QED BY <1>3, <1>4, <1>6, <1>7 DEF then, now

\* The same of a step that puts h in the hand.
LEMMA ApprovalsAfter ==
    ASSUME SponsorTypeOK, ApprovalsHaveAds, NEW a \in Admins, NEW h, NEW r \in Requests,
           spHand' = [spHand EXCEPT ![a] = h]
    PROVE  /\ Cardinality(Approving(r)) \in Nat /\ Cardinality(Approving(r)') \in Nat
           /\ ~(h.req = r /\ h.to = "approved")
                => Cardinality(Approving(r)') <= Cardinality(Approving(r))
           /\ a \in Approving(r) => Cardinality(Approving(r)') <= Cardinality(Approving(r))
           /\ Cardinality(Approving(r)') <= Cardinality(Approving(r)) + 1
<1> DEFINE now == [spHand EXCEPT ![a] = h]
           then == {b \in Admins : now[b].req = r /\ now[b].to = "approved"}
<1>1. Approving(r)' = then
  BY DEF Approving
<1>2. /\ Cardinality(Approving(r)) \in Nat /\ Cardinality(then) \in Nat
      /\ ~(h.req = r /\ h.to = "approved") => Cardinality(then) <= Cardinality(Approving(r))
      /\ a \in Approving(r) => Cardinality(then) <= Cardinality(Approving(r))
      /\ Cardinality(then) <= Cardinality(Approving(r)) + 1
  BY ApprovalsChange, Zenon
<1> HIDE DEF then
<1> QED BY <1>1, <1>2

\* The room that is left when an approval is begun.
LEMMA RoomIsLeft ==
    ASSUME SponsorTypeOK, NEW r \in Requests, RoomForAd(r)
    PROVE  spAds[r] + Cardinality(Approving(r)) + 1 <= MaxAds
<1> DEFINE at == {a \in Admins : spHand[a].req = r}
<1>1. IsFiniteSet(at) /\ Approving(r) \subseteq at
  BY SponsorAssumption, FS_Subset DEF Approving
<1>2. Cardinality(at) \in Nat /\ Cardinality(Approving(r)) \in Nat
      /\ Cardinality(Approving(r)) <= Cardinality(at)
  BY <1>1, FS_Subset, FS_CardinalityType
<1>3. spAds[r] \in Int /\ spAds[r] + Cardinality(at) < MaxAds /\ MaxAds \in Nat
  BY SponsorAssumption DEF RoomForAd, SponsorTypeOK
<1> HIDE DEF at
<1> QED BY <1>2, <1>3

\* Steps keep an advertisement for each approval.
LEMMA ApprovalsHaveAdsStep == SponsorInv /\ SponsorNext => ApprovalsHaveAds'
<1> SUFFICES ASSUME SponsorInv, SponsorNext PROVE ApprovalsHaveAds'
  OBVIOUS
<1>t. SponsorTypeOK /\ ApprovalsHaveAds
  BY DEF SponsorInv
<1>a. MaxAds \in Nat /\ \A r \in Requests : spAds[r] \in Int
  BY <1>t, SponsorAssumption DEF SponsorTypeOK
<1>1. ASSUME NEW r \in Requests, NEW v \in Prices, Submit(r, v) PROVE ApprovalsHaveAds'
  <2>1. /\ UNCHANGED <<spHand, spAds, spBroken>>
        /\ \A s \in Requests : spStatus'[s] = "approved" => spStatus[s] = "approved"
    BY <1>1, <1>t DEF Submit, SponsorTypeOK
  <2>2. \A s \in Requests : Approving(s)' = Approving(s)
    BY <2>1 DEF Approving
  <2> QED BY <1>t, <2>1, <2>2 DEF ApprovalsHaveAds
<1>2. ASSUME UNCHANGED <<spHand, spAds, spBroken, spStatus>> PROVE ApprovalsHaveAds'
  BY <1>2, <1>t DEF ApprovalsHaveAds, Approving
<1>3. ASSUME NEW a \in Admins, NEW r \in Requests, NEW to \in SponsorStatuses,
             NEW v \in Prices \cup {0}, ReadRequest(a, r, to, v),
             to = "approved" => RoomForAd(r)
      PROVE  ApprovalsHaveAds'
  <2> DEFINE new == [at |-> "read", req |-> r, to |-> to, price |-> v, seen |-> spStatus[r]]
  <2>1. /\ new.at = "read" /\ new.req = r /\ new.to = to
        /\ spHand' = [spHand EXCEPT ![a] = new] /\ spHand[a].at # "saved"
        /\ UNCHANGED <<spStatus, spAds, spBroken>>
    BY <1>3 DEF ReadRequest, NoHand
  <2> HIDE DEF new
  <2>2. spHand'[a] = new /\ \A b \in Admins \ {a} : spHand'[b] = spHand[b]
    BY <1>t, <2>1 DEF SponsorTypeOK
  <2>3. \A b \in Admins : spHand'[b].at = "saved" => spHand'[b].to = "approved"
    BY <1>t, <2>1, <2>2 DEF ApprovalsHaveAds
  <2>4. ASSUME NEW s \in Requests PROVE spAds[s] + Cardinality(Approving(s)') <= MaxAds
    <3>1. /\ Cardinality(Approving(s)) \in Nat /\ Cardinality(Approving(s)') \in Nat
          /\ ~(s = r /\ to = "approved") => Cardinality(Approving(s)') <= Cardinality(Approving(s))
          /\ Cardinality(Approving(s)') <= Cardinality(Approving(s)) + 1
      BY <1>t, <2>1, ApprovalsAfter
    <3>2. spAds[s] + Cardinality(Approving(s)) <= MaxAds
      BY <1>t DEF ApprovalsHaveAds
    <3>3. s = r /\ to = "approved" => spAds[s] + Cardinality(Approving(s)) + 1 <= MaxAds
      BY <1>3, <1>t, RoomIsLeft
    <3> QED BY <1>a, <3>1, <3>2, <3>3
  <2>5. ASSUME NEW s \in Requests \ spBroken, spStatus[s] = "approved", ~(spAds[s] > 0)
        PROVE  \E b \in Admins : spHand'[b].at = "saved" /\ spHand'[b].req = s
    <3>1. PICK b \in Admins : spHand[b].at = "saved" /\ spHand[b].req = s
      BY <1>t, <2>5 DEF ApprovalsHaveAds
    <3> QED BY <2>1, <2>2, <3>1
  <2> QED BY <2>1, <2>3, <2>4, <2>5 DEF ApprovalsHaveAds
<1>4. ASSUME NEW a \in Admins, NEW r \in Requests, NEW v \in Prices, ReadToPrice(a, r, v)
      PROVE  ApprovalsHaveAds'
  BY <1>3, <1>4 DEF ReadToPrice, SponsorStatuses
<1>5. ASSUME NEW a \in Admins, NEW r \in Requests, NEW d \in Reviews, ReadToReview(a, r, d)
      PROVE  ApprovalsHaveAds'
  BY <1>3, <1>5 DEF ReadToReview, SponsorStatuses
<1>6. ASSUME NEW a \in Admins, SaveRequest(a) PROVE ApprovalsHaveAds'
  <2> DEFINE h == spHand[a]
             k == AfterSave(h)
  <2>1. h.at = "read" /\ h.req \in Requests
    BY <1>6, <1>t DEF SaveRequest, SponsorTypeOK, NoHand
  <2>2. IF h.to = "approved" THEN k.at = "saved" /\ k.req = h.req /\ k.to = h.to
                             ELSE k.at # "saved" /\ k.to # "approved"
    <3>1. h \in [at : {"read", "saved"}, req : Requests, to : SponsorStatuses,
               price : Prices \cup {0}, seen : SponsorStatuses]
      BY <1>t, <2>1 DEF SponsorTypeOK, NoHand
    <3> HIDE DEF h
    <3> QED BY <3>1 DEF AfterSave, NoHand
  <2>3. spHand' = [spHand EXCEPT ![a] = k] /\ UNCHANGED <<spAds, spBroken>>
    BY <1>6 DEF SaveRequest
  <2>4. \A s \in Requests : spStatus'[s] = "approved" =>
          spStatus[s] = "approved" \/ (s = h.req /\ h.to = "approved")
    BY <1>6, <1>t, <2>1 DEF SaveRequest, SponsorTypeOK
  <2> HIDE DEF k
  <2>5. spHand'[a] = k /\ \A b \in Admins \ {a} : spHand'[b] = spHand[b]
    BY <1>t, <2>3 DEF SponsorTypeOK
  <2>6. \A b \in Admins : spHand'[b].at = "saved" => spHand'[b].to = "approved"
    BY <1>t, <2>2, <2>5 DEF ApprovalsHaveAds
  <2>7. ASSUME NEW s \in Requests PROVE spAds[s] + Cardinality(Approving(s)') <= MaxAds
    <3>1. /\ Cardinality(Approving(s)) \in Nat /\ Cardinality(Approving(s)') \in Nat
          /\ ~(k.req = s /\ k.to = "approved") => Cardinality(Approving(s)') <= Cardinality(Approving(s))
          /\ a \in Approving(s) => Cardinality(Approving(s)') <= Cardinality(Approving(s))
      BY <1>t, <2>3, ApprovalsAfter
    <3>2. k.req = s /\ k.to = "approved" => a \in Approving(s)
      BY <2>2 DEF Approving
    <3>3. spAds[s] + Cardinality(Approving(s)) <= MaxAds
      BY <1>t DEF ApprovalsHaveAds
    <3> QED BY <1>a, <3>1, <3>2, <3>3
  <2>8. ASSUME NEW s \in Requests \ spBroken, spStatus'[s] = "approved", ~(spAds[s] > 0)
        PROVE  \E b \in Admins : spHand'[b].at = "saved" /\ spHand'[b].req = s
    <3>1. CASE s = h.req /\ h.to = "approved"
      BY <2>2, <2>5, <3>1
    <3>2. CASE ~(s = h.req /\ h.to = "approved")
      <4>1. spStatus[s] = "approved"
        BY <2>4, <2>8, <3>2
      <4>2. PICK b \in Admins : spHand[b].at = "saved" /\ spHand[b].req = s
        BY <1>t, <2>8, <4>1 DEF ApprovalsHaveAds
      <4> QED BY <2>1, <2>5, <4>2
    <3> QED BY <3>1, <3>2
  <2> QED BY <2>3, <2>6, <2>7, <2>8 DEF ApprovalsHaveAds
<1>7. ASSUME NEW a \in Admins, MakeVideo(a) PROVE ApprovalsHaveAds'
  <2> DEFINE r == spHand[a].req
  <2>1. r \in Requests /\ a \in Approving(r)
    BY <1>7, <1>t DEF MakeVideo, SponsorTypeOK, NoHand, ApprovalsHaveAds, Approving
  <2>2. /\ spAds' = [spAds EXCEPT ![r] = @ + 1] /\ spHand' = [spHand EXCEPT ![a] = NoHand]
        /\ UNCHANGED <<spStatus, spBroken>>
    BY <1>7 DEF MakeVideo
  <2>3. /\ spHand'[a] = NoHand /\ spHand[a].req = r
        /\ \A b \in Admins \ {a} : spHand'[b] = spHand[b]
    BY <1>t, <2>2 DEF SponsorTypeOK
  <2> HIDE DEF r
  <2>4. spAds'[r] = spAds[r] + 1 /\ \A s \in Requests \ {r} : spAds'[s] = spAds[s]
    BY <1>t, <2>1, <2>2 DEF SponsorTypeOK
  <2>5. \A b \in Admins : spHand'[b].at = "saved" => spHand'[b].to = "approved"
    BY <1>t, <2>3 DEF ApprovalsHaveAds, NoHand
  <2>6. ASSUME NEW s \in Requests PROVE spAds'[s] + Cardinality(Approving(s)') <= MaxAds
    <3>n. PICK h : h = NoHand
      OBVIOUS
    <3>0. ~(h.req = s /\ h.to = "approved")
      BY <3>n DEF NoHand
    <3>h. spHand' = [spHand EXCEPT ![a] = h]
      BY <3>n, <2>2
    <3> DEFINE now == [spHand EXCEPT ![a] = h]
    <3>e. Approving(s)' = {b \in Admins : now[b].req = s /\ now[b].to = "approved"}
      BY <3>h DEF Approving
    <3>1. /\ Cardinality(Approving(s)) \in Nat /\ Cardinality(Approving(s)') \in Nat
          /\ ~(h.req = s /\ h.to = "approved")
               => Cardinality(Approving(s)') <= Cardinality(Approving(s))
      BY <1>t, <3>e, ApprovalsChange
    <3>5. ~(h.req = s /\ h.to = "approved") /\ a \in Approving(s)
            => Cardinality(Approving(s)') + 1 <= Cardinality(Approving(s))
      BY <1>t, <3>e, ApprovalsChange
    <3>2. spAds[s] + Cardinality(Approving(s)) <= MaxAds /\ spAds[s] \in Int
      BY <1>t, <1>a DEF ApprovalsHaveAds
    <3>3. CASE s = r
      BY <1>a, <2>1, <2>4, <3>0, <3>1, <3>2, <3>3, <3>5
    <3>4. CASE s # r
      BY <1>a, <2>4, <3>0, <3>1, <3>2, <3>4
    <3> QED BY <3>3, <3>4
  <2>7. ASSUME NEW s \in Requests \ spBroken, spStatus[s] = "approved", ~(spAds'[s] > 0)
        PROVE  \E b \in Admins : spHand'[b].at = "saved" /\ spHand'[b].req = s
    <3>1. spAds[r] \in Nat
      BY <1>t, <1>a, <2>1 DEF SponsorTypeOK
    <3>2. s # r
      BY <2>4, <2>7, <3>1
    <3>3. PICK b \in Admins : spHand[b].at = "saved" /\ spHand[b].req = s
      BY <1>t, <2>4, <2>7, <3>2 DEF ApprovalsHaveAds
    <3> QED BY <2>3, <3>2, <3>3
  <2> QED BY <2>2, <2>5, <2>6, <2>7 DEF ApprovalsHaveAds
<1>8. ASSUME NEW a \in Admins, AdminFails(a) PROVE ApprovalsHaveAds'
  <2>1. /\ spHand' = [spHand EXCEPT ![a] = NoHand] /\ UNCHANGED <<spStatus, spAds>>
        /\ spBroken' = IF spHand[a].at = "saved" THEN spBroken \cup {spHand[a].req} ELSE spBroken
    BY <1>8 DEF AdminFails
  <2>2. spHand'[a] = NoHand /\ \A b \in Admins \ {a} : spHand'[b] = spHand[b]
    BY <1>t, <2>1 DEF SponsorTypeOK
  <2>3. \A b \in Admins : spHand'[b].at = "saved" => spHand'[b].to = "approved"
    BY <1>t, <2>2 DEF ApprovalsHaveAds, NoHand
  <2>4. ASSUME NEW s \in Requests PROVE spAds[s] + Cardinality(Approving(s)') <= MaxAds
    <3>n. PICK h : h = NoHand
      OBVIOUS
    <3>0. ~(h.req = s /\ h.to = "approved")
      BY <3>n DEF NoHand
    <3>h. spHand' = [spHand EXCEPT ![a] = h]
      BY <3>n, <2>1
    <3> DEFINE now == [spHand EXCEPT ![a] = h]
    <3>e. Approving(s)' = {b \in Admins : now[b].req = s /\ now[b].to = "approved"}
      BY <3>h DEF Approving
    <3>1. /\ Cardinality(Approving(s)) \in Nat /\ Cardinality(Approving(s)') \in Nat
          /\ ~(h.req = s /\ h.to = "approved")
               => Cardinality(Approving(s)') <= Cardinality(Approving(s))
      BY <1>t, <3>e, ApprovalsChange
    <3>2. spAds[s] + Cardinality(Approving(s)) <= MaxAds
      BY <1>t DEF ApprovalsHaveAds
    <3> QED BY <1>a, <3>0, <3>1, <3>2
  <2>5. ASSUME NEW s \in Requests \ spBroken', spStatus[s] = "approved", ~(spAds[s] > 0)
        PROVE  \E b \in Admins : spHand'[b].at = "saved" /\ spHand'[b].req = s
    <3>1. s \notin spBroken
      BY <2>1, <2>5
    <3>2. PICK b \in Admins : spHand[b].at = "saved" /\ spHand[b].req = s
      BY <1>t, <2>5, <3>1 DEF ApprovalsHaveAds
    <3>3. b # a
      BY <2>1, <2>5, <3>2
    <3> QED BY <2>2, <3>2, <3>3
  <2> QED BY <2>1, <2>3, <2>4, <2>5 DEF ApprovalsHaveAds
<1> QED BY <1>1, <1>2, <1>4, <1>5, <1>6, <1>7, <1>8
        DEF SponsorNext, Pay, PaymentFails, StartPayment

\* Every step of SponsorNext keeps SponsorInv.
LEMMA SponsorStep == SponsorInv /\ [SponsorNext]_sponsorVars => SponsorInv'
<1> SUFFICES ASSUME SponsorInv, [SponsorNext]_sponsorVars PROVE SponsorInv'
  OBVIOUS
<1>1. CASE SponsorNext
  BY <1>1, SponsorTypeStep, PaymentsHoldStep, ChargesArePricesStep, WalletIsChargedStep,
     ApprovalsHaveAdsStep DEF SponsorInv
<1>2. CASE UNCHANGED sponsorVars
  BY <1>2 DEF sponsorVars, SponsorInv, SponsorTypeOK, PaymentsHold, ChargesArePrices,
     WalletIsCharged, ApprovalsHaveAds, Approving
<1> QED BY <1>1, <1>2

\* What was charged is the price of what is paid, and an approval has its video or made
\* none for a reason that is known: for every number of requests, payers and admins.
THEOREM SponsorBooksBalance == SponsorSpec => [](SponsorTypeOK /\ SponsorBooks)
<1>1. SponsorInv => SponsorTypeOK
  BY DEF SponsorInv
<1> QED BY <1>1, SponsorInitial, SponsorStep, SponsorSafe, PTL DEF SponsorSpec

-----------------------------------------------------------------------------
(* AdsAddUp.                                                               *)

\* Plays of a video that were counted.
PlaysOf(v) == {p \in avStarted : avPlay[p] = v}

PlaysAreCounted ==
    /\ \A p \in avStarted : avPlay[p] # NULL
    /\ \A v \in AdVideos : avCount[v] = Cardinality(PlaysOf(v))

\* The room of a play that ended no longer shows it.
ScreensAreRight == \A p \in avEnded \ avLate : avScreen[p] # "start"

\* Who has read a play as open has done so alone, or it is known.
OpenTo(h, p) == avStop[h].play = p /\ ~avStop[h].ended
StopsAreKnown ==
    /\ \A p \in Plays \ avTwice : \A h \in Hosts : \A g \in Hosts :
         OpenTo(h, p) /\ OpenTo(g, p) => h = g
    /\ \A p \in avEnded \ avTwice : \A h \in Hosts : ~OpenTo(h, p)
    /\ avStamped \subseteq avTwice

AdInv == AdTypeOK /\ PlaysAreCounted /\ ScreensAreRight /\ StopsAreKnown

\* The invariant says the property.
LEMMA AdSafe == AdInv => AdsAddUp
BY DEF AdInv, PlaysAreCounted, PlaysOf, ScreensAreRight, StopsAreKnown, AdsAddUp

\* The initial states satisfy AdInv.
LEMMA AdInitial == AdInit => AdInv
<1> SUFFICES ASSUME AdInit PROVE AdInv
  OBVIOUS
<1>1. AdTypeOK
  BY DEF AdInit, AdTypeOK, NoStop, NoAdEdit
<1>2. PlaysAreCounted
  <2>1. \A v \in AdVideos : PlaysOf(v) = {}
    BY DEF AdInit, PlaysOf
  <2> QED BY <2>1, FS_EmptySet DEF AdInit, PlaysAreCounted
<1>3. ScreensAreRight /\ StopsAreKnown
  BY SponsorAssumption DEF AdInit, ScreensAreRight, StopsAreKnown, OpenTo, NoStop
<1> QED BY <1>1, <1>2, <1>3 DEF AdInv

\* Steps keep the types.
LEMMA AdTypeStep == AdInv /\ AdNext => AdTypeOK'
<1> SUFFICES ASSUME AdInv, AdNext PROVE AdTypeOK'
  OBVIOUS
<1>t. AdTypeOK
  BY DEF AdInv
<1>1. ASSUME NEW v \in AdVideos, NEW to \in {"on", "off"}, CreateAd(v, to) PROVE AdTypeOK'
  BY <1>1, <1>t DEF CreateAd, AdTypeOK
<1>2. ASSUME NEW v \in AdVideos, NEW to \in {"on", "off"}, NEW a \in Admins, ReadAd(a, v, to)
      PROVE  AdTypeOK'
  <2>1. avCount[v] \in Nat
    BY <1>t DEF AdTypeOK
  <2> DEFINE new == [ad |-> v, to |-> to, count |-> avCount[v]]
  <2>2. new \in [ad : AdVideos \cup {NULL}, to : {"on", "off"}, count : Nat]
    BY <2>1
  <2>3. avEdit' = [avEdit EXCEPT ![a] = new]
    BY <1>2 DEF ReadAd
  <2> HIDE DEF new
  <2> QED BY <1>2, <1>t, <2>2, <2>3 DEF ReadAd, AdTypeOK
<1>3. ASSUME NEW a \in Admins, SaveAd(a) PROVE AdTypeOK'
  <2>1. NoAdEdit \in [ad : AdVideos \cup {NULL}, to : {"on", "off"}, count : Nat]
    BY DEF NoAdEdit
  <2>2. avEdit[a].to \in {"on", "off"}
    BY <1>t DEF AdTypeOK
  <2> QED BY <1>3, <1>t, <2>1, <2>2 DEF SaveAd, CountKept, AdTypeOK
<1>4. ASSUME NEW p \in Plays, CountPlay(p) PROVE AdTypeOK'
  <2>1. avCount' \in [AdVideos -> Nat]
    BY <1>4, <1>t DEF CountPlay, AdTypeOK
  <2> QED BY <1>4, <1>t, <2>1 DEF CountPlay, AdTypeOK
<1>5. ASSUME NEW p \in Plays, NEW v \in AdVideos, CreatePlay(p, v) PROVE AdTypeOK'
  BY <1>5, <1>t DEF CreatePlay, AdTypeOK
<1>6. ASSUME NEW p \in Plays, NEW h \in Hosts, ReadPlay(h, p) PROVE AdTypeOK'
  <2> DEFINE new == [play |-> p, ended |-> p \in avEnded]
  <2>1. new \in [play : Plays \cup {NULL}, ended : BOOLEAN]
    OBVIOUS
  <2>2. avStop' = [avStop EXCEPT ![h] = new]
    BY <1>6 DEF ReadPlay
  <2> HIDE DEF new
  <2> QED BY <1>6, <1>t, <2>1, <2>2 DEF ReadPlay, AdTypeOK
<1>7. ASSUME NEW h \in Hosts, NEW told \in BOOLEAN, StopPlay(h, told) PROVE AdTypeOK'
  <2>1. avStop[h].play \in Plays
    BY <1>7, <1>t DEF StopPlay, AdTypeOK
  <2>2. NoStop \in [play : Plays \cup {NULL}, ended : BOOLEAN]
    BY DEF NoStop
  <2> QED BY <1>7, <1>t, <2>1, <2>2 DEF StopPlay, AdTypeOK
<1> QED BY <1>1, <1>2, <1>3, <1>4, <1>5, <1>6, <1>7 DEF AdNext

\* Steps keep the counts of plays.
LEMMA PlaysStep == AdInv /\ AdNext => PlaysAreCounted'
<1> SUFFICES ASSUME AdInv, AdNext PROVE PlaysAreCounted'
  OBVIOUS
<1>t. AdTypeOK /\ PlaysAreCounted
  BY DEF AdInv
<1>1. ASSUME UNCHANGED <<avPlay, avStarted, avCount>> PROVE PlaysAreCounted'
  BY <1>1, <1>t DEF PlaysAreCounted, PlaysOf
<1>2. ASSUME NEW a \in Admins, SaveAd(a) PROVE PlaysAreCounted'
  BY <1>2, <1>1 DEF SaveAd, CountKept
<1>3. ASSUME NEW p \in Plays, CountPlay(p) PROVE PlaysAreCounted'
  <2>2. PICK v \in AdVideos : avPlay[p] = v
    BY <1>3, <1>t DEF CountPlay, AdTypeOK
  <2>1. p \notin avStarted /\ avPlay' = avPlay /\ avStarted' = avStarted \cup {p}
        /\ avCount' = [avCount EXCEPT ![v] = @ + 1]
    BY <1>3, <2>2 DEF CountPlay
  <2>3. avPlay[p] # NULL
    BY <1>3 DEF CountPlay
  <2>4. avCount'[v] = avCount[v] + 1 /\ \A w \in AdVideos \ {v} : avCount'[w] = avCount[w]
    BY <1>t, <2>1 DEF AdTypeOK
  <2>5. PlaysOf(v)' = PlaysOf(v) \cup {p} /\ p \notin PlaysOf(v)
    BY <2>1, <2>2 DEF PlaysOf
  <2>6. \A w \in AdVideos \ {v} : PlaysOf(w)' = PlaysOf(w)
    BY <2>1, <2>2 DEF PlaysOf
  <2>7. IsFiniteSet(PlaysOf(v))
    BY <1>t, SponsorAssumption, FS_Subset DEF PlaysOf, AdTypeOK
  <2>8. Cardinality(PlaysOf(v) \cup {p}) = Cardinality(PlaysOf(v)) + 1
    BY <2>5, <2>7, FS_AddElement
  <2>9. \A w \in AdVideos : avCount'[w] = Cardinality(PlaysOf(w)')
    BY <1>t, <2>1, <2>4, <2>5, <2>6, <2>8 DEF PlaysAreCounted
  <2>10. \A q \in avStarted' : avPlay'[q] # NULL
    BY <1>t, <2>1, <2>3 DEF PlaysAreCounted
  <2> QED BY <2>9, <2>10 DEF PlaysAreCounted
<1>4. ASSUME NEW p \in Plays, NEW v \in AdVideos, CreatePlay(p, v) PROVE PlaysAreCounted'
  <2>1. /\ avPlay[p] = NULL /\ UNCHANGED <<avStarted, avCount>>
        /\ \A q \in Plays \ {p} : avPlay'[q] = avPlay[q]
    BY <1>4, <1>t DEF CreatePlay, AdTypeOK
  <2>2. p \notin avStarted /\ avStarted \subseteq Plays
    BY <1>t, <2>1 DEF PlaysAreCounted, AdTypeOK
  <2>3. \A w \in AdVideos : PlaysOf(w)' = PlaysOf(w)
    BY <2>1, <2>2 DEF PlaysOf
  <2> QED BY <1>t, <2>1, <2>2, <2>3 DEF PlaysAreCounted
<1> QED BY <1>1, <1>2, <1>3, <1>4 DEF AdNext, CreateAd, ReadAd, ReadPlay, StopPlay

\* Steps keep the screens right.
LEMMA ScreensStep == AdInv /\ AdNext => ScreensAreRight'
<1> SUFFICES ASSUME AdInv, AdNext PROVE ScreensAreRight'
  OBVIOUS
<1>t. AdTypeOK /\ ScreensAreRight
  BY DEF AdInv
<1>1. ASSUME UNCHANGED <<avEnded, avLate, avScreen>> PROVE ScreensAreRight'
  BY <1>1, <1>t DEF ScreensAreRight
<1>2. ASSUME NEW p \in Plays, CountPlay(p) PROVE ScreensAreRight'
  BY <1>2, <1>t DEF CountPlay, AdTypeOK, ScreensAreRight
<1>3. ASSUME NEW h \in Hosts, NEW told \in BOOLEAN, StopPlay(h, told) PROVE ScreensAreRight'
  <2>1. avStop[h].play \in Plays
    BY <1>3, <1>t DEF StopPlay, AdTypeOK
  <2> QED BY <1>3, <1>t, <2>1 DEF StopPlay, AdTypeOK, ScreensAreRight
<1> QED BY <1>1, <1>2, <1>3 DEF AdNext, CreateAd, ReadAd, SaveAd, CreatePlay, ReadPlay

\* Steps keep known who stops a play.
LEMMA StopsStep == AdInv /\ AdNext => StopsAreKnown'
<1> SUFFICES ASSUME AdInv, AdNext PROVE StopsAreKnown'
  OBVIOUS
<1>t. AdTypeOK /\ StopsAreKnown
  BY DEF AdInv
<1>1. ASSUME UNCHANGED <<avEnded, avStop, avTwice, avStamped>> PROVE StopsAreKnown'
  BY <1>1, <1>t DEF StopsAreKnown, OpenTo
<1>2. ASSUME NEW p \in Plays, NEW h \in Hosts, ReadPlay(h, p) PROVE StopsAreKnown'
  <2> DEFINE new == [play |-> p, ended |-> p \in avEnded]
  <2>1. /\ avStop' = [avStop EXCEPT ![h] = new] /\ avTwice \subseteq avTwice'
        /\ new.play = p /\ (~new.ended => p \notin avEnded)
        /\ (\E g \in Hosts : OpenTo(g, p)) => p \in avTwice'
        /\ UNCHANGED <<avEnded, avStamped>>
    BY <1>2 DEF ReadPlay, OpenTo
  <2> HIDE DEF new
  <2>2. avStop'[h] = new /\ \A g \in Hosts \ {h} : avStop'[g] = avStop[g]
    BY <1>t, <2>1 DEF AdTypeOK
  <2>3. \A q \in Plays \ avTwice' : \A g \in Hosts \ {h} : OpenTo(g, q)' <=> OpenTo(g, q)
    BY <2>2 DEF OpenTo
  <2>4. \A q \in Plays \ avTwice' : OpenTo(h, q)' =>
          q = p /\ p \notin avEnded /\ \A g \in Hosts : ~OpenTo(g, q)
    BY <2>1, <2>2 DEF OpenTo
  <2>5. \A q \in Plays \ avTwice' : \A f \in Hosts : \A g \in Hosts :
          OpenTo(f, q)' /\ OpenTo(g, q)' => f = g
    BY <1>t, <2>1, <2>3, <2>4 DEF StopsAreKnown
  <2>6. \A q \in avEnded' \ avTwice' : \A f \in Hosts : ~OpenTo(f, q)'
    BY <1>t, <2>1, <2>3, <2>4 DEF StopsAreKnown, AdTypeOK
  <2>7. avStamped' \subseteq avTwice'
    BY <1>t, <2>1 DEF StopsAreKnown
  <2> QED BY <2>5, <2>6, <2>7 DEF StopsAreKnown
<1>3. ASSUME NEW h \in Hosts, NEW told \in BOOLEAN, StopPlay(h, told) PROVE StopsAreKnown'
  <2> DEFINE p == avStop[h].play
  <2>1. p \in Plays /\ avStop' = [avStop EXCEPT ![h] = NoStop] /\ avTwice' = avTwice
        /\ avEnded' = (IF OpenTo(h, p) THEN avEnded \cup {p} ELSE avEnded)
        /\ avStamped' = (IF OpenTo(h, p) /\ p \in avEnded THEN avStamped \cup {p} ELSE avStamped)
    BY <1>3, <1>t DEF StopPlay, StampsOpen, AdTypeOK, OpenTo
  <2> HIDE DEF p
  <2>2. avStop'[h] = NoStop /\ \A g \in Hosts \ {h} : avStop'[g] = avStop[g]
    BY <1>t, <2>1 DEF AdTypeOK
  <2>3. \A q \in Plays : ~OpenTo(h, q)' /\ \A g \in Hosts \ {h} : OpenTo(g, q)' <=> OpenTo(g, q)
    BY <2>2, SponsorAssumption DEF OpenTo, NoStop
  <2>4. \A q \in Plays \ avTwice' : \A f \in Hosts : \A g \in Hosts :
          OpenTo(f, q)' /\ OpenTo(g, q)' => f = g
    BY <1>t, <2>1, <2>3 DEF StopsAreKnown
  <2>5. \A q \in avEnded' \ avTwice' : \A f \in Hosts : ~OpenTo(f, q)'
    BY <1>t, <2>1, <2>3 DEF StopsAreKnown, AdTypeOK
  <2>6. avStamped' \subseteq avTwice'
    BY <1>t, <2>1 DEF StopsAreKnown
  <2> QED BY <2>4, <2>5, <2>6 DEF StopsAreKnown
<1> QED BY <1>1, <1>2, <1>3 DEF AdNext, CreateAd, ReadAd, SaveAd, CreatePlay, CountPlay

\* Every step of AdNext keeps AdInv.
LEMMA AdStep == AdInv /\ [AdNext]_adVars => AdInv'
<1> SUFFICES ASSUME AdInv, [AdNext]_adVars PROVE AdInv'
  OBVIOUS
<1>1. CASE AdNext
  BY <1>1, AdTypeStep, PlaysStep, ScreensStep, StopsStep DEF AdInv
<1>2. CASE UNCHANGED adVars
  BY <1>2 DEF adVars, AdInv, AdTypeOK, PlaysAreCounted, PlaysOf, ScreensAreRight,
     StopsAreKnown, OpenTo
<1> QED BY <1>1, <1>2

-----------------------------------------------------------------------------
(* Uploads.                                                                *)

\* Before there is a key there is nothing.
NothingWithoutKey ==
    mdKey = NoKey => /\ ~mdOpen /\ mdPut = NULL /\ mdObject = NULL /\ ~mdConfirmed
                     /\ \A c \in Confirms : mdConfirm[c] = NULL

\* What a confirmation is about to do is right for the object, if it is the same.
Suspect(file) == ~Accepts(file) \/ (file.infected /\ Scans(file))
ConfirmsKnow ==
    \A c \in Confirms :
      mdConfirm[c] # NULL /\ mdConfirm[c].same /\ mdObject # NULL =>
        /\ mdConfirm[c].at = "scan" => Accepts(mdObject) /\ Scans(mdObject)
        /\ mdConfirm[c].at = "reject" => Suspect(mdObject)

MediaInv == MediaTypeOK /\ NothingWithoutKey /\ ConfirmsKnow /\ ConfirmedIsChecked

\* The initial states satisfy MediaInv.
LEMMA MediaInitial == MediaInit => MediaInv
<1> SUFFICES ASSUME MediaInit PROVE MediaInv
  OBVIOUS
<1>1. mdKey \in [category : UploadCategories \cup {NULL}, local : BOOLEAN, scanner : BOOLEAN]
  BY DEF MediaInit, NoKey
<1>2. MediaTypeOK
  BY <1>1 DEF MediaInit, MediaTypeOK
<1>3. NothingWithoutKey /\ ConfirmsKnow /\ ConfirmedIsChecked
  BY DEF MediaInit, NothingWithoutKey, ConfirmsKnow, ConfirmedIsChecked
<1> QED BY <1>2, <1>3 DEF MediaInv

\* Steps keep the types.
LEMMA MediaTypeStep == MediaInv /\ MediaNext => MediaTypeOK'
<1> SUFFICES ASSUME MediaInv, MediaNext PROVE MediaTypeOK'
  OBVIOUS
<1>t. MediaTypeOK
  BY DEF MediaInv
<1>1. ASSUME NEW category \in UploadCategories, NEW declared \in FileKinds,
             NEW local \in BOOLEAN, NEW scanner \in BOOLEAN,
             Presign(category, declared, local, scanner)
      PROVE  MediaTypeOK'
  BY <1>1, <1>t DEF Presign, MediaTypeOK
<1>2. CASE Expire
  BY <1>2, <1>t DEF Expire, MediaTypeOK
<1>b. ASSUME NEW object \in File \cup {NULL}, Becomes(object)
      PROVE  /\ mdObject' \in File \cup {NULL} /\ mdConfirmed' \in BOOLEAN
             /\ mdConfirm' \in [Confirms -> Confirmation \cup {NULL}]
  <2>1. ASSUME NEW c \in Confirms, mdConfirm[c] # NULL
        PROVE  [mdConfirm[c] EXCEPT !.same = FALSE] \in Confirmation
    <3>1. mdConfirm[c] \in Confirmation
      BY <1>t, <2>1 DEF MediaTypeOK
    <3> QED BY <3>1 DEF Confirmation
  <2> QED BY <1>b, <2>1 DEF Becomes
<1>3. ASSUME NEW file \in File, PutBegins(file) PROVE MediaTypeOK'
  <2>1. Nothing \in File
    BY DEF Nothing, File, FileKinds
  <2> QED BY <1>3, <1>b, <1>t, <2>1 DEF PutBegins, MediaTypeOK
<1>4. CASE PutFlows
  <2>1. [kind |-> mdPut.kind, infected |-> FALSE] \in File
    BY <1>4, <1>t DEF PutFlows, MediaTypeOK, File
  <2> QED BY <1>4, <1>b, <1>t, <2>1 DEF PutFlows, MediaTypeOK
<1>5. CASE PutEnds
  BY <1>5, <1>b, <1>t DEF PutEnds, MediaTypeOK
<1>6. CASE PutBreaks
  BY <1>6, <1>t DEF PutBreaks, MediaTypeOK
<1>7. ASSUME NEW c \in Confirms, ConfirmReadsHead(c) PROVE MediaTypeOK'
  <2>1. \A at \in {"scan", "reject"} : [at |-> at, same |-> TRUE] \in Confirmation
    BY DEF Confirmation
  <2> QED BY <1>7, <1>t, <2>1 DEF ConfirmReadsHead, At, MediaTypeOK
<1>8. ASSUME NEW c \in Confirms, ConfirmScans(c) PROVE MediaTypeOK'
  <2>1. mdConfirm[c] \in Confirmation
    BY <1>8, <1>t DEF ConfirmScans, MediaTypeOK
  <2>2. [mdConfirm[c] EXCEPT !.at = "reject"] \in Confirmation
    BY <2>1 DEF Confirmation
  <2>3. mdConfirm[c].same \in BOOLEAN
    BY <2>1 DEF Confirmation
  <2>4. mdConfirm' \in [Confirms -> Confirmation \cup {NULL}]
    BY <1>8, <1>t, <2>2 DEF ConfirmScans, Answers, MediaTypeOK
  <2>5. mdConfirmed' \in BOOLEAN /\ mdMissed' \in BOOLEAN
    BY <1>8, <1>t, <2>3 DEF ConfirmScans, MediaTypeOK
  <2> QED BY <1>8, <1>t, <2>4, <2>5 DEF ConfirmScans, MediaTypeOK
<1>9. ASSUME NEW c \in Confirms, ConfirmFails(c) PROVE MediaTypeOK'
  BY <1>9, <1>t DEF ConfirmFails, Answers, MediaTypeOK
<1>10. ASSUME NEW c \in Confirms, ConfirmDeletes(c) PROVE MediaTypeOK'
  <2>1. mdConfirm[c] \in Confirmation
    BY <1>10, <1>t DEF ConfirmDeletes, MediaTypeOK
  <2>2. (mdAnother \/ ~mdConfirm[c].same) \in BOOLEAN
    OBVIOUS
  <2> QED BY <1>10, <1>t, <2>2 DEF ConfirmDeletes, Answers, MediaTypeOK
<1> QED BY <1>1, <1>2, <1>3, <1>4, <1>5, <1>6, <1>7, <1>8, <1>9, <1>10 DEF MediaNext

\* What becomes of the object while it is confirmed, and who looked at it.
LEMMA MediaLooksStep == MediaInv /\ MediaNext => NothingWithoutKey' /\ ConfirmsKnow'
<1> SUFFICES ASSUME MediaInv, MediaNext PROVE NothingWithoutKey' /\ ConfirmsKnow'
  OBVIOUS
<1>t. MediaTypeOK /\ NothingWithoutKey /\ ConfirmsKnow
  BY DEF MediaInv
<1>a. NULL \notin UploadCategories \cup File \cup Confirmation
  BY MediaAssumption
<1>1. ASSUME NEW category \in UploadCategories, NEW declared \in FileKinds,
             NEW local \in BOOLEAN, NEW scanner \in BOOLEAN,
             Presign(category, declared, local, scanner)
      PROVE  NothingWithoutKey' /\ ConfirmsKnow'
  <2>1. mdKey = NoKey /\ mdKey'.category = category /\ UNCHANGED <<mdObject, mdConfirm>>
    BY <1>1 DEF Presign
  <2>2. mdKey' # NoKey
    BY <1>a, <2>1 DEF NoKey
  <2> QED BY <1>t, <2>1, <2>2 DEF NothingWithoutKey, ConfirmsKnow
<1>2. CASE Expire
  BY <1>2, <1>t DEF Expire, NothingWithoutKey, ConfirmsKnow, Suspect, Accepts, Scans
<1>b. ASSUME NEW object, Becomes(object), mdKey # NoKey, mdKey' = mdKey
      PROVE  NothingWithoutKey' /\ ConfirmsKnow'
  <2>1. \A c \in Confirms : mdConfirm'[c] # NULL => ~mdConfirm'[c].same
    <3> TAKE c \in Confirms
    <3>1. CASE mdConfirm[c] = NULL
      BY <1>b, <3>1 DEF Becomes
    <3>2. CASE mdConfirm[c] # NULL
      <4>1. mdConfirm[c] \in Confirmation
        BY <1>t, <3>2 DEF MediaTypeOK
      <4>2. mdConfirm'[c] = [mdConfirm[c] EXCEPT !.same = FALSE]
        BY <1>b, <3>2 DEF Becomes
      <4> QED BY <4>1, <4>2 DEF Confirmation
    <3> QED BY <3>1, <3>2
  <2> QED BY <1>b, <2>1 DEF NothingWithoutKey, ConfirmsKnow
<1>3. ASSUME NEW file \in File, PutBegins(file) PROVE NothingWithoutKey' /\ ConfirmsKnow'
  <2>1. mdKey # NoKey /\ mdKey' = mdKey
    BY <1>3, <1>t DEF PutBegins, NothingWithoutKey
  <2>2. CASE mdKey.local
    BY <1>3, <1>b, <2>1, <2>2 DEF PutBegins
  <2>3. CASE ~mdKey.local
    BY <1>3, <1>t, <2>1, <2>3 DEF PutBegins, NothingWithoutKey, ConfirmsKnow, Suspect, Accepts,
       Scans
  <2> QED BY <2>2, <2>3
<1>4. CASE PutFlows \/ PutEnds
  <2>1. mdKey # NoKey /\ mdKey' = mdKey
    BY <1>4, <1>t DEF PutFlows, PutEnds, NothingWithoutKey
  <2> QED BY <1>4, <1>b, <2>1 DEF PutFlows, PutEnds
<1>5. CASE PutBreaks
  BY <1>5, <1>t DEF PutBreaks, NothingWithoutKey, ConfirmsKnow, Suspect, Accepts, Scans
<1>6. ASSUME NEW c \in Confirms, ConfirmReadsHead(c) PROVE NothingWithoutKey' /\ ConfirmsKnow'
  <2>1. mdKey # NoKey /\ mdKey' = mdKey /\ mdObject' = mdObject /\ mdObject # NULL
    BY <1>6 DEF ConfirmReadsHead
  <2>2. \/ mdConfirm' = mdConfirm
        \/ At(c, "reject") /\ ~Accepts(mdObject)
        \/ At(c, "scan") /\ Accepts(mdObject) /\ Scans(mdObject)
    BY <1>6 DEF ConfirmReadsHead
  <2>3. \A d \in Confirms \ {c} : mdConfirm'[d] = mdConfirm[d]
    BY <1>t, <2>2 DEF At, MediaTypeOK
  <2>4. \/ mdConfirm'[c] = mdConfirm[c]
        \/ mdConfirm'[c].at = "reject" /\ ~Accepts(mdObject)
        \/ mdConfirm'[c].at = "scan" /\ Accepts(mdObject) /\ Scans(mdObject)
    BY <1>t, <2>2 DEF At, MediaTypeOK
  <2> QED BY <1>t, <2>1, <2>3, <2>4 DEF NothingWithoutKey, ConfirmsKnow, Suspect, Accepts, Scans
<1>7. ASSUME NEW c \in Confirms, ConfirmScans(c) PROVE NothingWithoutKey' /\ ConfirmsKnow'
  <2>1. /\ mdConfirm[c] # NULL /\ mdConfirm[c].at = "scan" /\ mdObject # NULL
        /\ mdKey' = mdKey /\ mdObject' = mdObject
        /\ \/ mdObject.infected /\ mdConfirm' = [mdConfirm EXCEPT ![c].at = "reject"]
           \/ mdConfirm' = [mdConfirm EXCEPT ![c] = NULL]
    BY <1>7 DEF ConfirmScans, Answers
  <2>2. mdKey # NoKey
    BY <1>t, <2>1 DEF NothingWithoutKey
  <2>3. mdConfirm[c] \in Confirmation
    BY <1>t, <2>1 DEF MediaTypeOK
  <2>4. \A d \in Confirms \ {c} : mdConfirm'[d] = mdConfirm[d]
    BY <1>t, <2>1 DEF MediaTypeOK
  <2>5. \/ mdConfirm'[c] = NULL
        \/ /\ mdObject.infected
           /\ mdConfirm'[c].at = "reject" /\ mdConfirm'[c].same = mdConfirm[c].same
    BY <1>t, <2>1, <2>3 DEF MediaTypeOK, Confirmation
  <2> QED BY <1>t, <2>1, <2>2, <2>4, <2>5 DEF NothingWithoutKey, ConfirmsKnow, Suspect, Accepts,
          Scans
<1>8. ASSUME NEW c \in Confirms, ConfirmFails(c) PROVE NothingWithoutKey' /\ ConfirmsKnow'
  <2>1. \A d \in Confirms : mdConfirm'[d] = mdConfirm[d] \/ mdConfirm'[d] = NULL
    BY <1>8, <1>t DEF ConfirmFails, Answers, MediaTypeOK
  <2> QED BY <1>8, <1>t, <2>1 DEF ConfirmFails, NothingWithoutKey, ConfirmsKnow, Suspect, Accepts,
          Scans
<1>9. ASSUME NEW c \in Confirms, ConfirmDeletes(c) PROVE NothingWithoutKey' /\ ConfirmsKnow'
  <2>1. mdConfirm[c] # NULL /\ mdKey' = mdKey /\ mdObject' = NULL
    BY <1>9 DEF ConfirmDeletes
  <2> QED BY <1>t, <2>1 DEF NothingWithoutKey, ConfirmsKnow
<1> QED BY <1>1, <1>2, <1>3, <1>4, <1>5, <1>6, <1>7, <1>8, <1>9 DEF MediaNext

\* The property is preserved by every step.
LEMMA MediaConfirmedStep == MediaInv /\ MediaNext => ConfirmedIsChecked'
<1> SUFFICES ASSUME MediaInv, MediaNext PROVE ConfirmedIsChecked'
  OBVIOUS
<1>t. MediaTypeOK /\ NothingWithoutKey /\ ConfirmsKnow /\ ConfirmedIsChecked
  BY DEF MediaInv
<1>1. ASSUME UNCHANGED <<mdKey, mdObject, mdConfirmed, mdMissed, mdAnother>>
      PROVE  ConfirmedIsChecked'
  BY <1>1, <1>t DEF ConfirmedIsChecked
<1>2. ASSUME ~mdConfirmed' PROVE ConfirmedIsChecked'
  BY <1>2 DEF ConfirmedIsChecked
<1>3. ASSUME NEW category \in UploadCategories, NEW declared \in FileKinds,
             NEW local \in BOOLEAN, NEW scanner \in BOOLEAN,
             Presign(category, declared, local, scanner)
      PROVE  ConfirmedIsChecked'
  BY <1>2, <1>3, <1>t DEF Presign, NothingWithoutKey
<1>4. ASSUME NEW file \in File, PutBegins(file) PROVE ConfirmedIsChecked'
  BY <1>1, <1>2, <1>4 DEF PutBegins, Becomes
<1>5. CASE PutFlows \/ PutEnds
  BY <1>2, <1>5 DEF PutFlows, PutEnds, Becomes
<1>6. CASE Expire \/ PutBreaks
  BY <1>1, <1>6 DEF Expire, PutBreaks
<1>7. ASSUME NEW c \in Confirms, ConfirmReadsHead(c) PROVE ConfirmedIsChecked'
  <2>1. UNCHANGED <<mdKey, mdObject, mdMissed, mdAnother>> /\ mdObject # NULL
    BY <1>7 DEF ConfirmReadsHead
  <2>2. mdConfirmed' = mdConfirmed \/ (Accepts(mdObject) /\ ~Scans(mdObject))
    BY <1>7 DEF ConfirmReadsHead
  <2> QED BY <1>t, <2>1, <2>2 DEF ConfirmedIsChecked, Accepts, Scans
<1>8. ASSUME NEW c \in Confirms, ConfirmScans(c) PROVE ConfirmedIsChecked'
  <2>1. /\ mdConfirm[c] # NULL /\ mdConfirm[c].at = "scan" /\ mdObject # NULL
        /\ UNCHANGED <<mdKey, mdObject, mdAnother>>
    BY <1>8 DEF ConfirmScans
  <2>2. PICK answers \in BOOLEAN :
          /\ mdMissed' = (mdMissed \/ ~answers)
          /\ \/ mdConfirmed' = mdConfirmed
             \/ ~(answers /\ mdObject.infected) /\ mdConfirmed' = (mdConfirmed \/ mdConfirm[c].same)
    BY <1>8 DEF ConfirmScans
  <2>3. CASE mdConfirmed
    BY <1>t, <2>1, <2>2, <2>3 DEF ConfirmedIsChecked
  <2>4. CASE ~mdConfirmed /\ mdConfirmed'
    <3>1. mdConfirm[c].same /\ ~(answers /\ mdObject.infected)
      BY <2>2, <2>4
    <3>2. Accepts(mdObject)
      BY <1>t, <2>1, <3>1 DEF ConfirmsKnow
    <3> QED BY <2>1, <2>2, <3>1, <3>2 DEF ConfirmedIsChecked, Accepts
  <2> QED BY <1>2, <2>3, <2>4
<1>9. ASSUME NEW c \in Confirms, ConfirmFails(c) PROVE ConfirmedIsChecked'
  BY <1>1, <1>9 DEF ConfirmFails
<1>10. ASSUME NEW c \in Confirms, ConfirmDeletes(c) PROVE ConfirmedIsChecked'
  <2>1. /\ mdConfirm[c] # NULL /\ mdConfirm[c].at = "reject" /\ mdObject' = NULL
        /\ mdAnother' = (mdAnother \/ ~mdConfirm[c].same)
        /\ UNCHANGED <<mdKey, mdMissed, mdConfirmed>>
    BY <1>10 DEF ConfirmDeletes
  <2>2. CASE mdConfirmed /\ mdConfirm[c].same /\ mdObject # NULL
    <3>1. Suspect(mdObject)
      BY <1>t, <2>1, <2>2 DEF ConfirmsKnow
    <3>2. mdMissed
      BY <1>t, <2>2, <3>1 DEF ConfirmedIsChecked, Suspect, Accepts, Scans
    <3> QED BY <2>1, <3>2 DEF ConfirmedIsChecked
  <2>3. CASE ~(mdConfirmed /\ mdConfirm[c].same /\ mdObject # NULL)
    BY <1>t, <2>1, <2>3 DEF ConfirmedIsChecked
  <2> QED BY <2>2, <2>3
<1> QED BY <1>3, <1>4, <1>5, <1>6, <1>7, <1>8, <1>9, <1>10 DEF MediaNext

\* Every step of MediaNext keeps MediaInv.
LEMMA MediaStep == MediaInv /\ [MediaNext]_mediaVars => MediaInv'
<1> SUFFICES ASSUME MediaInv, [MediaNext]_mediaVars PROVE MediaInv'
  OBVIOUS
<1>1. CASE MediaNext
  BY <1>1, MediaTypeStep, MediaLooksStep, MediaConfirmedStep DEF MediaInv
<1>2. CASE UNCHANGED mediaVars
  BY <1>2 DEF mediaVars, MediaInv, MediaTypeOK, NothingWithoutKey, ConfirmsKnow, ConfirmedIsChecked,
     Suspect, Accepts, Scans
<1> QED BY <1>1, <1>2

-----------------------------------------------------------------------------
(* Devices.                                                                *)

\* The row a registration has in hand is one of its device, while it is there; a
\* row a notice is about to purge is one of a device that is gone.
HandsAreRight ==
    /\ \A c \in Registrars : \A r \in Registered :
         dvCall[c] # NULL /\ dvCall[c].row = r /\ dvRows[r] # NULL =>
           dvRows[r].device = dvCall[c].device
    /\ \A n \in Notices : \A r \in Registered :
         dvNotice[n] # NULL /\ dvNotice[n].pushed /\ r \in dvNotice[n].rows
           /\ dvRows[r] # NULL => dvRows[r].device \in dvDead

\* The rows of a device.
Its(d) == {r \in Registered : dvRows[r] # NULL /\ dvRows[r].device = d}

\* A device nothing overlapped about: it has at most one row, that of its holder.
OneHolder(d) ==
    /\ \A r \in Its(d) : \A q \in Its(d) : r = q
    /\ \A r \in Its(d) : dvRows[r].user = dvHolder[d]
    /\ d \notin dvDead /\ dvHolder[d] # NULL => Its(d) # {}

\* A registration of it is alone, and what it read is so still.
CallIsRight(c) ==
    LET d == dvCall[c].device
    IN  /\ \A b \in Registrars : dvCall[b] # NULL /\ dvCall[b].device = d => b = c
        /\ dvCall[c].row = NULL => Its(d) = {}
        /\ dvCall[c].row # NULL =>
             /\ Its(d) \subseteq {dvCall[c].row}
             /\ dvRows[dvCall[c].row] = NULL => d \in dvDead
             /\ dvRows[dvCall[c].row] # NULL /\ ~dvCall[c].other =>
                  dvRows[dvCall[c].row].user = dvCall[c].user

UnmixedAreRight ==
    \A d \in AllDevices \ dvMixed :
      /\ OneHolder(d)
      /\ \A c \in Registrars : dvCall[c] # NULL /\ dvCall[c].device = d => CallIsRight(c)

DeviceInv == DeviceTypeOK /\ HandsAreRight /\ UnmixedAreRight

\* Only one user can hold a device: its rows are those with its name.
LEMMA ItsRows == ASSUME DeviceTypeOK, NEW d \in AllDevices PROVE RowsOf(d) = Its(d)
<1>1. ASSUME NEW r \in RowsOf(d) PROVE r \in Its(d)
  <2>1. PICK u \in People : r \in Registered /\ dvRows[r] = [user |-> u, device |-> d]
    BY <1>1 DEF RowsOf, RowsWhere
  <2>2. dvRows[r] \in PushRow
    BY <2>1 DEF PushRow
  <2> QED BY <2>1, <2>2, DeviceAssumption DEF Its
<1>2. ASSUME NEW r \in Its(d) PROVE r \in RowsOf(d)
  <2>1. r \in Registered /\ dvRows[r] \in PushRow /\ dvRows[r].device = d
    BY <1>2 DEF Its, DeviceTypeOK
  <2>2. dvRows[r] = [user |-> dvRows[r].user, device |-> d] /\ dvRows[r].user \in People
    BY <2>1 DEF PushRow
  <2> QED BY <2>1, <2>2 DEF RowsOf, RowsWhere
<1> QED BY <1>1, <1>2

\* Rows that are not mixed up are of who holds the device.
LEMMA DeviceSafe == DeviceInv => DevicesAreTheirUsers
<1> SUFFICES ASSUME DeviceInv, NEW d \in AllDevices \ dvMixed
             PROVE  /\ \A r \in RowsOf(d) : dvRows[r].user = dvHolder[d]
                    /\ Cardinality(RowsOf(d)) =< 1
                    /\ d \notin dvDead /\ dvHolder[d] # NULL => RowsOf(d) # {}
  BY DEF DevicesAreTheirUsers
<1>1. RowsOf(d) = Its(d) /\ OneHolder(d)
  BY ItsRows DEF DeviceInv, UnmixedAreRight
<1>2. Cardinality(Its(d)) =< 1
  <2>1. CASE Its(d) = {}
    BY <2>1, FS_EmptySet
  <2>2. CASE Its(d) # {}
    <3>1. PICK r : Its(d) = {r}
      BY <1>1, <2>2 DEF OneHolder
    <3>2. Cardinality({r}) = 1
      BY FS_Singleton
    <3> QED BY <3>1, <3>2
  <2> QED BY <2>1, <2>2
<1> QED BY <1>1, <1>2 DEF OneHolder

\* The initial states satisfy DeviceInv.
LEMMA DeviceInitial == DeviceInit => DeviceInv
BY DEF DeviceInit, DeviceInv, DeviceTypeOK, HandsAreRight, UnmixedAreRight, OneHolder, Its

\* Nothing is done to the rows, the devices and their holders; calls end, or begin
\* and are known to be mixed up with others.
LEMMA DeviceRowsStay ==
    ASSUME DeviceInv, UNCHANGED <<dvRows, dvHolder>>, dvMixed \subseteq dvMixed',
           dvDead \subseteq dvDead',
           \A c \in Registrars : dvCall'[c] = dvCall[c] \/ dvCall'[c] = NULL
    PROVE  UnmixedAreRight'
<1>1. \A d : Its(d)' = Its(d)
  BY DEF Its
<1> SUFFICES ASSUME NEW d \in AllDevices \ dvMixed'
             PROVE  /\ OneHolder(d)'
                    /\ \A c \in Registrars : dvCall'[c] # NULL /\ dvCall'[c].device = d => CallIsRight(c)'
  BY DEF UnmixedAreRight
<1>2. /\ OneHolder(d)
      /\ \A c \in Registrars : dvCall[c] # NULL /\ dvCall[c].device = d => CallIsRight(c)
  BY DEF DeviceInv, UnmixedAreRight
<1>3. OneHolder(d)'
  BY <1>1, <1>2 DEF OneHolder
<1>4. ASSUME NEW c \in Registrars, dvCall'[c] # NULL, dvCall'[c].device = d PROVE CallIsRight(c)'
  <2>1. dvCall'[c] = dvCall[c] /\ CallIsRight(c)
    BY <1>2, <1>4
  <2> QED BY <1>1, <2>1 DEF CallIsRight
<1> QED BY <1>3, <1>4

\* Rows go, of devices that are gone.
LEMMA DeviceRowsGo ==
    ASSUME DeviceInv, NEW rows \in SUBSET Registered, dvRows' = Without(rows),
           \A r \in rows : dvRows[r] # NULL => dvRows[r].device \in dvDead,
           UNCHANGED <<dvHolder, dvMixed, dvDead, dvCall>>
    PROVE  UnmixedAreRight'
<1>t. DeviceTypeOK /\ UnmixedAreRight /\ HandsAreRight
  BY DEF DeviceInv
<1>1. \A r \in Registered : dvRows'[r] = IF r \in rows THEN NULL ELSE dvRows[r]
  BY DEF Without
<1>2. \A d : Its(d)' = Its(d) \ rows
  BY <1>1 DEF Its
<1>3. \A d \in AllDevices \ dvDead : Its(d)' = Its(d)
  BY <1>2 DEF Its
<1> SUFFICES ASSUME NEW d \in AllDevices \ dvMixed
             PROVE  /\ OneHolder(d)'
                    /\ \A c \in Registrars : dvCall[c] # NULL /\ dvCall[c].device = d => CallIsRight(c)'
  BY DEF UnmixedAreRight
<1>4. /\ OneHolder(d)
      /\ \A c \in Registrars : dvCall[c] # NULL /\ dvCall[c].device = d => CallIsRight(c)
  BY <1>t DEF UnmixedAreRight
<1>5. Its(d) \subseteq Registered
  BY DEF Its
<1>6. OneHolder(d)'
  BY <1>1, <1>2, <1>3, <1>4, <1>5 DEF OneHolder
<1>7. ASSUME NEW c \in Registrars, dvCall[c] # NULL, dvCall[c].device = d PROVE CallIsRight(c)'
  <2>1. CallIsRight(c)
    BY <1>4, <1>7
  <2>2. dvCall[c].row = NULL \/ dvCall[c].row \in Registered
    BY <1>7, <1>t DEF DeviceTypeOK, PushCall
  <2>3. ASSUME dvCall[c].row # NULL, dvRows'[dvCall[c].row] = NULL PROVE d \in dvDead
    <3>1. CASE dvRows[dvCall[c].row] = NULL
      BY <1>7, <2>1, <2>3, <3>1 DEF CallIsRight
    <3>2. CASE dvRows[dvCall[c].row] # NULL
      <4>1. dvRows[dvCall[c].row].device = d
        BY <1>7, <1>t, <2>2, <2>3, <3>2 DEF HandsAreRight
      <4>2. dvCall[c].row \in rows
        BY <1>1, <2>2, <2>3, <3>2
      <4> QED BY <2>2, <2>3, <3>2, <4>1, <4>2
    <3> QED BY <3>1, <3>2
  <2> QED BY <1>1, <1>2, <1>7, <2>1, <2>2, <2>3 DEF CallIsRight
<1> QED BY <1>6, <1>7

\* A registration reads the rows of its device.
LEMMA RegistrationReadStep ==
    ASSUME DeviceInv, NEW c \in Registrars, NEW u \in People, NEW d \in AllDevices,
           RegistrationReads(c, u, d)
    PROVE  DeviceInv'
<1>t. DeviceTypeOK /\ HandsAreRight /\ UnmixedAreRight
  BY DEF DeviceInv
<1>1. /\ dvCall[c] = NULL /\ d \notin dvDead
      /\ dvMixed' = (IF Registering(d) = {} THEN dvMixed ELSE dvMixed \cup {d})
      /\ UNCHANGED <<dvRows, dvNotice, dvDead, dvHolder>>
  BY DEF RegistrationReads
<1>2. PICK r \in IF Found(u, d) = {} THEN {NULL} ELSE FirstOf(Found(u, d)) :
        dvCall' = [dvCall EXCEPT ![c] =
                      [user |-> u, device |-> d, row |-> r,
                       other |-> r # NULL /\ dvRows[r].user # u]]
  BY DEF RegistrationReads
<1>3. Found(u, d) = Its(d) /\ Its(d) \subseteq Registered
  BY <1>t, ItsRows DEF Found, Its
<1>4. IF r = NULL THEN Its(d) = {} ELSE r \in Its(d)
  BY <1>2, <1>3, DeviceAssumption DEF FirstOf
<1> DEFINE new == [user |-> u, device |-> d, row |-> r, other |-> r # NULL /\ dvRows[r].user # u]
<1>5. /\ new \in PushCall /\ new.device = d /\ new.row = r /\ new.user = u
      /\ r # NULL /\ ~new.other => dvRows[r].user = u
  BY <1>3, <1>4 DEF PushCall
<1>6. dvCall' = [dvCall EXCEPT ![c] = new]
  BY <1>2
<1> HIDE DEF new
<1>7. dvCall'[c] = new /\ new # NULL /\ \A b \in Registrars \ {c} : dvCall'[b] = dvCall[b]
  BY <1>5, <1>6, <1>t, DeviceAssumption DEF DeviceTypeOK
<1>8. DeviceTypeOK'
  BY <1>1, <1>5, <1>6, <1>t DEF DeviceTypeOK
<1>9. HandsAreRight'
  <2>1. ASSUME NEW b \in Registrars, NEW q \in Registered, dvCall'[b] # NULL,
               dvCall'[b].row = q, dvRows[q] # NULL
        PROVE  dvRows[q].device = dvCall'[b].device
    <3>1. CASE b = c
      BY <1>4, <1>5, <1>7, <2>1, <3>1, DeviceAssumption DEF Its
    <3>2. CASE b # c
      BY <1>7, <1>t, <2>1, <3>2 DEF HandsAreRight
    <3> QED BY <3>1, <3>2
  <2> QED BY <1>1, <1>t, <2>1 DEF HandsAreRight
<1>10. UnmixedAreRight'
  <2> SUFFICES ASSUME NEW e \in AllDevices \ dvMixed'
               PROVE  /\ OneHolder(e)'
                      /\ \A b \in Registrars : dvCall'[b] # NULL /\ dvCall'[b].device = e => CallIsRight(b)'
    BY DEF UnmixedAreRight
  <2>1. /\ e \notin dvMixed /\ (e = d => Registering(d) = {})
        /\ \A x : Its(x)' = Its(x)
    BY <1>1 DEF Its
  <2>2. /\ OneHolder(e)
        /\ \A b \in Registrars : dvCall[b] # NULL /\ dvCall[b].device = e => CallIsRight(b)
    BY <1>t, <2>1 DEF UnmixedAreRight
  <2>3. OneHolder(e)'
    BY <1>1, <2>1, <2>2 DEF OneHolder
  <2>4. ASSUME NEW b \in Registrars, dvCall'[b] # NULL, dvCall'[b].device = e PROVE CallIsRight(b)'
    <3>1. CASE b = c
      <4>1. e = d /\ \A a \in Registrars \ {c} : ~(dvCall'[a] # NULL /\ dvCall'[a].device = d)
        BY <1>5, <1>7, <2>1, <2>4, <3>1 DEF Registering
      <4>2. r # NULL => Its(d) \subseteq {r} /\ dvRows[r] # NULL
        BY <1>4, <2>2, <4>1 DEF OneHolder, Its
      <4> QED BY <1>1, <1>4, <1>5, <1>7, <2>1, <3>1, <4>1, <4>2 DEF CallIsRight
    <3>2. CASE b # c
      <4>1. dvCall'[b] = dvCall[b] /\ CallIsRight(b)
        BY <1>7, <2>2, <2>4, <3>2
      <4>2. e # d
        BY <2>1, <2>4, <4>1 DEF Registering
      <4> QED BY <1>1, <1>5, <1>7, <2>1, <2>4, <4>1, <4>2 DEF CallIsRight
    <3> QED BY <3>1, <3>2
  <2> QED BY <2>3, <2>4
<1> QED BY <1>8, <1>9, <1>10 DEF DeviceInv

\* A registration saves its row.
LEMMA RegistrationSaveStep ==
    ASSUME DeviceInv, NEW c \in Registrars, RegistrationSaves(c)
    PROVE  DeviceInv'
<1>t. DeviceTypeOK /\ HandsAreRight /\ UnmixedAreRight
  BY DEF DeviceInv
<1>0. PICK it \in PushCall : it = dvCall[c]
  BY <1>t DEF RegistrationSaves, DeviceTypeOK
<1>00. PICK d \in AllDevices : d = it.device
  BY <1>0 DEF PushCall
<1> DEFINE its == [user |-> it.user, device |-> d]
<1>1. /\ dvCall[c] # NULL
      /\ dvHolder' = [dvHolder EXCEPT ![d] = it.user]
      /\ dvCall' = [dvCall EXCEPT ![c] = NULL]
      /\ UNCHANGED <<dvNotice, dvDead, dvMixed>>
  BY <1>0, <1>00 DEF RegistrationSaves
<1>2. IF it.row = NULL
      THEN \E r \in FreshRows : dvRows' = [dvRows EXCEPT ![r] = its]
      ELSE dvRows' = [dvRows EXCEPT ![it.row] = IF @ # NULL /\ it.other THEN its ELSE @]
  BY <1>0, <1>00 DEF RegistrationSaves
<1>3. its \in PushRow /\ its # NULL /\ its.device = d /\ its.user = it.user /\ it.user \in People
  BY <1>0, <1>00, DeviceAssumption DEF PushRow, PushCall
<1> HIDE DEF its
<1>4. dvCall'[c] = NULL /\ \A b \in Registrars \ {c} : dvCall'[b] = dvCall[b]
  BY <1>1, <1>t DEF DeviceTypeOK
<1>5. PICK q \in Registered :
        /\ \A r \in Registered \ {q} : dvRows'[r] = dvRows[r]
        /\ \/ it.row = NULL /\ q \in FreshRows /\ dvRows'[q] = its
           \/ it.row = q /\ dvRows[q] # NULL /\ it.other /\ dvRows'[q] = its
           \/ it.row = q /\ dvRows'[q] = dvRows[q] /\ ~(dvRows[q] # NULL /\ it.other)
        /\ dvRows' \in [Registered -> PushRow \cup {NULL}]
  <2>1. CASE it.row = NULL
    <3>1. PICK q \in FreshRows : dvRows' = [dvRows EXCEPT ![q] = its]
      BY <1>2, <2>1
    <3>2. q \in Registered
      BY DEF FreshRows
    <3>3. dvRows'[q] = its /\ dvRows' \in [Registered -> PushRow \cup {NULL}]
          /\ \A r \in Registered \ {q} : dvRows'[r] = dvRows[r]
      BY <1>3, <1>t, <3>1, <3>2 DEF DeviceTypeOK
    <3> QED BY <2>1, <3>2, <3>3
  <2>2. CASE it.row # NULL
    <3>1. PICK q \in Registered : q = it.row
      BY <2>2 DEF PushCall
    <3>2. dvRows' = [dvRows EXCEPT ![q] = IF @ # NULL /\ it.other THEN its ELSE @]
      BY <1>2, <2>2, <3>1
    <3>3. CASE dvRows[q] # NULL /\ it.other
      BY <1>3, <1>t, <3>1, <3>2, <3>3 DEF DeviceTypeOK
    <3>4. CASE ~(dvRows[q] # NULL /\ it.other)
      BY <1>3, <1>t, <3>1, <3>2, <3>4 DEF DeviceTypeOK
    <3> QED BY <3>3, <3>4
  <2> QED BY <2>1, <2>2
<1>6. DeviceTypeOK'
  <2>1. dvHolder' \in [AllDevices -> People \cup {NULL}]
    BY <1>1, <1>3, <1>t DEF DeviceTypeOK
  <2> QED BY <1>1, <1>5, <1>t, <2>1 DEF DeviceTypeOK
\* The row keeps its device, or is new to everyone.
<1>7. \A r \in Registered : dvRows[r] # NULL => dvRows'[r] # NULL /\ dvRows'[r].device = dvRows[r].device
  <2>1. q \in FreshRows => dvRows[q] = NULL
    BY DEF FreshRows
  <2>2. it.row = q /\ dvRows[q] # NULL => dvRows[q].device = d
    BY <1>0, <1>00, <1>1, <1>t DEF HandsAreRight
  <2> QED BY <1>3, <1>5, <2>1, <2>2
<1>8. \A r \in Registered : dvRows[r] = NULL /\ dvRows'[r] # NULL => r = q /\ q \in FreshRows
  BY <1>5
<1>9. HandsAreRight'
  <2>1. ASSUME NEW b \in Registrars, NEW r \in Registered, dvCall'[b] # NULL,
               dvCall'[b].row = r, dvRows'[r] # NULL
        PROVE  dvRows'[r].device = dvCall'[b].device
    <3>1. b # c /\ dvCall'[b] = dvCall[b]
      BY <1>4, <2>1
    <3>2. dvRows[r] # NULL
      BY <1>8, <2>1, <3>1 DEF FreshRows
    <3> QED BY <1>7, <1>t, <2>1, <3>1, <3>2 DEF HandsAreRight
  <2>2. ASSUME NEW n \in Notices, NEW r \in Registered, dvNotice[n] # NULL, dvNotice[n].pushed,
               r \in dvNotice[n].rows, dvRows'[r] # NULL
        PROVE  dvRows'[r].device \in dvDead
    <3>1. dvRows[r] # NULL
      BY <1>8, <2>2 DEF FreshRows
    <3> QED BY <1>7, <1>t, <2>2, <3>1 DEF HandsAreRight
  <2> QED BY <1>1, <2>1, <2>2 DEF HandsAreRight
<1>10. \A x \in AllDevices \ {d} :
         /\ Its(x)' = Its(x) /\ dvHolder'[x] = dvHolder[x]
         /\ \A r \in Its(x) : dvRows'[r] = dvRows[r]
  <2> TAKE x \in AllDevices \ {d}
  <2>1. dvHolder'[x] = dvHolder[x]
    BY <1>1, <1>t DEF DeviceTypeOK
  <2>2. \/ dvRows'[q] = dvRows[q]
        \/ dvRows'[q].device = d /\ dvRows'[q] # NULL /\ (dvRows[q] = NULL \/ dvRows[q].device = d)
    BY <1>3, <1>5, <1>7, <1>8 DEF FreshRows
  <2> QED BY <1>5, <2>1, <2>2 DEF Its
<1>11. Its(d)' = (IF it.row = NULL THEN Its(d) \cup {q} ELSE Its(d)) /\ Its(d) \subseteq Registered
  <2>1. q \in FreshRows => dvRows[q] = NULL
    BY DEF FreshRows
  <2> QED BY <1>3, <1>5, <1>7, <2>1, DeviceAssumption DEF Its
<1>12. UnmixedAreRight'
  <2> SUFFICES ASSUME NEW e \in AllDevices \ dvMixed
               PROVE  /\ OneHolder(e)'
                      /\ \A b \in Registrars : dvCall'[b] # NULL /\ dvCall'[b].device = e => CallIsRight(b)'
    BY <1>1 DEF UnmixedAreRight
  <2>1. /\ OneHolder(e)
        /\ \A b \in Registrars : dvCall[b] # NULL /\ dvCall[b].device = e => CallIsRight(b)
    BY <1>t DEF UnmixedAreRight
  <2>2. CASE e = d
    <3>1. /\ \A b \in Registrars : dvCall[b] # NULL /\ dvCall[b].device = d => b = c
          /\ it.row = NULL => Its(d) = {}
          /\ it.row # NULL => /\ Its(d) \subseteq {it.row}
                              /\ dvRows[it.row] = NULL => d \in dvDead
                              /\ dvRows[it.row] # NULL /\ ~it.other => dvRows[it.row].user = it.user
      BY <1>0, <1>00, <1>1, <2>1, <2>2 DEF CallIsRight
    <3>2. dvHolder'[d] = it.user
      BY <1>1, <1>t DEF DeviceTypeOK
    <3>3. \A b \in Registrars : ~(dvCall'[b] # NULL /\ dvCall'[b].device = d)
      BY <1>4, <3>1
    <3>4. CASE it.row = NULL
      <4>1. Its(d)' = {q} /\ dvRows'[q] = its
        BY <1>5, <1>11, <3>1, <3>4, DeviceAssumption
      <4> QED BY <1>3, <2>2, <3>2, <3>3, <4>1 DEF OneHolder
    <3>5. CASE it.row # NULL
      <4>1. it.row = q /\ Its(d)' \subseteq {q} /\ Its(d)' = Its(d)
        BY <1>5, <1>11, <3>1, <3>5
      <4>2. q \in Its(d)' => dvRows'[q].user = it.user
        BY <1>3, <1>5, <3>1, <4>1 DEF Its
      <4>3. d \notin dvDead => q \in Its(d)
        <5>1. d \notin dvDead => dvRows[q] # NULL
          BY <3>1, <3>5, <4>1
        <5>2. dvRows[q] # NULL => dvRows[q].device = d
          BY <1>0, <1>00, <1>1, <1>t, <4>1 DEF HandsAreRight
        <5> QED BY <5>1, <5>2 DEF Its
      <4> QED BY <1>1, <2>2, <3>2, <3>3, <4>1, <4>2, <4>3 DEF OneHolder
    <3> QED BY <3>4, <3>5
  <2>3. CASE e # d
    <3>1. OneHolder(e)'
      BY <1>1, <1>10, <2>1, <2>3 DEF OneHolder
    <3>2. ASSUME NEW b \in Registrars, dvCall'[b] # NULL, dvCall'[b].device = e PROVE CallIsRight(b)'
      <4>1. b # c /\ dvCall'[b] = dvCall[b] /\ CallIsRight(b)
        BY <1>4, <2>1, <3>2
      <4>2. dvCall[b].row = NULL \/ dvCall[b].row \in Registered
        BY <1>t, <3>2, <4>1 DEF DeviceTypeOK, PushCall
      <4>3. ASSUME dvCall[b].row # NULL
            PROVE  /\ dvRows'[dvCall[b].row] = NULL => e \in dvDead
                   /\ dvRows'[dvCall[b].row] # NULL /\ ~dvCall[b].other =>
                        dvRows'[dvCall[b].row].user = dvCall[b].user
        <5>1. CASE dvRows[dvCall[b].row] = NULL
          <6>1. dvRows'[dvCall[b].row] = NULL
            BY <1>8, <3>2, <4>1, <4>2, <4>3, <5>1 DEF FreshRows
          <6> QED BY <3>2, <4>1, <4>3, <5>1, <6>1 DEF CallIsRight
        <5>2. CASE dvRows[dvCall[b].row] # NULL
          <6>1. dvRows[dvCall[b].row].device = e
            BY <1>t, <3>2, <4>1, <4>2, <4>3, <5>2 DEF HandsAreRight
          <6>2. dvRows'[dvCall[b].row] = dvRows[dvCall[b].row]
            BY <1>10, <2>3, <4>2, <4>3, <5>2, <6>1 DEF Its
          <6> QED BY <3>2, <4>1, <4>3, <5>2, <6>2 DEF CallIsRight
        <5> QED BY <5>1, <5>2
      <4>4. \A a \in Registrars : dvCall'[a] # NULL /\ dvCall'[a].device = e => a = b
        BY <1>4, <3>2, <4>1 DEF CallIsRight
      <4>5. Its(e)' = Its(e)
        BY <1>10, <2>3
      <4> QED BY <1>1, <3>2, <4>1, <4>3, <4>4, <4>5 DEF CallIsRight
    <3> QED BY <3>1, <3>2
  <2> QED BY <2>2, <2>3
<1> QED BY <1>6, <1>9, <1>12 DEF DeviceInv

\* A device is unregistered.
LEMMA UnregisterStep ==
    ASSUME DeviceInv, NEW u \in People, NEW d \in AllDevices, Unregisters(u, d)
    PROVE  DeviceInv'
<1>t. DeviceTypeOK /\ HandsAreRight /\ UnmixedAreRight
  BY DEF DeviceInv
<1> DEFINE gone == RowsWhere(u, d)
<1>1. /\ gone # {} /\ dvRows' = Without(gone)
      /\ dvHolder' = [dvHolder EXCEPT ![d] = IF @ = u THEN NULL ELSE @]
      /\ dvMixed' = (IF Registering(d) = {} THEN dvMixed ELSE dvMixed \cup {d})
      /\ UNCHANGED <<dvCall, dvNotice, dvDead>>
  BY DEF Unregisters
<1>2. \A r \in gone : r \in Registered /\ dvRows[r] # NULL /\ dvRows[r].device = d /\ dvRows[r].user = u
  <2> TAKE r \in gone
  <2>1. r \in Registered /\ dvRows[r] = [user |-> u, device |-> d]
    BY DEF RowsWhere
  <2>2. dvRows[r] \in PushRow
    BY <2>1 DEF PushRow
  <2> QED BY <2>1, <2>2, DeviceAssumption
<1> HIDE DEF gone
<1>3. \A r \in Registered : dvRows'[r] = IF r \in gone THEN NULL ELSE dvRows[r]
  BY <1>1 DEF Without
<1>4. DeviceTypeOK'
  <2>1. dvRows' \in [Registered -> PushRow \cup {NULL}]
    BY <1>1, <1>t DEF Without, DeviceTypeOK
  <2>2. dvHolder' \in [AllDevices -> People \cup {NULL}]
    BY <1>1, <1>t DEF DeviceTypeOK
  <2> QED BY <1>1, <1>t, <2>1, <2>2 DEF DeviceTypeOK
<1>5. HandsAreRight'
  BY <1>1, <1>3, <1>t DEF HandsAreRight
<1>6. \A x : Its(x)' = Its(x) \ gone
  BY <1>3 DEF Its
<1>7. UnmixedAreRight'
  <2> SUFFICES ASSUME NEW e \in AllDevices \ dvMixed'
               PROVE  /\ OneHolder(e)'
                      /\ \A b \in Registrars : dvCall[b] # NULL /\ dvCall[b].device = e => CallIsRight(b)'
    BY <1>1 DEF UnmixedAreRight
  <2>1. e \notin dvMixed /\ (e = d => Registering(d) = {})
    BY <1>1
  <2>2. /\ OneHolder(e)
        /\ \A b \in Registrars : dvCall[b] # NULL /\ dvCall[b].device = e => CallIsRight(b)
    BY <1>t, <2>1 DEF UnmixedAreRight
  <2>3. CASE e = d
    <3>1. PICK r \in gone : TRUE
      BY <1>1
    <3>2. r \in Its(d) /\ dvHolder[d] = u
      BY <1>2, <2>2, <2>3 DEF OneHolder, Its
    <3>3. Its(d)' = {}
      BY <1>6, <2>2, <2>3, <3>2 DEF OneHolder
    <3>4. dvHolder'[d] = NULL
      BY <1>1, <1>t, <3>2 DEF DeviceTypeOK
    <3>5. \A b \in Registrars : ~(dvCall[b] # NULL /\ dvCall[b].device = d)
      BY <2>1, <2>3 DEF Registering
    <3> QED BY <2>3, <3>3, <3>4, <3>5 DEF OneHolder
  <2>4. CASE e # d
    <3>1. Its(e)' = Its(e) /\ \A r \in Its(e) : dvRows'[r] = dvRows[r]
      BY <1>2, <1>3, <1>6, <2>4 DEF Its
    <3>2. dvHolder'[e] = dvHolder[e]
      BY <1>1, <1>t, <2>4 DEF DeviceTypeOK
    <3>3. OneHolder(e)'
      BY <1>1, <2>2, <3>1, <3>2 DEF OneHolder
    <3>4. ASSUME NEW b \in Registrars, dvCall[b] # NULL, dvCall[b].device = e PROVE CallIsRight(b)'
      <4>1. CallIsRight(b)
        BY <2>2, <3>4
      <4>2. dvCall[b].row = NULL \/ dvCall[b].row \in Registered
        BY <1>t, <3>4 DEF DeviceTypeOK, PushCall
      <4>3. dvCall[b].row # NULL => dvRows'[dvCall[b].row] = dvRows[dvCall[b].row]
        <5> SUFFICES ASSUME dvCall[b].row # NULL, dvCall[b].row \in gone PROVE FALSE
          BY <1>3, <4>2
        <5>1. dvRows[dvCall[b].row] # NULL /\ dvRows[dvCall[b].row].device = d
          BY <1>2
        <5>2. dvRows[dvCall[b].row].device = e
          BY <1>t, <3>4, <4>2, <5>1 DEF HandsAreRight
        <5> QED BY <2>4, <5>1, <5>2
      <4> QED BY <1>1, <3>1, <3>4, <4>1, <4>3 DEF CallIsRight
    <3> QED BY <3>3, <3>4
  <2> QED BY <2>3, <2>4
<1> QED BY <1>4, <1>5, <1>7 DEF DeviceInv

\* A push that was refused takes the row away.
LEMMA PurgeStep ==
    ASSUME DeviceInv, NEW n \in Notices, NEW r \in Registered, Purge(n, r)
    PROVE  DeviceInv'
<1>t. DeviceTypeOK /\ HandsAreRight
  BY DEF DeviceInv
<1> DEFINE gone == Purged(n, r)
           new == [dvNotice[n] EXCEPT !.rows = @ \ {r}]
<1>1. /\ dvNotice[n] # NULL /\ dvNotice[n].pushed /\ r \in dvNotice[n].rows
      /\ dvRows' = Without(gone)
      /\ dvNotice' = [dvNotice EXCEPT ![n].rows = @ \ {r}]
      /\ UNCHANGED <<dvCall, dvDead, dvHolder, dvMixed>>
  BY DEF Purge
<1>2. dvNotice[n] \in PushNotice
  BY <1>1, <1>t DEF DeviceTypeOK
<1>3. new \in PushNotice /\ new.rows = dvNotice[n].rows \ {r} /\ new # NULL
  BY <1>2, DeviceAssumption DEF PushNotice
<1>4. dvNotice' = [dvNotice EXCEPT ![n] = new]
  BY <1>1, <1>t DEF DeviceTypeOK
<1> HIDE DEF new
<1>5. dvNotice'[n] = new /\ \A m \in Notices \ {n} : dvNotice'[m] = dvNotice[m]
  BY <1>4, <1>t DEF DeviceTypeOK
<1>6. gone \in SUBSET Registered /\ \A q \in gone : dvRows[q] # NULL => dvRows[q].device \in dvDead
  <2>1. dvRows[r] # NULL => dvRows[r].device \in dvDead
    BY <1>1, <1>t DEF HandsAreRight
  <2>2. \A q \in RowsWhere(dvNotice[n].user, dvRows[r].device) :
          q \in Registered /\ dvRows[q].device = dvRows[r].device
    BY DEF RowsWhere
  <2> QED BY <2>1, <2>2 DEF Purged
<1> HIDE DEF gone
<1>7. \A q \in Registered : dvRows'[q] = NULL \/ dvRows'[q] = dvRows[q]
  BY <1>1 DEF Without
<1>8. DeviceTypeOK'
  <2>1. dvRows' \in [Registered -> PushRow \cup {NULL}]
    BY <1>1, <1>t DEF Without, DeviceTypeOK
  <2>2. dvNotice' \in [Notices -> PushNotice \cup {NULL}]
    BY <1>3, <1>4, <1>t DEF DeviceTypeOK
  <2> QED BY <1>1, <1>t, <2>1, <2>2 DEF DeviceTypeOK
<1>9. HandsAreRight'
  <2>1. ASSUME NEW m \in Notices, NEW q \in Registered, dvNotice'[m] # NULL, dvNotice'[m].pushed,
               q \in dvNotice'[m].rows, dvRows'[q] # NULL
        PROVE  dvRows'[q].device \in dvDead
    <3>1. CASE m = n
      BY <1>1, <1>3, <1>5, <1>7, <1>t, <2>1, <3>1 DEF HandsAreRight
    <3>2. CASE m # n
      BY <1>5, <1>7, <1>t, <2>1, <3>2 DEF HandsAreRight
    <3> QED BY <3>1, <3>2
  <2> QED BY <1>1, <1>7, <1>t, <2>1 DEF HandsAreRight
<1>10. UnmixedAreRight'
  BY <1>1, <1>6, DeviceRowsGo
<1> QED BY <1>8, <1>9, <1>10 DEF DeviceInv

\* A notification is pushed to the devices it read.
LEMMA NoticePushStep ==
    ASSUME DeviceInv, NEW n \in Notices, NoticeIsPushed(n)
    PROVE  DeviceInv'
<1>t. DeviceTypeOK /\ HandsAreRight
  BY DEF DeviceInv
<1> DEFINE new == [dvNotice[n] EXCEPT !.pushed = TRUE, !.rows = Refused(@)]
<1>1. /\ dvNotice[n] # NULL
      /\ dvNotice' = [dvNotice EXCEPT ![n].pushed = TRUE, ![n].rows = Refused(@)]
      /\ UNCHANGED <<dvRows, dvCall, dvDead, dvHolder, dvMixed>>
  BY DEF NoticeIsPushed
<1>2. dvNotice[n] \in PushNotice
  BY <1>1, <1>t DEF DeviceTypeOK
<1>3. /\ Refused(dvNotice[n].rows) \subseteq Registered
      /\ \A r \in Refused(dvNotice[n].rows) : dvRows[r] # NULL => dvRows[r].device \in dvDead
  BY <1>2 DEF Refused, PushNotice
<1>4. new \in PushNotice /\ new.rows = Refused(dvNotice[n].rows)
  BY <1>2, <1>3 DEF PushNotice
<1>5. dvNotice' = [dvNotice EXCEPT ![n] = new]
  BY <1>1, <1>t DEF DeviceTypeOK
<1> HIDE DEF new
<1>6. dvNotice'[n] = new /\ \A m \in Notices \ {n} : dvNotice'[m] = dvNotice[m]
  BY <1>5, <1>t DEF DeviceTypeOK
<1>7. DeviceTypeOK'
  BY <1>1, <1>4, <1>5, <1>t DEF DeviceTypeOK
<1>8. HandsAreRight'
  <2>1. ASSUME NEW m \in Notices, NEW q \in Registered, dvNotice'[m] # NULL, dvNotice'[m].pushed,
               q \in dvNotice'[m].rows, dvRows[q] # NULL
        PROVE  dvRows[q].device \in dvDead
    <3>1. CASE m = n
      BY <1>3, <1>4, <1>6, <2>1, <3>1
    <3>2. CASE m # n
      BY <1>6, <1>t, <2>1, <3>2 DEF HandsAreRight
    <3> QED BY <3>1, <3>2
  <2> QED BY <1>1, <1>t, <2>1 DEF HandsAreRight
<1>9. UnmixedAreRight'
  BY <1>1, DeviceRowsStay
<1> QED BY <1>7, <1>8, <1>9 DEF DeviceInv

\* A notification reads the devices of its user.
LEMMA NoticeReadStep ==
    ASSUME DeviceInv, NEW n \in Notices, NEW u \in People, NoticeReads(n, u)
    PROVE  DeviceInv'
<1>t. DeviceTypeOK /\ HandsAreRight
  BY DEF DeviceInv
<1> DEFINE his == UNION {RowsWhere(u, d) : d \in AllDevices}
           new == [user |-> u, pushed |-> FALSE, rows |-> his]
<1>1. /\ dvNotice' = [dvNotice EXCEPT ![n] = new]
      /\ UNCHANGED <<dvRows, dvCall, dvDead, dvHolder, dvMixed>>
  BY DEF NoticeReads
<1>2. his \subseteq Registered
  BY DEF RowsWhere
<1>3. new \in PushNotice /\ ~new.pushed
  BY <1>2 DEF PushNotice
<1> HIDE DEF new
<1>4. dvNotice'[n] = new /\ \A m \in Notices \ {n} : dvNotice'[m] = dvNotice[m]
  BY <1>1, <1>t DEF DeviceTypeOK
<1>5. DeviceTypeOK'
  BY <1>1, <1>3, <1>t DEF DeviceTypeOK
<1>6. HandsAreRight'
  BY <1>1, <1>3, <1>4, <1>t DEF HandsAreRight
<1>7. UnmixedAreRight'
  BY <1>1, DeviceRowsStay
<1> QED BY <1>5, <1>6, <1>7 DEF DeviceInv

\* A notification has been sent.
LEMMA NoticeEndStep ==
    ASSUME DeviceInv, NEW n \in Notices, NoticeEnds(n)
    PROVE  DeviceInv'
<1>t. DeviceTypeOK /\ HandsAreRight
  BY DEF DeviceInv
<1>1. /\ dvNotice' = [dvNotice EXCEPT ![n] = NULL]
      /\ UNCHANGED <<dvRows, dvCall, dvDead, dvHolder, dvMixed>>
  BY DEF NoticeEnds
<1>2. \A m \in Notices : dvNotice'[m] = NULL \/ dvNotice'[m] = dvNotice[m]
  BY <1>1, <1>t DEF DeviceTypeOK
<1>3. DeviceTypeOK'
  BY <1>1, <1>t DEF DeviceTypeOK
<1>4. HandsAreRight'
  BY <1>1, <1>2, <1>t DEF HandsAreRight
<1>5. UnmixedAreRight'
  BY <1>1, DeviceRowsStay
<1> QED BY <1>3, <1>4, <1>5 DEF DeviceInv

\* A device is refused from now on.
LEMMA DeviceDiesStep ==
    ASSUME DeviceInv, NEW d \in AllDevices, Dies(d)
    PROVE  DeviceInv'
<1>t. DeviceTypeOK /\ HandsAreRight
  BY DEF DeviceInv
<1>1. /\ dvDead' = dvDead \cup {d}
      /\ UNCHANGED <<dvRows, dvCall, dvNotice, dvHolder, dvMixed>>
  BY DEF Dies
<1>2. DeviceTypeOK'
  BY <1>1, <1>t DEF DeviceTypeOK
<1>3. HandsAreRight'
  BY <1>1, <1>t DEF HandsAreRight
<1>4. UnmixedAreRight'
  BY <1>1, DeviceRowsStay
<1> QED BY <1>2, <1>3, <1>4 DEF DeviceInv

\* Every step of DeviceNext keeps DeviceInv.
LEMMA DeviceStep == DeviceInv /\ [DeviceNext]_deviceVars => DeviceInv'
<1> SUFFICES ASSUME DeviceInv, [DeviceNext]_deviceVars PROVE DeviceInv'
  OBVIOUS
<1>1. CASE DeviceNext
  BY <1>1, RegistrationReadStep, RegistrationSaveStep, UnregisterStep, PurgeStep, NoticePushStep,
     NoticeReadStep, NoticeEndStep, DeviceDiesStep DEF DeviceNext
<1>2. CASE UNCHANGED deviceVars
  BY <1>2 DEF deviceVars, DeviceInv, DeviceTypeOK, HandsAreRight, UnmixedAreRight, OneHolder,
     CallIsRight, Its
<1> QED BY <1>1, <1>2

-----------------------------------------------------------------------------
(* Preferences.                                                            *)

\* There is one row, but for requests that overlapped: the one that makes it is
\* then alone, and whoever has a row has that one.
OneRow ==
    /\ \A s \in Settings : pfCall[s] # NULL /\ pfCall[s].row # NULL =>
         pfCall[s].row \in MyRows /\ pfCall[s].read # NULL
    /\ pfMixed = Flags \/ /\ \A q \in MyRows : \A r \in MyRows : q = r
                          /\ \A s \in AtWork : pfCall[s].row = NULL =>
                               MyRows = {} /\ \A t \in AtWork : t = s

\* What requests of a flag have read is what the row has, and no two are about it.
FlagIsKnown(f) ==
    /\ \A s \in AtWork : pfCall[s].patch.flag = f =>
         /\ \A t \in AtWork : pfCall[t].patch.flag = f => t = s
         /\ pfCall[s].row # NULL => pfCall[s].read[f] = pfRows[pfCall[s].row][f]
    /\ \A r \in MyRows : pfRows[r][f] = IF pfAsked[f] # NULL THEN pfAsked[f] ELSE f = "push"
    /\ MyRows = {} => pfAsked[f] = NULL
FlagsAreKnown == \A f \in Flags \ pfMixed : FlagIsKnown(f)

LookedAtRows == pfLooked <=> MyRows # {}

PreferenceInv == PreferenceTypeOK /\ OneRow /\ FlagsAreKnown /\ LookedAtRows

\* NULL is no preference, no row and no call.
LEMMA NotSettings ==
    /\ NULL \notin Flags /\ NULL \notin BOOLEAN /\ NULL \notin SettingRows
    /\ NULL \notin PrefRow /\ NULL \notin PrefCall
    /\ SettingRows \subseteq Int
BY PreferenceAssumption DEF SettingRows

\* What is sent is what was asked for last.
LEMMA PreferenceSafe == PreferenceInv => SentAsAsked
<1> SUFFICES ASSUME PreferenceInv, NEW f \in Flags \ pfMixed
             PROVE  Reached(f) = IF pfAsked[f] # NULL THEN pfAsked[f] ELSE f = "push" \/ ~pfLooked
  BY DEF SentAsAsked
<1>1. /\ \A q \in MyRows : \A r \in MyRows : q = r
      /\ \A r \in MyRows : pfRows[r][f] = IF pfAsked[f] # NULL THEN pfAsked[f] ELSE f = "push"
      /\ MyRows = {} => pfAsked[f] = NULL
      /\ pfLooked <=> MyRows # {}
  BY DEF PreferenceInv, OneRow, FlagsAreKnown, FlagIsKnown, LookedAtRows
<1>2. PreferenceTypeOK
  BY DEF PreferenceInv
<1>3. TheRow = MyRows
  <2>1. \A r \in MyRows : r \in Int
    BY NotSettings DEF MyRows
  <2> QED BY <1>1, <2>1 DEF TheRow, FirstOf
<1>4. CASE MyRows = {}
  <2>1. Reached(f) = TRUE
    BY <1>3, <1>4 DEF Reached
  <2> QED BY <1>1, <1>4, <2>1
<1>5. ASSUME NEW r \in MyRows PROVE Reached(f) = pfRows[r][f]
  <2>1. MyRows = {r}
    BY <1>1
  <2>2. pfRows[r][f] \in BOOLEAN
    BY <1>2 DEF PreferenceTypeOK, MyRows, PrefRow
  <2> QED BY <1>3, <2>1, <2>2 DEF Reached
<1>6. CASE MyRows # {}
  <2>1. PICK r \in MyRows : TRUE
    BY <1>6
  <2>2. Reached(f) = IF pfAsked[f] # NULL THEN pfAsked[f] ELSE f = "push"
    BY <1>1, <1>5, <2>1
  <2> QED BY <1>1, <1>6, <2>2
<1> QED BY <1>4, <1>6

\* The initial states satisfy PreferenceInv.
LEMMA PreferenceInitial == PreferenceInit => PreferenceInv
<1> SUFFICES ASSUME PreferenceInit PROVE PreferenceInv
  OBVIOUS
<1>1. MyRows = {} /\ AtWork = {}
  BY DEF PreferenceInit, MyRows, AtWork
<1>2. PreferenceTypeOK
  BY DEF PreferenceInit, PreferenceTypeOK
<1>3. OneRow /\ FlagsAreKnown /\ LookedAtRows
  BY <1>1 DEF PreferenceInit, OneRow, FlagsAreKnown, FlagIsKnown, LookedAtRows
<1> QED BY <1>2, <1>3 DEF PreferenceInv

\* A call looks for the row of its user.
LEMMA PreferenceFindStep ==
    ASSUME PreferenceInv, NEW s \in Settings, NEW p \in Patch, PreferencesFound(s, p)
    PROVE  PreferenceInv'
<1>t. PreferenceTypeOK /\ OneRow /\ FlagsAreKnown /\ LookedAtRows
  BY DEF PreferenceInv
<1>1. pfCall[s] = NULL /\ UNCHANGED <<pfRows, pfAsked, pfLooked>> /\ MyRows' = MyRows
  BY DEF PreferencesFound, MyRows
<1>2. PICK r \in IF MyRows = {} THEN {NULL} ELSE TheRow :
        pfCall' = [pfCall EXCEPT ![s] = [patch |-> p, row |-> r,
                       read |-> IF r = NULL THEN NULL ELSE pfRows[r]]]
  BY DEF PreferencesFound
<1>3. pfMixed' = IF \E t \in AtWork : pfCall[t].row = NULL THEN Flags
                 ELSE pfMixed \cup ({pfCall[t].patch.flag : t \in AtWork} \cap {p.flag} \cap Flags)
  BY DEF PreferencesFound
<1>4. MyRows \subseteq SettingRows /\ NULL \notin MyRows /\ TheRow \subseteq MyRows
  BY NotSettings DEF MyRows, TheRow, FirstOf
<1>5. IF r = NULL THEN MyRows = {} ELSE r \in MyRows
  BY <1>2, <1>4
<1> DEFINE new == [patch |-> p, row |-> r, read |-> IF r = NULL THEN NULL ELSE pfRows[r]]
<1>6. new \in PrefCall
  BY <1>4, <1>5, <1>t DEF PrefCall, PreferenceTypeOK
<1>7. /\ new.patch = p /\ new.row = r /\ new # NULL
      /\ r # NULL => new.read = pfRows[r] /\ new.read # NULL
  BY <1>5, <1>6, NotSettings DEF MyRows
<1>8. pfCall' = [pfCall EXCEPT ![s] = new]
  BY <1>2
<1> HIDE DEF new
<1>9. pfCall'[s] = new /\ \A t \in Settings \ {s} : pfCall'[t] = pfCall[t]
  BY <1>8, <1>t DEF PreferenceTypeOK
<1>10. AtWork' = AtWork \cup {s} /\ s \notin AtWork
  BY <1>1, <1>7, <1>9 DEF AtWork
<1>11. PreferenceTypeOK'
  BY <1>1, <1>3, <1>6, <1>8, <1>t DEF PreferenceTypeOK
<1>12. OneRow'
  <2>1. \A t \in Settings : pfCall'[t] # NULL /\ pfCall'[t].row # NULL =>
          pfCall'[t].row \in MyRows' /\ pfCall'[t].read # NULL
    BY <1>1, <1>5, <1>7, <1>9, <1>t DEF OneRow
  <2>2. CASE \E t \in AtWork : pfCall[t].row = NULL
    BY <1>3, <2>1, <2>2 DEF OneRow
  <2>3. CASE ~\E t \in AtWork : pfCall[t].row = NULL
    <3>1. pfMixed \subseteq pfMixed' /\ pfMixed' \subseteq Flags
      BY <1>3, <1>t, <2>3 DEF PreferenceTypeOK
    <3>2. CASE pfMixed = Flags
      BY <2>1, <3>1, <3>2 DEF OneRow
    <3>3. CASE pfMixed # Flags
      <4>1. \A q \in MyRows : \A u \in MyRows : q = u
        BY <1>t, <3>3 DEF OneRow
      <4>2. AtWork # {} => MyRows # {}
        BY <1>t, <2>3 DEF OneRow, AtWork
      <4>3. \A t \in AtWork' : pfCall'[t].row = NULL => MyRows = {} /\ \A u \in AtWork' : u = t
        BY <1>5, <1>7, <1>9, <1>10, <2>3, <4>2 DEF AtWork
      <4> QED BY <1>1, <2>1, <4>1, <4>3 DEF OneRow
    <3> QED BY <3>2, <3>3
  <2> QED BY <2>2, <2>3
<1>13. FlagsAreKnown'
  <2> SUFFICES ASSUME NEW f \in Flags \ pfMixed' PROVE FlagIsKnown(f)'
    BY DEF FlagsAreKnown
  <2>1. f \notin pfMixed /\ ~\E t \in AtWork : pfCall[t].row = NULL
    BY <1>3
  <2>2. FlagIsKnown(f)
    BY <1>t, <2>1 DEF FlagsAreKnown
  <2>3. p.flag = f => \A t \in AtWork : pfCall[t].patch.flag # f
    BY <1>3, <2>1
  <2>4. ASSUME NEW t \in AtWork', pfCall'[t].patch.flag = f
        PROVE  /\ \A u \in AtWork' : pfCall'[u].patch.flag = f => u = t
               /\ pfCall'[t].row # NULL => pfCall'[t].read[f] = pfRows[pfCall'[t].row][f]
    <3>1. AtWork \subseteq Settings
      BY DEF AtWork
    <3>2. CASE t = s
      BY <1>7, <1>9, <1>10, <2>3, <2>4, <3>1, <3>2
    <3>3. CASE t # s
      <4>1. t \in AtWork /\ pfCall'[t] = pfCall[t]
        BY <1>9, <1>10, <3>1, <3>3
      <4>2. pfCall[t].patch.flag = f
        BY <2>4, <4>1
      <4>3. p.flag # f
        BY <2>3, <4>1, <4>2
      <4> QED BY <1>7, <1>9, <1>10, <2>2, <3>1, <4>1, <4>2, <4>3 DEF FlagIsKnown
    <3> QED BY <3>2, <3>3
  <2> QED BY <1>1, <2>2, <2>4 DEF FlagIsKnown
<1> QED BY <1>1, <1>11, <1>12, <1>13, <1>t DEF PreferenceInv, LookedAtRows

\* A call makes the row of its user.
LEMMA PreferenceCreateStep ==
    ASSUME PreferenceInv, NEW s \in Settings, PreferencesCreated(s)
    PROVE  PreferenceInv'
<1>t. PreferenceTypeOK /\ OneRow /\ FlagsAreKnown /\ LookedAtRows
  BY DEF PreferenceInv
<1>1. /\ s \in AtWork /\ pfCall[s] # NULL /\ pfCall[s].row = NULL
      /\ pfLooked' = TRUE /\ UNCHANGED <<pfAsked, pfMixed>>
  BY DEF PreferencesCreated, AtWork
<1>2. PICK r \in SettingRows \ MyRows :
        /\ pfRows' = [pfRows EXCEPT ![r] = NewPreferences]
        /\ pfCall' = [pfCall EXCEPT ![s].row = r, ![s].read = NewPreferences]
  BY DEF PreferencesCreated
<1>3. NewPreferences \in PrefRow /\ NewPreferences # NULL /\ r # NULL
  BY NotSettings DEF NewPreferences, PrefRow
<1> DEFINE new == [pfCall[s] EXCEPT !.row = r, !.read = NewPreferences]
<1>4. pfCall[s] \in PrefCall
  BY <1>1, <1>t DEF PreferenceTypeOK
<1>5. /\ new \in PrefCall /\ new.patch = pfCall[s].patch /\ new.row = r
      /\ new.read = NewPreferences
  BY <1>3, <1>4 DEF PrefCall
<1>6. new # NULL /\ pfCall' = [pfCall EXCEPT ![s] = new]
  <2>1. pfCall' = [pfCall EXCEPT ![s] = new]
    BY <1>2, <1>t DEF PreferenceTypeOK
  <2> QED BY <1>5, <2>1, NotSettings
<1> HIDE DEF new
<1>7. pfCall'[s] = new /\ \A t \in Settings \ {s} : pfCall'[t] = pfCall[t]
  BY <1>6, <1>t DEF PreferenceTypeOK
<1>8. pfRows'[r] = NewPreferences /\ \A q \in SettingRows \ {r} : pfRows'[q] = pfRows[q]
  BY <1>2, <1>t DEF PreferenceTypeOK
<1>9. AtWork' = AtWork
  BY <1>1, <1>6, <1>7 DEF AtWork
<1>10. MyRows' = MyRows \cup {r} /\ MyRows \subseteq SettingRows
  BY <1>2, <1>3, <1>8 DEF MyRows
<1>11. PreferenceTypeOK'
  <2>1. pfRows' \in [SettingRows -> PrefRow \cup {NULL}]
    BY <1>2, <1>3, <1>t DEF PreferenceTypeOK
  <2>2. pfCall' \in [Settings -> PrefCall \cup {NULL}]
    BY <1>5, <1>6, <1>t DEF PreferenceTypeOK
  <2> QED BY <1>1, <1>t, <2>1, <2>2 DEF PreferenceTypeOK
<1>12. ASSUME pfMixed # Flags
       PROVE  /\ MyRows = {} /\ \A t \in AtWork : t = s
  BY <1>1, <1>12, <1>t DEF OneRow
<1>13. OneRow'
  <2>1. \A t \in Settings : pfCall'[t] # NULL /\ pfCall'[t].row # NULL =>
          pfCall'[t].row \in MyRows' /\ pfCall'[t].read # NULL
    BY <1>3, <1>5, <1>7, <1>10, <1>t DEF OneRow
  <2>2. CASE pfMixed = Flags
    BY <1>1, <2>1, <2>2 DEF OneRow
  <2>3. CASE pfMixed # Flags
    <3>1. \A q \in MyRows' : \A u \in MyRows' : q = u
      BY <1>10, <1>12, <2>3
    <3>2. \A t \in AtWork' : pfCall'[t].row # NULL
      BY <1>3, <1>5, <1>7, <1>9, <1>12, <2>3
    <3> QED BY <2>1, <3>1, <3>2 DEF OneRow
  <2> QED BY <2>2, <2>3
<1>14. FlagsAreKnown'
  <2> SUFFICES ASSUME NEW f \in Flags \ pfMixed' PROVE FlagIsKnown(f)'
    BY DEF FlagsAreKnown
  <2>1. f \notin pfMixed /\ pfMixed # Flags
    BY <1>1
  <2>2. FlagIsKnown(f)
    BY <1>t, <2>1 DEF FlagsAreKnown
  <2>3. MyRows' = {r} /\ \A t \in AtWork' : t = s
    BY <1>9, <1>10, <1>12, <2>1
  <2>4. pfAsked'[f] = NULL /\ pfRows'[r][f] = (f = "push")
    BY <1>1, <1>8, <1>12, <2>1, <2>2 DEF FlagIsKnown, NewPreferences
  <2>5. pfCall'[s].read[f] = pfRows'[pfCall'[s].row][f]
    BY <1>5, <1>7, <1>8
  <2> QED BY <2>3, <2>4, <2>5 DEF FlagIsKnown
<1>15. LookedAtRows'
  BY <1>1, <1>10 DEF LookedAtRows
<1> QED BY <1>11, <1>13, <1>14, <1>15 DEF PreferenceInv

\* A call saves the flags it was asked for.
LEMMA PreferenceSaveStep ==
    ASSUME PreferenceInv, NEW s \in Settings, PreferencesSaved(s)
    PROVE  PreferenceInv'
<1>t. PreferenceTypeOK /\ OneRow /\ FlagsAreKnown /\ LookedAtRows
  BY DEF PreferenceInv
<1> DEFINE it == pfCall[s]
           g == it.patch.flag
           q == it.row
<1>1. /\ s \in AtWork /\ it # NULL /\ q # NULL
      /\ pfRows' = IF g = NULL \/ it.read[g] = it.patch.to THEN pfRows
                   ELSE [pfRows EXCEPT ![q] = [@ EXCEPT ![g] = it.patch.to]]
      /\ pfAsked' = IF g = NULL THEN pfAsked ELSE [pfAsked EXCEPT ![g] = it.patch.to]
      /\ pfCall' = [pfCall EXCEPT ![s] = NULL]
      /\ UNCHANGED <<pfLooked, pfMixed>>
  BY DEF PreferencesSaved, Patched, AtWork
<1>2. it \in PrefCall /\ q \in MyRows /\ it.read # NULL
  BY <1>1, <1>t DEF PreferenceTypeOK, OneRow
<1>3. g = NULL \/ (g \in Flags /\ it.patch.to \in BOOLEAN)
  BY <1>2 DEF PrefCall, Patch
<1>4. q \in SettingRows /\ pfRows[q] \in PrefRow /\ pfRows[q] # NULL
  BY <1>2, <1>t DEF MyRows, PreferenceTypeOK
<1>5. pfCall'[s] = NULL /\ \A t \in Settings \ {s} : pfCall'[t] = pfCall[t]
  BY <1>1, <1>t DEF PreferenceTypeOK
<1>6. AtWork' = AtWork \ {s}
  BY <1>5 DEF AtWork
<1> DEFINE row == [pfRows[q] EXCEPT ![g] = it.patch.to]
<1>7. ASSUME g # NULL PROVE row \in PrefRow /\ row[g] = it.patch.to
                            /\ \A f \in Flags \ {g} : row[f] = pfRows[q][f]
  BY <1>3, <1>4, <1>7 DEF PrefRow
<1>8. pfRows' = pfRows \/ (g # NULL /\ pfRows' = [pfRows EXCEPT ![q] = row])
  BY <1>1, <1>4, <1>t DEF PreferenceTypeOK
<1>9. pfRows' \in [SettingRows -> PrefRow \cup {NULL}]
  <2> HIDE DEF row, g, q
  <2> QED BY <1>4, <1>7, <1>8, <1>t DEF PreferenceTypeOK
<1>10. MyRows' = MyRows
  <2> HIDE DEF row, g, q
  <2> QED BY <1>4, <1>7, <1>8, <1>t, NotSettings DEF PreferenceTypeOK, MyRows
<1>11. PreferenceTypeOK'
  <2>1. pfAsked' \in [Flags -> BOOLEAN \cup {NULL}]
    BY <1>1, <1>3, <1>t DEF PreferenceTypeOK
  <2>2. pfCall' \in [Settings -> PrefCall \cup {NULL}]
    BY <1>1, <1>t DEF PreferenceTypeOK
  <2> QED BY <1>1, <1>9, <1>t, <2>1, <2>2 DEF PreferenceTypeOK
<1>12. OneRow'
  BY <1>1, <1>5, <1>6, <1>10, <1>t DEF OneRow
<1>13. FlagsAreKnown'
  <2> SUFFICES ASSUME NEW f \in Flags \ pfMixed' PROVE FlagIsKnown(f)'
    BY DEF FlagsAreKnown
  <2>1. f \notin pfMixed /\ FlagIsKnown(f) /\ pfMixed # Flags
    BY <1>1, <1>t DEF FlagsAreKnown
  <2>2. \A r \in MyRows : r = q
    BY <1>2, <1>t, <2>1 DEF OneRow
  <2>3. CASE g = f
    <3>1. g # NULL
      BY <2>3, NotSettings
    <3>2. pfAsked'[f] = it.patch.to /\ pfAsked'[f] # NULL
      BY <1>1, <1>3, <1>t, <2>3, <3>1, NotSettings DEF PreferenceTypeOK
    <3>3. it.read[g] = pfRows[q][g]
      BY <1>1, <2>1, <2>3 DEF FlagIsKnown
    <3>4. pfRows'[q][f] = it.patch.to
      <4>1. CASE it.read[g] = it.patch.to
        BY <1>1, <2>3, <3>3, <4>1
      <4>2. CASE it.read[g] # it.patch.to
        <5>1. pfRows'[q] = row
          BY <1>1, <1>4, <1>t, <3>1, <4>2 DEF PreferenceTypeOK
        <5> QED BY <1>7, <2>3, <3>1, <5>1
      <4> QED BY <4>1, <4>2
    <3>5. \A t \in AtWork' : pfCall'[t].patch.flag # f
      BY <1>1, <1>5, <1>6, <2>1, <2>3 DEF FlagIsKnown, AtWork
    <3> QED BY <1>2, <1>10, <2>2, <3>2, <3>4, <3>5 DEF FlagIsKnown
  <2>4. CASE g # f
    <3>1. pfAsked'[f] = pfAsked[f]
      BY <1>1, <1>t, <2>4 DEF PreferenceTypeOK
    <3>2. pfRows'[q][f] = pfRows[q][f]
      <4>1. g # NULL => row[f] = pfRows[q][f]
        BY <1>7, <2>4
      <4> HIDE DEF row, g, q
      <4> QED BY <1>4, <1>8, <1>t, <4>1 DEF PreferenceTypeOK
    <3>3. \A t \in AtWork' : t \in AtWork /\ pfCall'[t] = pfCall[t]
      BY <1>5, <1>6 DEF AtWork
    <3>4. \A t \in AtWork : pfCall[t].row # NULL => pfCall[t].row = q
      BY <1>t, <2>2 DEF OneRow, AtWork
    <3>5. \A r \in MyRows : pfRows'[r][f] = pfRows[r][f]
      BY <2>2, <3>2
    <3> HIDE DEF q, g
    <3>6. ASSUME NEW t \in AtWork', pfCall'[t].patch.flag = f
          PROVE  /\ \A u \in AtWork' : pfCall'[u].patch.flag = f => u = t
                 /\ pfCall'[t].row # NULL => pfCall'[t].read[f] = pfRows'[pfCall'[t].row][f]
      BY <2>1, <3>2, <3>3, <3>4, <3>6 DEF FlagIsKnown
    <3> QED BY <1>10, <2>1, <3>1, <3>5, <3>6 DEF FlagIsKnown
  <2> QED BY <2>3, <2>4
<1>14. LookedAtRows'
  BY <1>1, <1>10, <1>t DEF LookedAtRows
<1> QED BY <1>11, <1>12, <1>13, <1>14 DEF PreferenceInv

\* Every step of PreferenceNext keeps PreferenceInv.
LEMMA PreferenceStep == PreferenceInv /\ [PreferenceNext]_preferenceVars => PreferenceInv'
<1> SUFFICES ASSUME PreferenceInv, [PreferenceNext]_preferenceVars PROVE PreferenceInv'
  OBVIOUS
<1>1. CASE PreferenceNext
  BY <1>1, PreferenceFindStep, PreferenceCreateStep, PreferenceSaveStep DEF PreferenceNext
<1>2. CASE UNCHANGED preferenceVars
  BY <1>2 DEF preferenceVars, PreferenceInv, PreferenceTypeOK, OneRow, FlagsAreKnown, FlagIsKnown,
     LookedAtRows, MyRows, AtWork
<1> QED BY <1>1, <1>2

-----------------------------------------------------------------------------
(* Rows that are found or made.                                            *)

FoundInv ==
    /\ FoundTypeOK /\ RowsByRaceOnly
    /\ fdSought = NULL => fdRows = 0 /\ SawNone = {}

\* What is written with ON DUPLICATE KEY UPDATE has a unique key.
LEMMA UpsertedIsUnique == \A row \in Upserters : Unique(row)
<1>1. Unique(SetCurrency)
  BY DEF Unique, UniqueKeys, SetCurrency, EarlierIndexes, LaterIndexes, PrimaryKeys
<1>2. Unique(UpsertSetting)
  BY DEF Unique, UniqueKeys, UpsertSetting, EarlierIndexes, LaterIndexes, PrimaryKeys
<1>3. Unique(RefreshExchangeRates)
  BY DEF Unique, UniqueKeys, RefreshExchangeRates, EarlierIndexes, LaterIndexes, PrimaryKeys
<1> QED BY <1>1, <1>2, <1>3 DEF Upserters

\* The requests are finitely many, so are the rows they make.
LEMMA SettingsAreCounted ==
    /\ IsFiniteSet(SawNone) /\ IsFiniteSet(Telling)
    /\ Cardinality(SawNone) \in Nat /\ Cardinality(Telling) \in Nat
    /\ Cardinality(Settings) \in Nat /\ Cardinality(SawNone) <= Cardinality(Settings)
<1>1. SawNone \subseteq Settings /\ Telling \subseteq Settings
  BY DEF SawNone, Telling
<1> QED BY <1>1, InboxAssumption, FS_Subset, FS_CardinalityType

\* A request that goes on to a stage leaves the others where they are.
LEMMA SettingMoves ==
    ASSUME NEW s \in Settings, NEW stage \in {"idle", "absent", "made"},
           FoundTypeOK, Does(s, stage)
    PROVE  /\ fdCall' \in [Settings -> {"idle", "absent", "made"}]
           /\ SawNone' = IF stage = "absent" THEN SawNone \cup {s} ELSE SawNone \ {s}
           /\ Telling' = IF stage = "made" THEN Telling \cup {s} ELSE Telling \ {s}
<1>1. fdCall \in [Settings -> {"idle", "absent", "made"}]
  BY DEF FoundTypeOK
<1>2. /\ fdCall' \in [Settings -> {"idle", "absent", "made"}]
      /\ fdCall'[s] = stage /\ \A t \in Settings \ {s} : fdCall'[t] = fdCall[t]
  BY <1>1 DEF Does
<1>3. SawNone' = IF stage = "absent" THEN SawNone \cup {s} ELSE SawNone \ {s}
  BY <1>2 DEF SawNone
<1>4. Telling' = IF stage = "made" THEN Telling \cup {s} ELSE Telling \ {s}
  BY <1>2 DEF Telling
<1> QED BY <1>2, <1>3, <1>4

\* The initial states satisfy FoundInv.
LEMMA FoundInitial == FoundInit => FoundInv
<1> SUFFICES ASSUME FoundInit PROVE FoundInv
  OBVIOUS
<1>1. FoundTypeOK
  BY DEF FoundInit, FoundTypeOK
<1>2. SawNone = {} /\ Telling = {}
  BY DEF FoundInit, SawNone, Telling
<1>3. Cardinality(Telling) = 0
  BY <1>2, FS_EmptySet
<1>4. fdSought \notin Finders
  BY FoundAssumption DEF FoundInit, Seekable
<1>5. RowsByRaceOnly
  BY <1>3, <1>4 DEF FoundInit, RowsByRaceOnly
<1> QED BY <1>1, <1>2, <1>5 DEF FoundInit, FoundInv

\* Every step of FoundNext keeps FoundInv.
LEMMA FoundStep == FoundInv /\ [FoundNext]_foundVars => FoundInv'
<1> SUFFICES ASSUME FoundInv, [FoundNext]_foundVars PROVE FoundInv'
  OBVIOUS
<1>t. /\ FoundTypeOK /\ RowsByRaceOnly /\ fdRows \in Nat /\ fdMade \in Nat /\ fdTold \in Nat
      /\ fdCall \in [Settings -> {"idle", "absent", "made"}]
      /\ fdSought \in Seekable \cup {NULL}
  BY DEF FoundInv, FoundTypeOK
<1>n. fdSought = NULL => fdRows = 0 /\ SawNone = {}
  BY DEF FoundInv
<1>p. NULL \notin Finders \cup Upserters \cup Creators
  BY FoundAssumption DEF Seekable
<1>r. /\ fdSought # NULL => (Unique(fdSought) => fdRows <= 1)
      /\ fdSought \in Finders => fdRows + Cardinality(SawNone) <= Cardinality(Settings)
      /\ fdTold + Cardinality(Telling) <= fdMade
  BY <1>t DEF RowsByRaceOnly
<1>c. /\ IsFiniteSet(SawNone) /\ IsFiniteSet(Telling)
      /\ Cardinality(SawNone) \in Nat /\ Cardinality(Telling) \in Nat
      /\ Cardinality(Settings) \in Nat /\ Cardinality(SawNone) <= Cardinality(Settings)
  BY SettingsAreCounted
\* What is left to show of a step that follows the same row.
<1>k. ASSUME UNCHANGED fdSought, fdSought # NULL, FoundTypeOK',
             Unique(fdSought) => fdRows' <= 1,
             fdSought \in Finders => fdRows' + Cardinality(SawNone') <= Cardinality(Settings),
             fdTold' + Cardinality(Telling') <= fdMade'
      PROVE  FoundInv'
  <2>1. fdSought \in Upserters => Unique(fdSought)
    BY UpsertedIsUnique
  <2>2. Unique(fdSought)' <=> Unique(fdSought)
    BY <1>k DEF Unique
  <2>3. RowsByRaceOnly'
    BY <1>k, <2>1, <2>2 DEF RowsByRaceOnly
  <2> QED BY <1>k, <2>3 DEF FoundInv
<1>1. ASSUME NEW row \in Seekable, Seek(row) PROVE FoundInv'
  <2>1. fdRows' = 0 /\ fdSought' = row /\ fdSought' # NULL
    BY <1>1, <1>n, FoundAssumption DEF Seek
  <2>2. SawNone' = SawNone /\ Telling' = Telling
    BY <1>1 DEF Seek, SawNone, Telling
  <2>3. RowsByRaceOnly'
    BY <1>1, <1>c, <1>r, <2>1, <2>2 DEF RowsByRaceOnly, Seek
  <2>4. FoundTypeOK'
    BY <1>1, <1>t DEF Seek, FoundTypeOK
  <2> QED BY <2>1, <2>3, <2>4 DEF FoundInv
<1>2. ASSUME NEW s \in Settings, FindsNone(s) PROVE FoundInv'
  <2>1. /\ SawNone' = SawNone \cup {s} /\ Telling' = Telling \ {s} /\ s \notin Telling
        /\ fdCall' \in [Settings -> {"idle", "absent", "made"}]
    BY <1>2, <1>t, SettingMoves DEF FindsNone, Telling
  <2>2. Telling' = Telling /\ SawNone' \subseteq Settings
    BY <2>1 DEF SawNone
  <2>3. Cardinality(SawNone') <= Cardinality(Settings) /\ Cardinality(SawNone') \in Nat
    BY <2>2, InboxAssumption, FS_Subset, FS_CardinalityType
  <2>4. FoundTypeOK'
    BY <1>2, <1>t, <2>1 DEF FindsNone, FoundTypeOK
  <2>5. fdSought # NULL /\ UNCHANGED <<fdSought, fdRows, fdTold, fdMade>>
    BY <1>2, <1>p DEF FindsNone
  <2>6. fdSought \in Finders => fdRows = 0
    BY <1>2 DEF FindsNone, Finders, Creators, FollowArtist, SetUiPreferences,
       UpdateArtistProfile, UpdateManagerProfile, GetMyManagerProfile, BanFromStream,
       BanFromCompetition, IssueWarning
  <2> QED BY <1>k, <1>r, <2>2, <2>3, <2>4, <2>5, <2>6
<1>3. ASSUME NEW s \in Settings, MakesRow(s) PROVE FoundInv'
  <2>1. PICK stage \in {"idle", "made"} : Does(s, stage)
    BY <1>3 DEF MakesRow
  <2>2. /\ SawNone' = SawNone \ {s} /\ s \in SawNone /\ s \notin Telling
        /\ Telling' = IF stage = "made" THEN Telling \cup {s} ELSE Telling \ {s}
        /\ fdCall' \in [Settings -> {"idle", "absent", "made"}]
    BY <1>3, <1>t, <2>1, SettingMoves DEF MakesRow, SawNone, Telling
  <2>3. Cardinality(SawNone') = Cardinality(SawNone) - 1
    BY <1>c, <2>2, FS_RemoveElement
  <2>4. fdSought # NULL /\ UNCHANGED <<fdSought, fdTold>>
    BY <1>3, <1>n, <2>2 DEF MakesRow
  <2>5. CASE Unique(fdSought) /\ fdRows > 0
    <3>1. UNCHANGED <<fdRows, fdMade>> /\ fdCall' = [fdCall EXCEPT ![s] = "idle"]
      BY <1>3, <2>5 DEF MakesRow, Does
    <3>2. stage = "idle"
      BY <1>t, <2>1, <3>1 DEF Does
    <3>3. Telling' = Telling
      BY <2>2, <3>2
    <3>4. FoundTypeOK'
      BY <1>t, <2>2, <2>4, <3>1 DEF FoundTypeOK
    <3> QED BY <1>k, <1>c, <1>r, <1>t, <2>3, <2>4, <3>1, <3>3, <3>4
  <2>6. CASE ~(Unique(fdSought) /\ fdRows > 0)
    <3>1. fdRows' = fdRows + 1 /\ fdMade' = fdMade + 1
      BY <1>3, <2>6 DEF MakesRow
    <3>2. Cardinality(Telling') <= Cardinality(Telling) + 1 /\ Cardinality(Telling') \in Nat
      <4>1. Telling' = Telling \cup {s} \/ Telling' = Telling
        BY <2>2
      <4>2. Cardinality(Telling \cup {s}) = Cardinality(Telling) + 1
        BY <1>c, <2>2, FS_AddElement
      <4>3. CASE Telling' = Telling \cup {s}
        <5>1. Cardinality(Telling') = Cardinality(Telling \cup {s})
          BY <4>3
        <5> QED BY <1>c, <4>2, <5>1
      <4>4. CASE Telling' = Telling
        <5>1. Cardinality(Telling') = Cardinality(Telling)
          BY <4>4
        <5> QED BY <1>c, <5>1
      <4> QED BY <4>1, <4>3, <4>4
    <3>3. FoundTypeOK'
      BY <1>t, <2>2, <2>4, <3>1 DEF FoundTypeOK
    <3> QED BY <1>k, <1>c, <1>r, <1>t, <2>3, <2>4, <2>6, <3>1, <3>2, <3>3
  <2> QED BY <2>5, <2>6
<1>4. ASSUME NEW s \in Settings, TellsOfRow(s) PROVE FoundInv'
  <2>1. /\ SawNone' = SawNone \ {s} /\ s \notin SawNone /\ s \in Telling
        /\ Telling' = Telling \ {s}
        /\ fdCall' \in [Settings -> {"idle", "absent", "made"}]
    BY <1>4, <1>t, SettingMoves DEF TellsOfRow, SawNone, Telling
  <2>2. Cardinality(Telling') = Cardinality(Telling) - 1 /\ SawNone' = SawNone
    <3>1. Cardinality(Telling \ {s}) = Cardinality(Telling) - 1
      BY <1>c, <2>1, FS_RemoveElement
    <3>2. SawNone \ {s} = SawNone
      BY <2>1
    <3> QED BY <2>1, <3>1, <3>2
  <2>3. FoundTypeOK'
    BY <1>4, <1>t, <2>1 DEF TellsOfRow, FoundTypeOK
  <2>4. CASE fdSought # NULL
    BY <1>4, <1>k, <1>c, <1>r, <1>t, <2>2, <2>3, <2>4 DEF TellsOfRow
  <2>5. CASE fdSought = NULL
    <3>1. RowsByRaceOnly'
      BY <1>4, <1>c, <1>r, <1>t, <1>p, <2>2, <2>5 DEF TellsOfRow, RowsByRaceOnly
    <3> QED BY <1>4, <1>n, <2>2, <2>3, <3>1 DEF TellsOfRow, FoundInv
  <2> QED BY <2>4, <2>5
<1>5. ASSUME NEW s \in Settings, FoundBreaksOff(s) PROVE FoundInv'
  <2>1. /\ SawNone' = SawNone \ {s} /\ Telling' = Telling \ {s}
        /\ fdCall' \in [Settings -> {"idle", "absent", "made"}]
    BY <1>5, <1>t, SettingMoves DEF FoundBreaksOff
  <2>2. /\ Cardinality(Telling') <= Cardinality(Telling) /\ Cardinality(Telling') \in Nat
        /\ Cardinality(SawNone') <= Cardinality(SawNone) /\ Cardinality(SawNone') \in Nat
    <3>1. Telling' \subseteq Telling /\ SawNone' \subseteq SawNone
      BY <2>1
    <3> QED BY <1>c, <3>1, FS_Subset, FS_CardinalityType
  <2>3. FoundTypeOK'
    BY <1>5, <1>t, <2>1 DEF FoundBreaksOff, FoundTypeOK
  <2>4. UNCHANGED <<fdSought, fdRows, fdMade, fdTold>>
    BY <1>5 DEF FoundBreaksOff
  <2>5. CASE fdSought # NULL
    BY <1>k, <1>c, <1>r, <1>t, <2>2, <2>3, <2>4, <2>5
  <2>6. CASE fdSought = NULL
    <3>1. RowsByRaceOnly'
      BY <1>c, <1>r, <1>t, <1>p, <2>2, <2>4, <2>6 DEF RowsByRaceOnly
    <3> QED BY <1>n, <2>1, <2>3, <2>4, <2>6, <3>1 DEF FoundInv
  <2> QED BY <2>5, <2>6
<1>6. CASE UpsertsRow
  <2>1. fdSought # NULL /\ Unique(fdSought) /\ fdSought \in Upserters
        /\ UNCHANGED <<fdSought, fdCall, fdTold>>
    BY <1>6, <1>p, UpsertedIsUnique DEF UpsertsRow
  <2>2. /\ fdRows' = IF fdRows > 0 THEN fdRows ELSE fdRows + 1
        /\ fdMade' = IF fdRows > 0 THEN fdMade ELSE fdMade + 1
    BY <1>6, <1>t, <2>1 DEF UpsertsRow
  <2>3. FoundTypeOK'
    BY <1>t, <2>1, <2>2 DEF FoundTypeOK
  <2>4. SawNone' = SawNone /\ Telling' = Telling
    BY <2>1 DEF SawNone, Telling
  <2>5. fdSought \notin Finders
    BY <2>1 DEF Upserters, Finders, FollowArtist, SetUiPreferences, UpdateArtistProfile,
       UpdateManagerProfile, GetMyManagerProfile, SetCurrency, UpsertSetting,
       RefreshExchangeRates
  <2> QED BY <1>k, <1>c, <1>r, <1>t, <2>1, <2>2, <2>3, <2>4, <2>5
<1>7. CASE UnfollowArtist \/ LiftBan
  <2>1. fdRows' \in Nat /\ fdRows' <= fdRows /\ UNCHANGED <<fdSought, fdCall, fdMade, fdTold>>
    BY <1>7, <1>t DEF UnfollowArtist, LiftBan
  <2>2. fdSought # NULL
    BY <1>7, <1>t, <1>n DEF UnfollowArtist, LiftBan
  <2>3. FoundTypeOK'
    BY <1>t, <2>1 DEF FoundTypeOK
  <2>4. SawNone' = SawNone /\ Telling' = Telling
    BY <2>1 DEF SawNone, Telling
  <2> QED BY <1>k, <1>c, <1>r, <1>t, <2>1, <2>2, <2>3, <2>4
<1>8. CASE UNCHANGED foundVars
  <2>1. SawNone' = SawNone /\ Telling' = Telling
    BY <1>8 DEF SawNone, Telling, foundVars
  <2>2. FoundTypeOK' /\ RowsByRaceOnly'
    BY <1>8, <1>t, <2>1 DEF FoundTypeOK, RowsByRaceOnly, foundVars, Unique
  <2> QED BY <1>8, <1>n, <2>1, <2>2 DEF FoundInv, foundVars
<1> QED BY <1>1, <1>2, <1>3, <1>4, <1>5, <1>6, <1>7, <1>8 DEF FoundNext

\* No dedication is ever stored: its concert has a key on a table it never names.
NoDedications == \A r \in Rows : TableOf(r) # "concert_dedications"

\* A session names one that replaced it, of the same user; all but a new one are of the
\* first user.
SessionsOfOneUser ==
    \A r \in Rows : TableOf(r) = "refresh_tokens" =>
      /\ r = <<"refresh_tokens", 1>> \/ erColumns[r]["user_id"] = <<"users", 1>>
      /\ \/ erColumns[r]["replaced_by"] = NULL
         \/ /\ erColumns[r]["replaced_by"] \in Rows
            /\ TableOf(erColumns[r]["replaced_by"]) = "refresh_tokens"
            /\ erColumns[erColumns[r]["replaced_by"]]["user_id"] = erColumns[r]["user_id"]

\* A column is empty or names a row of a table it is for.
RowsFit ==
    \A r \in Rows : \A c \in ColumnsOf(TableOf(r)) :
      erColumns[r][c.column] = NULL \/ TableOf(erColumns[r][c.column]) \in c.names

\* What a column of the row that is asked for holds: a row of a table it names, which
\* is there as long as nothing erases rows of that table.
AskedFits(c, x) ==
    /\ x = NULL => ~c.required
    /\ x # NULL => /\ TableOf(x) \in c.names
                   /\ c.names = {"sponsor_ad_videos"} => x \in Rows

\* The session that is asked for names one of its user, or its user is gone.
AskedSession ==
    \/ erAsked.columns["replaced_by"] = NULL
    \/ /\ erAsked.columns["replaced_by"] \in Rows
       /\ TableOf(erAsked.columns["replaced_by"]) = "refresh_tokens"
       /\ erColumns[erAsked.columns["replaced_by"]]["user_id"] = erAsked.columns["user_id"]
    \/ erAsked.columns["user_id"] \notin Rows

AskedOK ==
    erAsked # NULL =>
      /\ DOMAIN erAsked.columns = NamesOf(erTable)
      /\ erAsked.row = <<erTable, 1>> /\ erAsked.row \notin Rows
      /\ \A c \in ColumnsOf(erTable) : AskedFits(c, erAsked.columns[c.column])
      /\ erTable = "refresh_tokens" => AskedSession

\* Until a table is followed there is nothing; a row that is asked for has the columns
\* of its table, and every column names a row there is unless it may dangle.
ErasureInv ==
    /\ ErasureTypeOK
    /\ erTable = NULL => Rows = {} /\ erHidden = {} /\ erRefused = {} /\ erAsked = NULL
    /\ NothingElseDangles
    /\ NoDedications
    /\ RowsFit
    /\ SessionsOfOneUser
    /\ AskedOK

\* The initial states satisfy ErasureInv.
LEMMA ErasureInitial == ErasureInit => ErasureInv
BY DEF ErasureInit, ErasureInv, ErasureTypeOK, Rows, NothingElseDangles, NoDedications,
   RowsFit, SessionsOfOneUser, AskedOK

\* A column of a table, with the key on it if there is one.
LEMMA ColumnsAre ==
    ASSUME NEW t \in DOMAIN Declared
    PROVE  ColumnsOf(t) =
      UNION {{[column |-> c.column, names |-> c.names, required |-> c.required,
               key |-> k.key, rule |-> k.rule] : k \in KeyOn(c, Declared[t][2])} :
             c \in Declared[t][1]}
BY DEF ColumnsOf, Columns

\* A column of the createTable is there with the key on it, or with none.
LEMMA ColumnWithKey ==
    ASSUME NEW t \in DOMAIN Declared, NEW cs, NEW ks, Declared[t] = <<cs, ks>>,
           NEW c \in cs, NEW k \in KeyOn(c, ks)
    PROVE  [column |-> c.column, names |-> c.names, required |-> c.required,
            key |-> k.key, rule |-> k.rule] \in ColumnsOf(t)
<1> DEFINE Keyed(b, j) == [column |-> b.column, names |-> b.names,
                           required |-> b.required, key |-> j.key, rule |-> j.rule]
           With(b) == {Keyed(b, j) : j \in KeyOn(b, ks)}
<1>1. ColumnsOf(t) = UNION {With(b) : b \in cs}
  BY ColumnsAre
<1>2. Keyed(c, k) \in With(c)
  OBVIOUS
<1> HIDE DEF Keyed, With
<1>3. Keyed(c, k) \in ColumnsOf(t)
  BY <1>1, <1>2
<1> QED BY <1>3 DEF Keyed

\* A row of users names no other row.
LEMMA UsersHangOnNothing == "users" \notin DOMAIN Columns
BY SMTT(30) DEF Columns, Declared

\* No sponsor's video hangs on a row.
LEMMA VideosHangOnNothing == \A c \in ColumnsOf("sponsor_ad_videos") : c.rule # "cascade"
<1>1. "sponsor_ad_videos" \in DOMAIN Declared
      /\ Declared["sponsor_ad_videos"] = <<SponsorAdVideo, {}>>
  BY SMTT(30) DEF Declared
<1> QED BY <1>1, ColumnsAre DEF KeyOn

\* A session has the columns user_id, with a key on users, and replaced_by, without one.
LEMMA SessionColumns ==
    /\ NamesOf("refresh_tokens") = {"user_id", "replaced_by"}
    /\ \E c \in ColumnsOf("refresh_tokens") :
         c.column = "user_id" /\ c.rule = "cascade" /\ c.key = "users" /\ c.names = Users
         /\ c.required
    /\ \A c \in ColumnsOf("refresh_tokens") : c.rule = "cascade" => c.column = "user_id"
    /\ \E c \in ColumnsOf("refresh_tokens") :
         /\ c.column = "replaced_by" /\ c.names = {"refresh_tokens"} /\ c.key = NULL
         /\ c.rule = "none" /\ ~c.required
<1> DEFINE user     == [column |-> "user_id", names |-> Users, required |-> TRUE]
           replaced == [column |-> "replaced_by", names |-> {"refresh_tokens"},
                        required |-> FALSE]
           key      == [column |-> "user_id", key |-> "users", rule |-> "cascade"]
           none     == [key |-> NULL, rule |-> "none"]
           Keyed(c, k) == [column |-> c.column, names |-> c.names,
                           required |-> c.required, key |-> k.key, rule |-> k.rule]
<1>1. "refresh_tokens" \in DOMAIN Declared
      /\ Declared["refresh_tokens"] = <<RefreshToken, RefreshTokenKeys>>
  BY SMTT(30) DEF Declared
<1>2. user \in RefreshToken /\ replaced \in RefreshToken
  BY DEF RefreshToken, OfUser, Of, May
<1>3. \A c \in RefreshToken : 
        \/ c.column = "user_id" /\ c.names = Users /\ c.required
        \/ c.column = "replaced_by" /\ c.names = {"refresh_tokens"} /\ ~c.required
  BY DEF RefreshToken, OfUser, Of, May
<1>4. key \in RefreshTokenKeys /\ \A k \in RefreshTokenKeys :
        k.column = "user_id" /\ k.key = "users" /\ k.rule = "cascade"
  BY DEF RefreshTokenKeys, CascadeUser, Cascade
<1>5. ASSUME NEW c \in RefreshToken, c.column = "user_id"
      PROVE  key \in KeyOn(c, RefreshTokenKeys)
             /\ \A k \in KeyOn(c, RefreshTokenKeys) : k \in RefreshTokenKeys
  BY <1>4, <1>5 DEF KeyOn
<1>6. ASSUME NEW c \in RefreshToken, c.column = "replaced_by"
      PROVE  KeyOn(c, RefreshTokenKeys) = {none}
  BY <1>4, <1>6 DEF KeyOn
<1>7. ColumnsOf("refresh_tokens") =
        UNION {{Keyed(c, k) : k \in KeyOn(c, RefreshTokenKeys)} : c \in RefreshToken}
  BY <1>1, ColumnsAre
<1>8. Keyed(user, key) \in ColumnsOf("refresh_tokens")
  BY <1>1, <1>2, <1>5, ColumnWithKey
<1>9. Keyed(replaced, none) \in ColumnsOf("refresh_tokens")
  BY <1>1, <1>2, <1>6, ColumnWithKey
<1>10. ASSUME NEW d \in ColumnsOf("refresh_tokens")
       PROVE  \/ d.column = "user_id"
              \/ d.column = "replaced_by" /\ d.rule = "none"
  <2>1. PICK c \in RefreshToken : \E k \in KeyOn(c, RefreshTokenKeys) : d = Keyed(c, k)
    BY <1>7
  <2>2. PICK k \in KeyOn(c, RefreshTokenKeys) : d = Keyed(c, k)
    BY <2>1
  <2>3. d.column = c.column /\ d.rule = k.rule
    BY <2>2
  <2> QED BY <1>3, <1>6, <2>3
<1>11. NamesOf("refresh_tokens") = {"user_id", "replaced_by"}
  BY <1>8, <1>9, <1>10 DEF NamesOf
<1>12. \A c \in ColumnsOf("refresh_tokens") : c.rule = "cascade" => c.column = "user_id"
  BY <1>10
<1> QED BY <1>8, <1>9, <1>11, <1>12

\* A dedication's concert has a key on a table it never names.
LEMMA DedicationColumn ==
    \E c \in ColumnsOf("concert_dedications") :
      c.required /\ c.key = "concerts" /\ c.key \notin c.names
<1> DEFINE concert == [column |-> "concert_id", names |-> Dedicated, required |-> TRUE]
           key == [column |-> "concert_id", key |-> "concerts", rule |-> "cascade"]
<1>1. "concert_dedications" \in DOMAIN Declared
      /\ Declared["concert_dedications"] = <<ConcertDedication, ConcertDedicationKeys>>
  BY SMTT(30) DEF Declared
<1>2. concert \in ConcertDedication
  BY DEF ConcertDedication, Of
<1>3. key \in ConcertDedicationKeys
  BY DEF ConcertDedicationKeys, Cascade
<1>4. key \in KeyOn(concert, ConcertDedicationKeys)
  BY <1>3 DEF KeyOn
<1>5. [column |-> concert.column, names |-> concert.names, required |-> concert.required,
       key |-> key.key, rule |-> key.rule] \in ColumnsOf("concert_dedications")
  BY <1>1, <1>2, <1>4, ColumnWithKey
<1> QED BY <1>5 DEF Dedicated
\* A row as it stands has the columns of its table.
LEMMA FirstHasColumns == \A p, t : DOMAIN First(p, t) = NamesOf(p)
BY Zenon DEF First

\* A column is found by its name.
LEMMA ColumnFound ==
    ASSUME NEW p, NEW c \in ColumnsOf(p), NEW d \in ColumnsOf(p), c.column = d.column
    PROVE  c = d
BY ColumnsAssumption DEF ColumnsOf

\* What a column of a row as it stands holds.
LEMMA FirstHolds ==
    ASSUME NEW p, NEW t, NEW c \in ColumnsOf(p)
    PROVE  First(p, t)[c.column] =
             IF ~c.required /\ (c.rule # "cascade" \/ c.key = p) THEN NULL
             ELSE IF c.key \in Named(c) THEN Stands(c.key, t)
             ELSE Stands(CHOOSE q \in Named(c) : TRUE, t)
<1> DEFINE Value == [d \in ColumnsOf(p) |->
          IF ~d.required /\ (d.rule # "cascade" \/ d.key = p) THEN NULL
          ELSE IF d.key \in Named(d) THEN Stands(d.key, t)
          ELSE Stands(CHOOSE q \in Named(d) : TRUE, t)]
<1>1. c.column \in NamesOf(p)
  BY DEF NamesOf
<1>2. First(p, t)[c.column] = Value[CHOOSE d \in DOMAIN Value : d.column = c.column]
  BY <1>1, Zenon DEF First
<1>3. DOMAIN Value = ColumnsOf(p)
  OBVIOUS
<1> HIDE DEF Value
<1>4. (CHOOSE d \in DOMAIN Value : d.column = c.column) = c
  BY <1>3, ColumnFound
<1>5. First(p, t)[c.column] = Value[c]
  BY <1>2, <1>4
<1> QED BY <1>5, Zenon DEF Value

\* A column that must name a row names one of the table its key is on.
LEMMA FirstRequired ==
    ASSUME NEW p, NEW t, NEW c \in ColumnsOf(p), c.required, c.key \in Named(c)
    PROVE  First(p, t)[c.column] = Stands(c.key, t)
<1>1. PICK held : held = First(p, t)[c.column]
  OBVIOUS
<1>2. held = IF ~c.required /\ (c.rule # "cascade" \/ c.key = p) THEN NULL
             ELSE IF c.key \in Named(c) THEN Stands(c.key, t)
             ELSE Stands(CHOOSE q \in Named(c) : TRUE, t)
  BY <1>1, FirstHolds
<1>3. held = Stands(c.key, t)
  BY <1>2
<1> QED BY <1>1, <1>3

\* A session as it stands is of the first user.
LEMMA FirstSession ==
    ASSUME NEW t \in DOMAIN Columns
    PROVE  /\ First("refresh_tokens", t)["user_id"] = <<"users", 1>>
           /\ First("refresh_tokens", t)["replaced_by"] = NULL
<1>1. First("refresh_tokens", t)["user_id"] = <<"users", 1>>
  <2>1. PICK c \in ColumnsOf("refresh_tokens") :
          c.column = "user_id" /\ c.required /\ c.key = "users" /\ c.names = Users
    BY SessionColumns
  <2>2. c.key \in Named(c)
    BY <2>1 DEF Named, Users
  <2>3. First("refresh_tokens", t)[c.column] = Stands(c.key, t)
    BY <2>1, <2>2, FirstRequired
  <2>4. "users" # t
    BY UsersHangOnNothing
  <2> QED BY <2>1, <2>3, <2>4 DEF Stands
<1>2. First("refresh_tokens", t)["replaced_by"] = NULL
  <2>1. PICK c \in ColumnsOf("refresh_tokens") :
          c.column = "replaced_by" /\ c.rule = "none" /\ ~c.required
    BY SessionColumns
  <2>2. PICK held : held = First("refresh_tokens", t)[c.column]
    OBVIOUS
  <2>3. held = IF ~c.required /\ (c.rule # "cascade" \/ c.key = "refresh_tokens") THEN NULL
               ELSE IF c.key \in Named(c) THEN Stands(c.key, t)
               ELSE Stands(CHOOSE q \in Named(c) : TRUE, t)
    BY <2>2, FirstHolds
  <2>4. held = NULL
    BY <2>1, <2>3
  <2> QED BY <2>1, <2>2, <2>4
<1> QED BY <1>1, <1>2

\* It is empty or a row of a table it names, that stands.
LEMMA FirstStands ==
    ASSUME NEW t \in DOMAIN Columns, NEW p \in {"users"} \cup Above(t), NEW n \in NamesOf(p)
    PROVE  /\ First(p, t)[n] \in Standing(t) \cup {NULL}
           /\ \A c \in ColumnsOf(p) : c.column = n =>
                First(p, t)[n] = NULL \/ TableOf(First(p, t)[n]) \in c.names
<1>1. PICK c \in ColumnsOf(p) : c.column = n
  BY DEF NamesOf
<1>2. p # "users" /\ p \in DOMAIN Columns
  BY <1>1, UsersHangOnNothing DEF ColumnsOf
<1>3. Named(c) # {} /\ Named(c) \subseteq NamedBy(p) /\ Named(c) \subseteq c.names
  <2>1. c.names # {}
    BY <1>1, <1>2, ColumnsAssumption DEF ColumnsOf
  <2> QED BY <2>1 DEF Named, NamedBy
<1>4. NamedBy(p) \subseteq Above(t)
  BY <1>2, AboveAssumption
<1>5. \A q \in Above(t) : Stands(q, t) \in Standing(t)
  <2> TAKE q \in Above(t)
  <2>1. CASE q = "users"
    BY <2>1, UsersHangOnNothing DEF Stands, Standing
  <2>2. CASE q # "users"
    BY <2>2 DEF Standing
  <2> QED BY <2>1, <2>2
<1>6. \A q \in Named(c) : Stands(q, t) \in Standing(t)
  BY <1>3, <1>4, <1>5
<1>7. (CHOOSE q \in Named(c) : TRUE) \in Named(c)
  BY <1>3
<1>8. First(p, t)[n] = NULL \/ \E q \in Named(c) : First(p, t)[n] = Stands(q, t)
  BY <1>1, <1>7, FirstHolds
<1>9. \A d \in ColumnsOf(p) : d.column = n => d = c
  BY <1>1, ColumnFound
<1>10. \A q : TableOf(Stands(q, t)) = q
  BY DEF TableOf, Stands
<1> QED BY <1>3, <1>6, <1>8, <1>9, <1>10

\* GoWith: its roots, and what hangs on its rows.
LEMMA GoWithClosed ==
    ASSUME NEW roots
    PROVE  /\ roots \cap Rows \subseteq GoWith(roots)
           /\ GoWith(roots) \subseteq Rows
           /\ \A r \in Rows : HangsOn(r, GoWith(roots)) => r \in GoWith(roots)
<1> DEFINE Closed == {rows \in SUBSET Rows :
                        /\ roots \cap Rows \subseteq rows
                        /\ \A r \in Rows : HangsOn(r, rows) => r \in rows}
<1>1. GoWith(roots) = {r \in Rows : \A rows \in Closed : r \in rows}
  BY Zenon DEF GoWith
<1>2. \A rows \in Closed : roots \cap Rows \subseteq rows
  OBVIOUS
<1>3. ASSUME NEW r \in Rows, HangsOn(r, GoWith(roots)), NEW rows \in Closed
      PROVE  r \in rows
  <2>1. GoWith(roots) \subseteq rows
    BY <1>1
  <2>2. HangsOn(r, rows)
    BY <1>3, <2>1 DEF HangsOn
  <2> QED BY <2>2
<1> HIDE DEF Closed
<1> QED BY <1>1, <1>2, <1>3

\* GoWith has no more rows than any set that has its roots and what hangs on it.
LEMMA GoWithLeast ==
    ASSUME NEW roots, NEW rows \in SUBSET Rows, roots \cap Rows \subseteq rows,
           \A r \in Rows : HangsOn(r, rows) => r \in rows
    PROVE  GoWith(roots) \subseteq rows
BY DEF GoWith

\* The tables requests erase rows of.
Erasable(roots) ==
    \A r \in roots : TableOf(r) \notin {"sponsor_ad_videos", "refresh_tokens"}

\* No sponsor's video goes.
LEMMA VideosStay ==
    ASSUME NEW roots, Erasable(roots), NEW r \in GoWith(roots)
    PROVE  TableOf(r) # "sponsor_ad_videos"
<1> DEFINE others == {x \in Rows : TableOf(x) # "sponsor_ad_videos"}
<1>1. roots \cap Rows \subseteq others
  BY DEF Erasable
<1>2. \A x \in Rows : HangsOn(x, others) => x \in others
  BY VideosHangOnNothing DEF HangsOn
<1>3. GoWith(roots) \subseteq others
  BY <1>1, <1>2, GoWithLeast
<1> QED BY <1>3

\* A session goes with its user only.
LEMMA SessionGoesWithUser ==
    ASSUME NEW roots, Erasable(roots), NEW r \in GoWith(roots), TableOf(r) = "refresh_tokens"
    PROVE  erColumns[r]["user_id"] \in GoWith(roots)
<1> SUFFICES ASSUME erColumns[r]["user_id"] \notin GoWith(roots) PROVE FALSE
  OBVIOUS
<1> DEFINE others == GoWith(roots) \ {r}
<1>1. roots \cap Rows \subseteq others
  BY GoWithClosed DEF Erasable
<1>2. ASSUME NEW x \in Rows, HangsOn(x, others) PROVE x \in others
  <2>1. HangsOn(x, GoWith(roots))
    BY <1>2 DEF HangsOn
  <2>2. x \in GoWith(roots)
    BY <2>1, GoWithClosed
  <2>3. x # r
    <3>1. \A c \in ColumnsOf("refresh_tokens") : c.rule = "cascade" => c.column = "user_id"
      BY SessionColumns
    <3> QED BY <1>2, <3>1 DEF HangsOn
  <2> QED BY <2>2, <2>3
<1>3. GoWith(roots) \subseteq others
  BY <1>1, <1>2, GoWithClosed, GoWithLeast
<1> QED BY <1>3

\* Erasing rows keeps ErasureInv: what names a row that goes goes with it, or is cleared.
LEMMA ErasureKeptAfter ==
    ASSUME ErasureInv, NEW roots, Erasable(roots), Erase(roots)
    PROVE  ErasureInv'
<1>1. PICK gone \in {GoWith(roots)} :
                  /\ erColumns' = [r \in Rows \ gone |->
                        [n \in DOMAIN erColumns[r] |->
                           IF /\ erColumns[r][n] \in gone
                              /\ \E c \in ColumnsOf(TableOf(r)) :
                                   c.column = n /\ c.rule = "set null"
                           THEN NULL ELSE erColumns[r][n]]]
                  /\ erHidden' = erHidden \ gone
                  /\ UNCHANGED <<erTable, erAsked, erRefused>>
  BY Zenon DEF Erase
<1>0. erHidden' = erHidden \ gone /\ UNCHANGED <<erTable, erAsked, erRefused>>
  BY <1>1, Zenon
<1>2. Rows' = Rows \ gone /\ \A r \in Rows' : DOMAIN erColumns'[r] = DOMAIN erColumns[r]
  BY <1>1 DEF Rows
<1>3. \A r \in Rows' : DOMAIN erColumns'[r] = NamesOf(TableOf(r))
  BY <1>2 DEF ErasureInv, ErasureTypeOK
<1>4. ErasureTypeOK'
  BY <1>0, <1>2, <1>3 DEF ErasureInv, ErasureTypeOK
<1>5. \A r \in Rows' : \A n \in DOMAIN erColumns[r] :
        /\ erColumns'[r][n] \in {erColumns[r][n], NULL}
        /\ erColumns[r][n] \notin gone => erColumns'[r][n] = erColumns[r][n]
        /\ (\E c \in ColumnsOf(TableOf(r)) : c.column = n /\ c.rule = "set null")
             => (erColumns[r][n] \in gone => erColumns'[r][n] = NULL)
  BY <1>1, <1>2
<1>6. gone = GoWith(roots)
  BY <1>1, Zenon
<1>7. \A r \in Rows' : \A c \in ColumnsOf(TableOf(r)) :
        c.rule = "cascade" => erColumns[r][c.column] \notin gone
  BY <1>2, <1>6, GoWithClosed DEF HangsOn
<1> HIDE DEF ErasureInv
<1>8. \A x \in gone : TableOf(x) # "sponsor_ad_videos"
  BY <1>6, VideosStay
<1>9. \A x \in gone : TableOf(x) = "refresh_tokens" => erColumns[x]["user_id"] \in gone
  BY <1>6, SessionGoesWithUser
<1>10. gone \subseteq Rows
  BY <1>6, GoWithClosed
<1>11. NoDedications'
  BY <1>2 DEF ErasureInv, NoDedications
<1>12. ASSUME NEW r \in Rows', TableOf(r) = "refresh_tokens"
       PROVE  /\ "user_id" \in DOMAIN erColumns[r] /\ "replaced_by" \in DOMAIN erColumns[r]
              /\ erColumns[r]["user_id"] \notin gone
              /\ erColumns'[r]["user_id"] = erColumns[r]["user_id"]
  <2>1. DOMAIN erColumns[r] = {"user_id", "replaced_by"}
    BY <1>2, <1>12, SessionColumns DEF ErasureInv, ErasureTypeOK
  <2>2. erColumns[r]["user_id"] \notin gone
    BY <1>7, <1>12, SessionColumns
  <2> QED BY <2>1, <2>2, <1>5
<1>13. SessionsOfOneUser'
  <2> SUFFICES ASSUME NEW r \in Rows', TableOf(r) = "refresh_tokens"
               PROVE  /\ r = <<"refresh_tokens", 1>> \/ erColumns'[r]["user_id"] = <<"users", 1>>
                      /\ \/ erColumns'[r]["replaced_by"] = NULL
                         \/ /\ erColumns'[r]["replaced_by"] \in Rows'
                            /\ TableOf(erColumns'[r]["replaced_by"]) = "refresh_tokens"
                            /\ erColumns'[erColumns'[r]["replaced_by"]]["user_id"]
                                 = erColumns'[r]["user_id"]
    BY DEF SessionsOfOneUser, TableOf
  <2> DEFINE x == erColumns[r]["replaced_by"]
  <2>1. r \in Rows
    BY <1>2
  <2>2. /\ r = <<"refresh_tokens", 1>> \/ erColumns[r]["user_id"] = <<"users", 1>>
        /\ \/ x = NULL
           \/ /\ x \in Rows /\ TableOf(x) = "refresh_tokens"
              /\ erColumns[x]["user_id"] = erColumns[r]["user_id"]
    BY <2>1 DEF ErasureInv, SessionsOfOneUser
  <2>3. erColumns'[r]["replaced_by"] \in {x, NULL}
    BY <1>5, <1>12
  <2>4. CASE x # NULL
    <3>1. x \notin gone
      BY <1>9, <1>12, <2>2, <2>4
    <3>2. x \in Rows'
      BY <1>2, <2>2, <2>4, <3>1
    <3>3. erColumns'[x]["user_id"] = erColumns[x]["user_id"]
      BY <1>12, <2>2, <2>4, <3>2
    <3>4. CASE erColumns'[r]["replaced_by"] = x
      BY <1>12, <2>2, <2>4, <3>2, <3>3, <3>4
    <3>5. CASE erColumns'[r]["replaced_by"] = NULL
      BY <1>12, <2>2, <3>5
    <3> QED BY <2>3, <3>4, <3>5
  <2>5. CASE x = NULL
    BY <1>12, <2>2, <2>3, <2>5
  <2> QED BY <2>4, <2>5
<1>14. NothingElseDangles'
  <2> SUFFICES ASSUME NEW r \in Rows', NEW n \in DOMAIN erColumns'[r]
               PROVE  \/ erColumns'[r][n] \in Rows' \cup {NULL}
                      \/ TableOf(r) \in DOMAIN MayDangle /\ n \in MayDangle[TableOf(r)]
    BY DEF NothingElseDangles, TableOf
  <2>1. r \in Rows /\ n \in DOMAIN erColumns[r] /\ n \in NamesOf(TableOf(r))
    BY <1>2, <1>3
  <2>2. \/ erColumns[r][n] \in Rows \cup {NULL}
        \/ TableOf(r) \in DOMAIN MayDangle /\ n \in MayDangle[TableOf(r)]
    BY <2>1 DEF ErasureInv, NothingElseDangles
  <2>3. SUFFICES ASSUME erColumns[r][n] \in gone, erColumns'[r][n] # NULL,
                        ~(TableOf(r) \in DOMAIN MayDangle /\ n \in MayDangle[TableOf(r)])
                 PROVE  FALSE
    BY <1>2, <1>5, <2>1, <2>2
  <2>4. PICK c \in ColumnsOf(TableOf(r)) : c.column = n
    BY <2>1 DEF NamesOf
  <2>5. c.rule # "cascade"
    BY <1>7, <2>3, <2>4
  <2>6. c.rule # "set null"
    BY <1>5, <2>1, <2>3, <2>4
  <2>7. TableOf(r) \in DOMAIN Columns /\ c \in Columns[TableOf(r)]
    BY DEF ColumnsOf
  <2>8. c.key = NULL
    BY <2>5, <2>6, <2>7, ColumnsAssumption
  <2>9. \/ c.names = {"sponsor_ad_videos"} \/ TableOf(r) = "concert_dedications"
        \/ TableOf(r) = "refresh_tokens" /\ n = "replaced_by"
    BY <2>3, <2>4, <2>7, <2>8, UnkeyedAssumption
  <2>10. CASE TableOf(r) = "concert_dedications"
    BY <2>1, <2>10 DEF ErasureInv, NoDedications
  <2>11. CASE TableOf(r) = "refresh_tokens" /\ n = "replaced_by"
    BY <1>12, <1>13, <1>2, <1>5, <2>1, <2>3, <2>11 DEF SessionsOfOneUser, TableOf
  <2>13. erColumns[r][n] # NULL
    BY <1>5, <2>1, <2>3
  <2>12. CASE c.names = {"sponsor_ad_videos"}
    BY <1>8, <1>10, <2>1, <2>3, <2>4, <2>12, <2>13 DEF ErasureInv, RowsFit
  <2> QED BY <2>9, <2>10, <2>11, <2>12
<1>15. AskedOK'
  <2> SUFFICES ASSUME erAsked # NULL
               PROVE  /\ DOMAIN erAsked.columns = NamesOf(erTable)
                      /\ erAsked.row = <<erTable, 1>> /\ erAsked.row \notin Rows'
                      /\ \A c \in ColumnsOf(erTable) : AskedFits(c, erAsked.columns[c.column])'
                      /\ erTable = "refresh_tokens" => AskedSession'
    BY <1>0 DEF AskedOK
  <2>1. AskedOK /\ Rows' \subseteq Rows
    BY <1>2 DEF ErasureInv
  <2>2. ASSUME NEW c \in ColumnsOf(erTable)
        PROVE  AskedFits(c, erAsked.columns[c.column])'
    BY <1>0, <1>2, <1>8, <2>1 DEF AskedOK, AskedFits
  <2>3. ASSUME erTable = "refresh_tokens" PROVE AskedSession'
    <3> DEFINE x == erAsked.columns["replaced_by"]
               u == erAsked.columns["user_id"]
    <3>1. \/ x = NULL
          \/ x \in Rows /\ TableOf(x) = "refresh_tokens" /\ erColumns[x]["user_id"] = u
          \/ u \notin Rows
      BY <2>1, <2>3 DEF AskedOK, AskedSession
    <3>2. CASE x \in Rows /\ TableOf(x) = "refresh_tokens" /\ erColumns[x]["user_id"] = u
      <4>1. CASE x \in gone
        <5>1. u \notin Rows'
          BY <1>2, <1>9, <3>2, <4>1
        <5> QED BY <1>0, <5>1 DEF AskedSession
      <4>2. CASE x \notin gone
        <5>1. x \in Rows' /\ erColumns'[x]["user_id"] = u
          BY <1>2, <1>12, <3>2, <4>2
        <5> QED BY <1>0, <3>2, <5>1 DEF AskedSession
      <4> QED BY <4>1, <4>2
    <3>3. CASE x = NULL \/ u \notin Rows
      BY <1>0, <1>2, <3>3 DEF AskedSession
    <3> QED BY <3>1, <3>2, <3>3
  <2> QED BY <2>1, <2>2, <2>3 DEF AskedOK
<1>16. RowsFit'
  <2> SUFFICES ASSUME NEW r \in Rows', NEW c \in ColumnsOf(TableOf(r))
               PROVE  \/ erColumns'[r][c.column] = NULL
                      \/ TableOf(erColumns'[r][c.column]) \in c.names
    BY DEF RowsFit, TableOf
  <2>1. r \in Rows /\ c.column \in DOMAIN erColumns[r]
    BY <1>2, <1>3 DEF NamesOf
  <2>2. \/ erColumns[r][c.column] = NULL
        \/ TableOf(erColumns[r][c.column]) \in c.names
    BY <2>1 DEF ErasureInv, RowsFit
  <2>3. erColumns'[r][c.column] \in {erColumns[r][c.column], NULL}
    BY <1>5, <2>1
  <2> QED BY <2>2, <2>3
<1> QED BY <1>0, <1>2, <1>4, <1>11, <1>13, <1>14, <1>15, <1>16 DEF ErasureInv

\* The rows that stand when a table is followed satisfy ErasureInv.
LEMMA ErasureFollowed ==
    ASSUME ErasureInv, NEW t \in DOMAIN Columns, Follow(t)
    PROVE  ErasureInv'
<1>1. /\ erColumns' = [r \in Standing(t) |-> First(TableOf(r), t)] /\ erTable' = t
      /\ erTable = NULL /\ UNCHANGED <<erHidden, erAsked, erRefused>>
  BY DEF Follow
<1>2. Rows' = Standing(t) /\ \A r \in Rows' : erColumns'[r] = First(TableOf(r), t)
  BY <1>1 DEF Rows
<1>3. \A r \in Rows' : DOMAIN erColumns'[r] = NamesOf(TableOf(r))
  BY <1>2, FirstHasColumns
<1>4. erHidden' = {} /\ erRefused' = {} /\ erAsked' = NULL /\ t # NULL
  BY <1>1, ErasureAssumption DEF ErasureInv
<1>5. ErasureTypeOK'
  BY <1>1, <1>3, <1>4 DEF ErasureTypeOK
<1>6. \A r \in Rows' : TableOf(r) \in {"users"} \cup Above(t)
  BY <1>2 DEF Standing, Stands, TableOf
<1>7. ASSUME NEW r \in Rows', NEW n \in NamesOf(TableOf(r))
      PROVE  /\ erColumns'[r][n] \in Rows' \cup {NULL}
             /\ \A c \in ColumnsOf(TableOf(r)) : c.column = n =>
                  erColumns'[r][n] = NULL \/ TableOf(erColumns'[r][n]) \in c.names
  <2>1. PICK p \in {"users"} \cup Above(t) : p = TableOf(r)
    BY <1>6
  <2>2. PICK first : first = First(p, t)
    OBVIOUS
  <2>3. n \in NamesOf(p) /\ erColumns'[r] = first
    BY <1>2, <2>1, <2>2
  <2>4. /\ first[n] \in Standing(t) \cup {NULL}
        /\ \A c \in ColumnsOf(p) : c.column = n => first[n] = NULL \/ TableOf(first[n]) \in c.names
    BY <2>2, <2>3, FirstStands
  <2> QED BY <1>2, <2>1, <2>3, <2>4
<1>8. NothingElseDangles'
  BY <1>3, <1>7 DEF NothingElseDangles
<1>9. RowsFit'
  <2> SUFFICES ASSUME NEW r \in Rows', NEW c \in ColumnsOf(TableOf(r))
               PROVE  \/ erColumns'[r][c.column] = NULL
                      \/ TableOf(erColumns'[r][c.column]) \in c.names
    BY DEF RowsFit, TableOf
  <2>1. c.column \in NamesOf(TableOf(r))
    BY DEF NamesOf
  <2> QED BY <1>7, <2>1
<1>10. NoDedications'
  <2>1. "users" # "concert_dedications"
    OBVIOUS
  <2> QED BY <1>6, <2>1, AboveAssumption DEF NoDedications, TableOf
<1>11. SessionsOfOneUser'
  <2> SUFFICES ASSUME NEW r \in Rows', TableOf(r) = "refresh_tokens"
               PROVE  /\ erColumns'[r]["user_id"] = <<"users", 1>>
                      /\ erColumns'[r]["replaced_by"] = NULL
    BY DEF SessionsOfOneUser, TableOf
  <2>1. erColumns'[r] = First("refresh_tokens", t)
    BY <1>2
  <2> QED BY <2>1, FirstSession
<1>12. AskedOK'
  BY <1>4 DEF AskedOK
<1> QED BY <1>1, <1>4, <1>5, <1>8, <1>9, <1>10, <1>11, <1>12 DEF ErasureInv

\* A row that is asked for satisfies AskedOK.
LEMMA ErasureAsked ==
    ASSUME ErasureInv, Ask
    PROVE  ErasureInv'
<1> DEFINE first == First(erTable, erTable)
<1>1. PICK plain \in {First(erTable, erTable)}, c \in ColumnsOf(erTable), x \in Rows \cup {NULL} :
        /\ CanHold(c, x)
        /\ \A d \in ColumnsOf(erTable) \ {c} : CanHold(d, plain[d.column])
        /\ erAsked' = [row |-> <<erTable, 1>>, columns |-> [plain EXCEPT ![c.column] = x]]
  BY DEF Ask
<1>2. /\ UNCHANGED <<erTable, erColumns, erHidden, erRefused>> /\ erTable # NULL
      /\ <<erTable, 1>> \notin Rows /\ erTable \in DOMAIN Columns
  BY DEF Ask, ErasureInv, ErasureTypeOK
<1>3. plain = first /\ DOMAIN first = NamesOf(erTable)
  BY <1>1, FirstHasColumns
<1> HIDE DEF first
<1>4. /\ DOMAIN erAsked'.columns = NamesOf(erTable) /\ erAsked'.row = <<erTable, 1>>
      /\ erAsked'.columns = [first EXCEPT ![c.column] = x]
  BY <1>1, <1>3
<1>5. TableOf(erAsked'.row) = erTable
  BY <1>4 DEF TableOf
<1>6. erAsked'.columns[c.column] = x
  BY <1>3, <1>4 DEF NamesOf
<1>7. \A d \in ColumnsOf(erTable) \ {c} : erAsked'.columns[d.column] = first[d.column]
  BY <1>3, <1>4, ColumnFound DEF NamesOf
<1>8. \A d \in ColumnsOf(erTable) : CanHold(d, erAsked'.columns[d.column])
  BY <1>1, <1>3, <1>6, <1>7
<1>9. ASSUME NEW d \in ColumnsOf(erTable)
      PROVE  AskedFits(d, erAsked.columns[d.column])'
  BY <1>2, <1>8 DEF CanHold, AskedFits, Rows
<1>10. ASSUME erTable = "refresh_tokens" PROVE AskedSession'
  <2>1. PICK user \in ColumnsOf(erTable) :
          user.column = "user_id" /\ user.required /\ user.key = "users" /\ user.names = Users
    BY <1>10, SessionColumns
  <2>2. PICK replaced \in ColumnsOf(erTable) :
          /\ replaced.column = "replaced_by" /\ replaced.names = {"refresh_tokens"}
          /\ replaced.rule = "none" /\ ~replaced.required
    BY <1>10, SessionColumns
  <2>3. CASE c = replaced
    <3>1. x = NULL \/ (x \in Rows /\ TableOf(x) = "refresh_tokens")
      BY <1>1, <2>2, <2>3 DEF CanHold
    <3>2. erAsked'.columns["user_id"] = first["user_id"]
      BY <1>7, <2>1, <2>2, <2>3
    <3>3. first["user_id"] = <<"users", 1>>
      BY <1>2, <1>10, FirstSession DEF first
    <3>4. CASE x # NULL
      <4>1. erColumns[x]["user_id"] = <<"users", 1>>
        BY <1>2, <1>10, <3>1, <3>4 DEF ErasureInv, SessionsOfOneUser
      <4> QED BY <1>2, <1>6, <2>2, <2>3, <3>1, <3>2, <3>3, <3>4, <4>1 DEF AskedSession, Rows
    <3>5. CASE x = NULL
      BY <1>6, <2>2, <2>3, <3>5 DEF AskedSession
    <3> QED BY <3>4, <3>5
  <2>4. CASE c # replaced
    <3>1. erAsked'.columns["replaced_by"] = first["replaced_by"]
      BY <1>7, <2>2, <2>4
    <3>2. first["replaced_by"] = NULL
      BY <1>2, <1>10, FirstSession DEF first
    <3> QED BY <3>1, <3>2 DEF AskedSession
  <2> QED BY <2>3, <2>4
<1>11. AskedOK'
  BY <1>2, <1>4, <1>9, <1>10 DEF AskedOK, Rows
<1>12. ErasureTypeOK'
  BY <1>2, <1>5 DEF ErasureInv, ErasureTypeOK, Rows
<1> QED BY <1>2, <1>11, <1>12 DEF ErasureInv, NothingElseDangles, NoDedications, RowsFit,
           SessionsOfOneUser, Rows

\* A row that is accepted names rows there are, and may be one of a session.
LEMMA ErasureInserted ==
    ASSUME ErasureInv, Insert
    PROVE  ErasureInv'
<1> DEFINE Held(c) == erAsked.columns[c.column]
           failed == {c \in ColumnsOf(erTable) : ~KeyHolds(c, Held(c))}
           named == {d \in failed : Held(d) \in Rows}
<1>1. /\ erColumns' = IF failed = {}
                        THEN [r \in Rows \cup {erAsked.row} |->
                                IF r = erAsked.row THEN erAsked.columns ELSE erColumns[r]]
                        ELSE erColumns
      /\ erRefused' = erRefused \cup {<<erTable, c.column>> : c \in named}
  BY Zenon DEF Insert
<1>2. named \subseteq ColumnsOf(erTable)
  OBVIOUS
<1>3. \A c \in ColumnsOf(erTable) : failed = {} => KeyHolds(c, erAsked.columns[c.column])
  OBVIOUS
<1>4. erAsked # NULL /\ erAsked' = NULL /\ UNCHANGED <<erTable, erHidden>>
  BY DEF Insert
<1> HIDE DEF failed, named
<1>5. {<<erTable, c.column>> : c \in named} \subseteq {<<erTable, n>> : n \in NamesOf(erTable)}
  BY <1>2 DEF NamesOf
<1>6. erRefused' \subseteq {<<erTable, n>> : n \in NamesOf(erTable)}
  BY <1>1, <1>5 DEF ErasureInv, ErasureTypeOK
<1>7. /\ DOMAIN erAsked.columns = NamesOf(erTable) /\ erAsked.row = <<erTable, 1>>
      /\ TableOf(erAsked.row) = erTable /\ erTable # NULL /\ erTable \in DOMAIN Columns
      /\ \A r \in Rows : DOMAIN erColumns[r] = NamesOf(TableOf(r))
      /\ \A c \in ColumnsOf(erTable) : AskedFits(c, erAsked.columns[c.column])
      /\ erTable = "refresh_tokens" => AskedSession
  BY <1>4 DEF ErasureInv, ErasureTypeOK, AskedOK, TableOf
<1>8. AskedOK'
  BY <1>4 DEF AskedOK
<1>9. CASE failed # {}
  <2>1. UNCHANGED <<erTable, erColumns, erHidden>>
    BY <1>1, <1>4, <1>9
  <2>2. ErasureTypeOK'
    BY <1>4, <1>6, <2>1 DEF ErasureInv, ErasureTypeOK, Rows
  <2>3. /\ NothingElseDangles' /\ NoDedications'
        /\ RowsFit' /\ SessionsOfOneUser'
    BY <2>1 DEF ErasureInv, NothingElseDangles, NoDedications, RowsFit, SessionsOfOneUser, Rows
  <2> QED BY <1>4, <1>7, <1>8, <2>1, <2>2, <2>3 DEF ErasureInv
<1>10. CASE failed = {}
  <2>1. /\ Rows' = Rows \cup {erAsked.row}
        /\ erColumns'[erAsked.row] = erAsked.columns
        /\ \A r \in Rows : r # erAsked.row => erColumns'[r] = erColumns[r]
    BY <1>1, <1>10 DEF Rows
  <2>2. \A c \in ColumnsOf(erTable) :
          KeyHolds(c, erAsked.columns[c.column]) /\ AskedFits(c, erAsked.columns[c.column])
    BY <1>3, <1>7, <1>10
  <2>3. \A r \in Rows' : DOMAIN erColumns'[r] = NamesOf(TableOf(r))
    BY <1>7, <2>1
  <2>4. ErasureTypeOK'
    BY <1>4, <1>6, <2>1, <2>3 DEF ErasureInv, ErasureTypeOK
  <2>5. erTable # "concert_dedications"
    <3> SUFFICES ASSUME erTable = "concert_dedications" PROVE FALSE
      OBVIOUS
    <3>1. PICK c \in ColumnsOf(erTable) : c.required /\ c.key # NULL /\ c.key \notin c.names
      BY DedicationColumn, ErasureAssumption
    <3> QED BY <2>2, <3>1 DEF KeyHolds, AskedFits
  <2>6. NoDedications'
    BY <1>7, <2>1, <2>5 DEF ErasureInv, NoDedications
  <2>7. RowsFit'
    <3> SUFFICES ASSUME NEW r \in Rows', NEW c \in ColumnsOf(TableOf(r))
                 PROVE  \/ erColumns'[r][c.column] = NULL
                        \/ TableOf(erColumns'[r][c.column]) \in c.names
      BY DEF RowsFit, TableOf
    <3>1. CASE r = erAsked.row
      BY <1>7, <2>1, <2>2, <3>1 DEF AskedFits
    <3>2. CASE r # erAsked.row
      BY <2>1, <3>2 DEF ErasureInv, RowsFit
    <3> QED BY <3>1, <3>2
  <2>8. erTable = "refresh_tokens" =>
          \/ erAsked.columns["replaced_by"] = NULL
          \/ /\ erAsked.columns["replaced_by"] \in Rows
             /\ TableOf(erAsked.columns["replaced_by"]) = "refresh_tokens"
             /\ erColumns[erAsked.columns["replaced_by"]]["user_id"] = erAsked.columns["user_id"]
    <3> SUFFICES ASSUME erTable = "refresh_tokens"
                 PROVE  erAsked.columns["user_id"] \in Rows
      BY <1>7 DEF AskedSession
    <3>1. PICK c \in ColumnsOf(erTable) :
            c.column = "user_id" /\ c.key = "users" /\ c.required /\ c.names = Users
      BY SessionColumns
    <3>2. "users" # NULL
      BY ErasureAssumption
    <3> QED BY <2>2, <3>1, <3>2 DEF KeyHolds, AskedFits
  <2>9. erAsked.row \notin Rows
    BY <1>4 DEF ErasureInv, AskedOK
  <2>10. SessionsOfOneUser'
    <3> SUFFICES ASSUME NEW r \in Rows', TableOf(r) = "refresh_tokens"
                 PROVE  /\ r = <<"refresh_tokens", 1>> \/ erColumns'[r]["user_id"] = <<"users", 1>>
                        /\ \/ erColumns'[r]["replaced_by"] = NULL
                           \/ /\ erColumns'[r]["replaced_by"] \in Rows'
                              /\ TableOf(erColumns'[r]["replaced_by"]) = "refresh_tokens"
                              /\ erColumns'[erColumns'[r]["replaced_by"]]["user_id"]
                                   = erColumns'[r]["user_id"]
      BY DEF SessionsOfOneUser, TableOf
    <3>1. CASE r = erAsked.row
      BY <1>7, <2>1, <2>8, <2>9, <3>1
    <3>2. CASE r # erAsked.row
      <4>1. r \in Rows /\ erColumns'[r] = erColumns[r]
        BY <2>1, <3>2
      <4>2. /\ r = <<"refresh_tokens", 1>> \/ erColumns[r]["user_id"] = <<"users", 1>>
            /\ \/ erColumns[r]["replaced_by"] = NULL
               \/ /\ erColumns[r]["replaced_by"] \in Rows
                  /\ TableOf(erColumns[r]["replaced_by"]) = "refresh_tokens"
                  /\ erColumns[erColumns[r]["replaced_by"]]["user_id"]
                       = erColumns[r]["user_id"]
        BY <4>1 DEF ErasureInv, SessionsOfOneUser
      <4> QED BY <2>1, <2>9, <4>1, <4>2
    <3> QED BY <3>1, <3>2
  <2>11. NothingElseDangles'
    <3> SUFFICES ASSUME NEW r \in Rows', NEW n \in DOMAIN erColumns'[r]
                 PROVE  \/ erColumns'[r][n] \in Rows' \cup {NULL}
                        \/ TableOf(r) \in DOMAIN MayDangle /\ n \in MayDangle[TableOf(r)]
      BY DEF NothingElseDangles, TableOf
    <3>1. CASE r = erAsked.row
      <4>1. erColumns'[r] = erAsked.columns /\ TableOf(r) = erTable
        BY <1>7, <2>1, <3>1
      <4>2. PICK c \in ColumnsOf(erTable) : c.column = n
        BY <1>7, <4>1 DEF NamesOf
      <4>3. KeyHolds(c, erAsked.columns[n]) /\ AskedFits(c, erAsked.columns[n])
        BY <2>2, <4>2
      <4>4. CASE c.key # NULL
        BY <2>1, <4>1, <4>3, <4>4 DEF KeyHolds
      <4>5. CASE c.key = NULL
        <5>1. \/ erTable \in DOMAIN MayDangle /\ n \in MayDangle[erTable]
              \/ c.names = {"sponsor_ad_videos"}
              \/ erTable = "refresh_tokens" /\ n = "replaced_by"
          BY <1>7, <2>5, <4>2, <4>5, UnkeyedAssumption DEF ColumnsOf
        <5>2. CASE c.names = {"sponsor_ad_videos"}
          BY <2>1, <4>1, <4>3, <5>2 DEF AskedFits
        <5>3. CASE erTable = "refresh_tokens" /\ n = "replaced_by"
          BY <2>1, <2>8, <4>1, <5>3
        <5> QED BY <4>1, <5>1, <5>2, <5>3
      <4> QED BY <4>4, <4>5
    <3>2. CASE r # erAsked.row
      BY <2>1, <3>2 DEF ErasureInv, NothingElseDangles
    <3> QED BY <3>1, <3>2
  <2> QED BY <1>4, <1>7, <1>8, <2>4, <2>6, <2>7, <2>10, <2>11 DEF ErasureInv
<1> QED BY <1>9, <1>10

\* Every step of ErasureNext keeps ErasureInv.
LEMMA ErasureStep == ErasureInv /\ [ErasureNext]_erasureVars => ErasureInv'
<1> SUFFICES ASSUME ErasureInv, [ErasureNext]_erasureVars PROVE ErasureInv'
  OBVIOUS
<1>1. ASSUME NEW t \in DOMAIN Columns, Follow(t) PROVE ErasureInv'
  BY <1>1, ErasureFollowed
<1>2. ASSUME Ask PROVE ErasureInv'
  BY <1>2, ErasureAsked
<1>3. ASSUME Insert PROVE ErasureInv'
  BY <1>3, ErasureInserted
<1>4. ASSUME NEW r \in Rows, NEW t, t \notin {"sponsor_ad_videos", "refresh_tokens"},
             DeleteRow(t, r)
      PROVE  ErasureInv'
  <2>1. Erasable({r})
    BY <1>4 DEF DeleteRow, Erasable
  <2> QED BY <1>4, <2>1, ErasureKeptAfter DEF DeleteRow
<1>5. ASSUME NEW r \in Rows, Hide(r) PROVE ErasureInv'
  BY <1>5 DEF Hide, ErasureInv, ErasureTypeOK, Rows, NothingElseDangles, NoDedications,
     RowsFit, SessionsOfOneUser, AskedOK, AskedSession, AskedFits
<1>6. ASSUME NEW r \in Rows, DeleteUser(r) PROVE ErasureInv'
  <2>1. Erasable({r, <<"profiles", r[2]>>})
    BY <1>6 DEF DeleteUser, Erasable, TableOf
  <2> QED BY <1>6, <2>1, ErasureKeptAfter DEF DeleteUser
<1>7. ASSUME NEW r \in Rows, DeleteSeasonRewards(r) PROVE ErasureInv'
  <2> DEFINE rewards == {x \in Rows : /\ TableOf(x) = "leaderboard_rewards"
                                      /\ erColumns[x]["season_id"] = r}
  <2>1. Erasable(rewards)
    BY DEF Erasable
  <2> QED BY <1>7, <2>1, ErasureKeptAfter DEF DeleteSeasonRewards
<1>8. ASSUME NEW r \in Rows, \/ DeleteDuel(r) \/ DeleteLive(r) \/ DeleteArtistConcert(r)
                             \/ DeleteGift(r) \/ DeleteReward(r) \/ LiftStreamBan(r)
                             \/ LiftCompetitionBan(r) \/ DeleteNotification(r)
                             \/ DeleteRole(r) \/ Unfollow(r) \/ DeleteSeason(r)
      PROVE  ErasureInv'
  <2>1. ASSUME NEW t \in {"duels", "artist_lives", "artist_concerts", "virtual_gifts",
                          "leaderboard_rewards", "stream_bans", "competition_bans",
                          "notifications", "user_roles", "artist_followers",
                          "leaderboard_seasons"},
               DeleteRow(t, r)
        PROVE  ErasureInv'
    <3>1. t \notin {"sponsor_ad_videos", "refresh_tokens"}
      OBVIOUS
    <3> QED BY <1>4, <2>1, <3>1
  <2> QED BY <1>8, <2>1 DEF DeleteDuel, DeleteLive, DeleteArtistConcert, DeleteGift,
     DeleteReward, LiftStreamBan, LiftCompetitionBan, DeleteNotification, DeleteRole,
     Unfollow, DeleteSeason
<1>9. CASE UNCHANGED erasureVars
  BY <1>9 DEF erasureVars, ErasureInv, ErasureTypeOK, Rows, NothingElseDangles,
     NoDedications, RowsFit, SessionsOfOneUser, AskedOK, AskedSession, AskedFits
<1> QED BY <1>1, <1>2, <1>3, <1>5, <1>6, <1>7, <1>8, <1>9, Zenon DEF ErasureNext

-----------------------------------------------------------------------------
(* Together.                                                               *)

\* What moves is one part; a step of the composition is a step of it, and none of the
\* others.
LEMMA MembersStepsAreOfParts ==
    ASSUME [MembersNext]_membersVars
    PROVE  /\ [SponsorNext]_sponsorVars
           /\ [AdNext]_adVars
           /\ [DeletionNext]_deletionVars
           /\ [SessionNext]_sessionVars
           /\ [RoleNext]_roleVars
           /\ [SubscriptionNext]_subscriptionVars
           /\ [PayoutMethodNext]_payoutMethodVars
           /\ [KeyNext]_ikVars
           /\ [ErasureNext]_erasureVars
           /\ [SignupNext]_signupVars
           /\ [CodeNext]_codeVars
           /\ [PinNext]_pinVars
           /\ [DeviceNext]_deviceVars
           /\ [PreferenceNext]_preferenceVars
           /\ [FoundNext]_foundVars
           /\ [MediaNext]_mediaVars
<1>1. [SponsorNext]_sponsorVars
  BY DEF MembersNext, Only, membersVars
<1>2. [AdNext]_adVars
  BY DEF MembersNext, Only, membersVars
<1>3. [DeletionNext]_deletionVars
  BY DEF MembersNext, Only, membersVars
<1>4. [SessionNext]_sessionVars
  BY DEF MembersNext, Only, membersVars
<1>5. [RoleNext]_roleVars
  BY DEF MembersNext, Only, membersVars
<1>6. [SubscriptionNext]_subscriptionVars
  BY DEF MembersNext, Only, membersVars
<1>7. [PayoutMethodNext]_payoutMethodVars
  BY DEF MembersNext, Only, membersVars
<1>8. [KeyNext]_ikVars
  BY DEF MembersNext, Only, membersVars
<1>9. [ErasureNext]_erasureVars
  BY DEF MembersNext, Only, membersVars
<1>10. [SignupNext]_signupVars
  BY DEF MembersNext, Only, membersVars
<1>11. [CodeNext]_codeVars
  BY DEF MembersNext, Only, membersVars
<1>12. [PinNext]_pinVars
  BY DEF MembersNext, Only, membersVars
<1>13. [DeviceNext]_deviceVars
  BY DEF MembersNext, Only, membersVars
<1>14. [PreferenceNext]_preferenceVars
  BY DEF MembersNext, Only, membersVars
<1>15. [FoundNext]_foundVars
  BY DEF MembersNext, Only, membersVars
<1>16. [MediaNext]_mediaVars
  BY DEF MembersNext, Only, membersVars
<1> QED BY <1>1, <1>2, <1>3, <1>4, <1>5, <1>6, <1>7, <1>8, <1>9, <1>10, <1>11, <1>12, <1>13, <1>14, <1>15, <1>16

\* The composition implements each of its parts: what is proved of a part holds of
\* whatever the composition does.
THEOREM MembersAreParts ==
    MembersSpec =>
      /\ SponsorSpec
      /\ AdSpec
      /\ DeletionSpec
      /\ SessionSpec
      /\ RoleSpec
      /\ SubscriptionSpec
      /\ PayoutMethodSpec
      /\ KeySpec
      /\ ErasureSpec
      /\ SignupSpec
      /\ CodeSpec
      /\ PinSpec
      /\ DeviceSpec
      /\ PreferenceSpec
      /\ FoundSpec
      /\ MediaSpec
<1>1. MembersInit =>
      /\ SponsorInit
      /\ AdInit
      /\ DeletionInit
      /\ SessionInit
      /\ RoleInit
      /\ SubscriptionInit
      /\ PayoutMethodInit
      /\ KeyInit
      /\ ErasureInit
      /\ SignupInit
      /\ CodeInit
      /\ PinInit
      /\ DeviceInit
      /\ PreferenceInit
      /\ FoundInit
      /\ MediaInit
  BY DEF MembersInit
<1>2. [MembersNext]_membersVars =>
      /\ [SponsorNext]_sponsorVars
      /\ [AdNext]_adVars
      /\ [DeletionNext]_deletionVars
      /\ [SessionNext]_sessionVars
      /\ [RoleNext]_roleVars
      /\ [SubscriptionNext]_subscriptionVars
      /\ [PayoutMethodNext]_payoutMethodVars
      /\ [KeyNext]_ikVars
      /\ [ErasureNext]_erasureVars
      /\ [SignupNext]_signupVars
      /\ [CodeNext]_codeVars
      /\ [PinNext]_pinVars
      /\ [DeviceNext]_deviceVars
      /\ [PreferenceNext]_preferenceVars
      /\ [FoundNext]_foundVars
      /\ [MediaNext]_mediaVars
  BY MembersStepsAreOfParts
<1> QED BY <1>1, <1>2, PTL DEF MembersSpec, SponsorSpec, AdSpec, DeletionSpec,
       SessionSpec, RoleSpec, SubscriptionSpec, PayoutMethodSpec, KeySpec, ErasureSpec,
       SignupSpec, CodeSpec, PinSpec, DeviceSpec, PreferenceSpec, FoundSpec, MediaSpec

\* The properties that the runs check of the composition.
THEOREM MembersAreSafe ==
    MembersSpec => [](/\ SponsorBooks /\ CancelStands /\ ResetEndsSessions /\ RolesMatchReviews
                      /\ ActiveMatchesStripe /\ AtMostOneDefault /\ NewcomersAddUp
                      /\ TriesAreCounted /\ KeysKept)
BY MembersAreParts, SponsorBooksBalance, CancelsStand, SessionsEnded, RolesFollowReviews,
   SubscriptionsFollowStripe, OneMethodIsDefault, NewcomersStart, TriesCount, KeysAreKept, PTL

\* Users are reached as they asked, their uploads are theirs, and what is advertised
\* adds up, whoever registers, uploads and plays.
THEOREM UsersServed == MembersSpec => []UsersAreServed
<1>1. DeviceSpec => []DeviceInv
  BY DeviceInitial, DeviceStep, PTL DEF DeviceSpec
<1>2. PreferenceSpec => []PreferenceInv
  BY PreferenceInitial, PreferenceStep, PTL DEF PreferenceSpec
<1>3. MediaSpec => []MediaInv
  BY MediaInitial, MediaStep, PTL DEF MediaSpec
<1>4. AdSpec => []AdInv
  BY AdInitial, AdStep, PTL DEF AdSpec
<1>5. FoundSpec => []FoundInv
  BY FoundInitial, FoundStep, PTL DEF FoundSpec
<1>6. DeviceInv /\ PreferenceInv /\ MediaInv /\ AdInv /\ FoundInv => UsersAreServed
  BY DeviceSafe, PreferenceSafe, AdSafe DEF MediaInv, FoundInv, UsersAreServed, ReachedAsAsked
<1> QED BY <1>1, <1>2, <1>3, <1>4, <1>5, <1>6, MembersAreParts, PTL

\* Whatever is erased and whatever requests insert that had seen it, only the columns of
\* MayDangle name a row that is gone: of every table, through any number of steps.
THEOREM OnlyTheseDangle == MembersSpec => []NothingElseDangles
<1>1. ErasureInv => NothingElseDangles
  BY DEF ErasureInv
<1> QED BY <1>1, ErasureInitial, ErasureStep, MembersAreParts, PTL DEF ErasureSpec

\* Whatever part moves, its variables hold values of their types: for all values of the
\* constants of all parts.
THEOREM MembersTyped == MembersSpec => []MembersTypeOK
<1>1. MembersInit => focus \in Parts
  BY DEF MembersInit
<1>2. focus \in Parts /\ [MembersNext]_membersVars => (focus \in Parts)'
  BY Zenon DEF MembersNext, Only, membersVars
<1>3. AdSpec => []AdTypeOK
  <2>1. AdInv => AdTypeOK
    BY DEF AdInv
  <2> QED BY <2>1, AdInitial, AdStep, PTL DEF AdSpec
<1>4. ErasureSpec => []ErasureTypeOK
  <2>1. ErasureInv => ErasureTypeOK
    BY DEF ErasureInv
  <2> QED BY <2>1, ErasureInitial, ErasureStep, PTL DEF ErasureSpec
<1>5. SignupSpec => []SignupTypeOK
  <2>1. SignupInv => SignupTypeOK
    BY DEF SignupInv
  <2> QED BY <2>1, SignupInitial, SignupStep, PTL DEF SignupSpec
<1>6. CodeSpec => []CodeTypeOK
  <2>1. CodeInv => CodeTypeOK
    BY DEF CodeInv
  <2> QED BY <2>1, CodeInitial, CodeStep, PTL DEF CodeSpec
<1>7. PinSpec => []PinTypeOK
  <2>1. PinInv => PinTypeOK
    BY DEF PinInv
  <2> QED BY <2>1, PinInitial, PinStep, PTL DEF PinSpec
<1>8. DeviceSpec => []DeviceTypeOK
  <2>1. DeviceInv => DeviceTypeOK
    BY DEF DeviceInv
  <2> QED BY <2>1, DeviceInitial, DeviceStep, PTL DEF DeviceSpec
<1>9. PreferenceSpec => []PreferenceTypeOK
  <2>1. PreferenceInv => PreferenceTypeOK
    BY DEF PreferenceInv
  <2> QED BY <2>1, PreferenceInitial, PreferenceStep, PTL DEF PreferenceSpec
<1>10. FoundSpec => []FoundTypeOK
  <2>1. FoundInv => FoundTypeOK
    BY DEF FoundInv
  <2> QED BY <2>1, FoundInitial, FoundStep, PTL DEF FoundSpec
<1>11. MediaSpec => []MediaTypeOK
  <2>1. MediaInv => MediaTypeOK
    BY DEF MediaInv
  <2> QED BY <2>1, MediaInitial, MediaStep, PTL DEF MediaSpec
<1>12.
      /\ focus \in Parts
      /\ SponsorTypeOK
      /\ AdTypeOK
      /\ DeletionTypeOK
      /\ SessionTypeOK
      /\ RoleTypeOK
      /\ SubscriptionTypeOK
      /\ PayoutMethodTypeOK
      /\ KeyTypeOK
      /\ ErasureTypeOK
      /\ SignupTypeOK
      /\ CodeTypeOK
      /\ PinTypeOK
      /\ DeviceTypeOK
      /\ PreferenceTypeOK
      /\ FoundTypeOK
      /\ MediaTypeOK
      => MembersTypeOK
  BY DEF MembersTypeOK
<1> QED BY <1>1, <1>2, <1>3, <1>4, <1>5, <1>6, <1>7, <1>8, <1>9, <1>10, <1>11, <1>12,
        SponsorBooksBalance, CancelsStand, SessionsEnded, RolesFollowReviews,
        SubscriptionsFollowStripe, OneMethodIsDefault, KeysAreTyped, MembersAreParts,
        PTL DEF MembersSpec
=============================================================================
