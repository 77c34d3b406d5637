------------------------------ MODULE Approval ------------------------------
(***************************************************************************)
(* The approval of an artist's concert. The artist, and admins, edit the   *)
(* row; an edit of its content by the artist takes the approval back. An   *)
(* admin reads the list of concerts, and decides on what it showed.        *)
(* Handlers read the row and save the columns they changed, by id: nothing *)
(* says that what they read is still so, nor that the admin saw it.        *)
(*                                                                         *)
(* The review of a report a user filed (ReportSpec) is of the same kind:   *)
(* read, verdict and reviewer saved where they changed, and logged. Any    *)
(* report may be reviewed, and again; its own columns keep the last one.   *)
(***************************************************************************)
EXTENDS Listing, Null

CONSTANTS
    Statuses,       \* of a concert
    ConcertEdits,   \* requests that edit the concert
    ConcertAdmins,  \* admins, each with one review at a time
    UserReports,    \* account, live and competition reports
    Moderators,     \* who reviews them, one at a time each
    Verdicts        \* the statuses of a review

ASSUME ApprovalAssumption ==
    /\ {"upcoming", "live"} \subseteq Statuses
    /\ NULL \notin Statuses \cup {"this", "older"}
    /\ NULL \notin [approval : {"pending", "approved", "rejected"}, status : Statuses]

VARIABLES
    caConcert,      \* the row: its approval_status and status; or NULL
    caEdit,         \* updateArtistConcert between its findByPk and its save: the approval
                    \* it read, and what it is about to save
    caReview,       \* what an admin saw in the list: the content there is, or an older
                    \* one; and reviewArtistConcert between its findByPk and its save
    \* history, of the content there is:
    caVetted,       \* approved by an admin who saw it, written by an admin, or made
                    \* when none had to approve
    caOnAir,        \* saved while, or together with, the concert's going live
    caRaced         \* saved, or put on air, over an approval other than the one read; or
                    \* approved by an admin who had seen an older one

approvalVars == <<caConcert, caEdit, caReview, caVetted, caOnAir, caRaced>>

Approvals == {"pending", "approved", "rejected"}
ConcertRow == [approval : Approvals, status : Statuses]
\* What updateArtistConcertSchema lets through, of what matters here.
Patches == [content : BOOLEAN, status : Statuses \cup {NULL}]

NoConcertEdit == [read |-> NULL, content |-> FALSE, status |-> NULL, admin |-> FALSE]
NoReview == [saw |-> NULL, read |-> NULL, approve |-> FALSE]

ApprovalTypeOK ==
    /\ caConcert \in ConcertRow \cup {NULL}
    /\ caEdit \in [ConcertEdits -> {NoConcertEdit} \cup
                     [read : Approvals, content : BOOLEAN,
                      status : Statuses \cup {NULL}, admin : BOOLEAN]]
    /\ caReview \in [ConcertAdmins -> [saw : {"this", "older", NULL},
                       read : Approvals \cup {NULL}, approve : BOOLEAN]]
    /\ {caVetted, caOnAir, caRaced} \subseteq BOOLEAN

ApprovalInit ==
    /\ caConcert = NULL
    /\ caEdit = [e \in ConcertEdits |-> NoConcertEdit]
    /\ caReview = [a \in ConcertAdmins |-> NoReview]
    /\ caVetted = FALSE /\ caOnAir = FALSE /\ caRaced = FALSE

\* Whoever has seen the concert has seen another content now.
SeenBefore ==
    [a \in ConcertAdmins |->
       [caReview[a] EXCEPT !.saw = IF @ = NULL THEN NULL ELSE "older"]]

-----------------------------------------------------------------------------
\* createArtistConcert: 'required' is what concert_approval_config says at the time.
CreateArtistConcert(required) ==
    /\ caConcert = NULL
    /\ caConcert' = [status |-> "upcoming",
                     approval |-> IF required THEN "pending" ELSE "approved"]
    /\ caVetted' = ~required
    /\ UNCHANGED <<caEdit, caReview, caOnAir, caRaced>>

\* mutant: going live needs no approval
AnyMayGoLive(row, patch) == TRUE
\* CONCERT_NOT_APPROVED.
MayGoLive(row, patch) == patch.status = "live" => row.approval = "approved"

\* updateArtistConcert: findByPk and the checks. A status that is there already is
\* no change to save.
EditReads(e) ==
    /\ caEdit[e] = NoConcertEdit /\ caConcert # NULL
    /\ \E patch \in Patches, admin \in BOOLEAN :
         /\ MayGoLive(caConcert, patch)
         /\ caEdit' = [caEdit EXCEPT ![e] =
              [read |-> caConcert.approval, content |-> patch.content, admin |-> admin,
               status |-> IF patch.status = caConcert.status THEN NULL
                                                             ELSE patch.status]]
    /\ UNCHANGED <<caConcert, caReview, caVetted, caOnAir, caRaced>>

\* mutant: an edit leaves the approval as it is
ApprovalKept(edit) == edit.read
\* "A non-admin editing content re-enters the approval queue".
ApprovalAfter(edit) ==
    IF edit.content /\ ~edit.admin /\ edit.read = "approved" THEN "pending" ELSE edit.read

\* An UPDATE by id writes the columns that differ from what was read.
Over(value, read, new) == IF new = read THEN value ELSE new

\* save, and what the new status starts or stops (Competition).
EditSaves(e) ==
    /\ caEdit[e] # NoConcertEdit
    /\ LET edit == caEdit[e]
           raced == caConcert.approval # edit.read
       IN  /\ caConcert' =
                 [approval |-> Over(caConcert.approval, edit.read, ApprovalAfter(edit)),
                  status |-> Over(caConcert.status, NULL, edit.status)]
           /\ IF edit.content
                THEN /\ caReview' = SeenBefore
                     /\ caVetted' = edit.admin
                     /\ caOnAir' = (caConcert'.status = "live")
                     /\ caRaced' = raced
                ELSE /\ caRaced' = (caRaced \/ raced)
                     /\ UNCHANGED <<caReview, caVetted, caOnAir>>
    /\ caEdit' = [caEdit EXCEPT ![e] = NoConcertEdit]

\* The save fails, or the process stops.
EditFails(e) ==
    /\ caEdit[e] # NoConcertEdit
    /\ caEdit' = [caEdit EXCEPT ![e] = NoConcertEdit]
    /\ UNCHANGED <<caConcert, caReview, caVetted, caOnAir, caRaced>>

-----------------------------------------------------------------------------
\* listArtistConcerts: an admin sees what there is to approve.
Look(a) ==
    /\ caReview[a] = NoReview /\ caConcert # NULL
    /\ caReview' = [caReview EXCEPT ![a].saw = "this"]
    /\ UNCHANGED <<caConcert, caEdit, caVetted, caOnAir, caRaced>>

\* reviewArtistConcert: findByPk, in whatever state the concert is.
ReviewReads(a, approve) ==
    /\ caReview[a].saw # NULL /\ caReview[a].read = NULL
    /\ caReview' = [caReview EXCEPT ![a].read = caConcert.approval, ![a].approve = approve]
    /\ UNCHANGED <<caConcert, caEdit, caVetted, caOnAir, caRaced>>

ReviewSaves(a) ==
    /\ caReview[a].read # NULL
    /\ LET review == caReview[a]
           verdict == IF review.approve THEN "approved" ELSE "rejected"
       IN  /\ caConcert' = [caConcert EXCEPT !.approval = Over(@, review.read, verdict)]
           /\ caVetted' = (caVetted \/ (review.approve /\ review.saw = "this"))
           /\ caRaced' = (caRaced \/ (review.approve /\ review.saw = "older"))
    /\ caReview' = [caReview EXCEPT ![a] = NoReview]
    /\ UNCHANGED <<caEdit, caOnAir>>

\* The admin leaves it, or the save fails.
ReviewEnds(a) ==
    /\ caReview[a] # NoReview
    /\ caReview' = [caReview EXCEPT ![a] = NoReview]
    /\ UNCHANGED <<caConcert, caEdit, caVetted, caOnAir, caRaced>>

ApprovalNext ==
    \/ \E required \in BOOLEAN : CreateArtistConcert(required)
    \/ \E e \in ConcertEdits : EditReads(e) \/ EditSaves(e) \/ EditFails(e)
    \/ \E a \in ConcertAdmins :
         \/ Look(a) \/ ReviewSaves(a) \/ ReviewEnds(a)
         \/ \E approve \in BOOLEAN : ReviewReads(a, approve)

ApprovalSpec == ApprovalInit /\ [][ApprovalNext]_approvalVars

-----------------------------------------------------------------------------
(* Reports.                                                                *)

VARIABLES
    rpReport,       \* status and reviewed_by of each, or NULL
    rpHand,         \* the review of each moderator: the row he read, and his verdict
    rpLog,          \* admin_logs: the reviews
    \* history:
    rpUnlogged,     \* reports a review of which failed to be logged, since the last save
    rpMixed         \* reports last saved over a review made since they were read

reportVars == <<rpReport, rpHand, rpLog, rpUnlogged, rpMixed>>

ReportRow == [status : Verdicts \cup {"pending"}, by : Moderators \cup {NULL}]
ReviewMade == [report : UserReports, by : Moderators, status : Verdicts]
Idle == [at |-> "idle", report |-> NULL, row |-> NULL, to |-> NULL]

ReportTypeOK ==
    /\ rpReport \in [UserReports -> ReportRow \cup {NULL}]
    /\ rpHand \in [Moderators -> {Idle} \cup
                     [at : {"read", "saved"}, report : UserReports, row : ReportRow,
                      to : Verdicts]]
    /\ rpLog \subseteq ReviewMade
    /\ rpUnlogged \subseteq UserReports /\ rpMixed \subseteq UserReports

ReportInit ==
    /\ rpReport = [r \in UserReports |-> NULL] /\ rpHand = [m \in Moderators |-> Idle]
    /\ rpLog = {} /\ rpUnlogged = {} /\ rpMixed = {}

\* createReport.
FileReport(r) ==
    /\ rpReport[r] = NULL
    /\ rpReport' = [rpReport EXCEPT ![r] = [status |-> "pending", by |-> NULL]]
    /\ UNCHANGED <<rpHand, rpLog, rpUnlogged, rpMixed>>

\* reviewReport: findByPk ...
ReadReport(m, r, to) ==
    /\ rpHand[m] = Idle /\ rpReport[r] # NULL
    /\ rpHand' = [rpHand EXCEPT ![m] =
         [at |-> "read", report |-> r, row |-> rpReport[r], to |-> to]]
    /\ UNCHANGED <<rpReport, rpLog, rpUnlogged, rpMixed>>

\* mutant: who reviewed it first stays
FirstReviewer(m, row) ==
    [status |-> rpHand[m].to, by |-> IF row.by = NULL THEN m ELSE row.by]
\* The row with what the review changed of what it read.
Reviewed(m, row) ==
    LET read == rpHand[m].row IN
    [status |-> IF rpHand[m].to = read.status THEN row.status ELSE rpHand[m].to,
     by     |-> IF m = read.by THEN row.by ELSE m]

\* ... save ...
SaveReport(m) ==
    LET r == rpHand[m].report IN
    /\ rpHand[m].at = "read"
    /\ rpReport' = [rpReport EXCEPT ![r] = Reviewed(m, @)]
    /\ rpMixed' = IF rpReport[r] = rpHand[m].row THEN rpMixed \ {r} ELSE rpMixed \cup {r}
    /\ rpUnlogged' = rpUnlogged \ {r}
    /\ rpHand' = [rpHand EXCEPT ![m].at = "saved"]
    /\ UNCHANGED rpLog

\* ... and logAdminAction, which swallows what fails.
LogReview(m) ==
    LET made == [report |-> rpHand[m].report, by |-> m, status |-> rpHand[m].to] IN
    /\ rpHand[m].at = "saved"
    /\ \/ rpLog' = rpLog \cup {made} /\ UNCHANGED rpUnlogged
       \/ rpUnlogged' = rpUnlogged \cup {made.report} /\ UNCHANGED rpLog
    /\ rpHand' = [rpHand EXCEPT ![m] = Idle]
    /\ UNCHANGED <<rpReport, rpMixed>>

\* A failing query, or a crash.
ReviewOfReportFails(m) ==
    /\ rpHand[m].at = "read"
    /\ rpHand' = [rpHand EXCEPT ![m] = Idle]
    /\ UNCHANGED <<rpReport, rpLog, rpUnlogged, rpMixed>>

ReportNext ==
    \/ \E r \in UserReports : FileReport(r)
    \/ \E m \in Moderators :
         \/ \E r \in UserReports, to \in Verdicts : ReadReport(m, r, to)
         \/ SaveReport(m) \/ LogReview(m) \/ ReviewOfReportFails(m)

ReportSpec == ReportInit /\ [][ReportNext]_reportVars

-----------------------------------------------------------------------------
(* Properties.                                                             *)

\* What stands approved, or is on air, was approved by an admin who had seen it, or
\* needed none, unless an edit met an approval it had not read, or came between an
\* admin's look and decision; on air also unless the artist edited the concert while
\* it was live, or with the very request that put it on air.
Vetted ==
    caConcert # NULL =>
      /\ caConcert.approval = "approved" => caVetted \/ caRaced
      /\ caConcert.status = "live" => caVetted \/ caRaced \/ caOnAir

\* The lists of events show what was approved, and all of it, once.
AudienceSeesApproved == Vetted /\ ListedOnce

\* The verdict of a report and the moderator next to it are of one review, which is
\* in the log or about to be, unless a failure kept one out of it, or the row was
\* saved over a review made since it was read.
VerdictsAreLogged ==
    \A r \in UserReports \ (rpMixed \cup rpUnlogged) :
      rpReport[r] # NULL /\ rpReport[r].status # "pending" =>
        LET shown == [report |-> r, by |-> rpReport[r].by, status |-> rpReport[r].status] IN
        \/ shown \in rpLog
        \/ \E m \in Moderators :
             rpHand[m].at = "saved" /\ shown = [report |-> rpHand[m].report, by |-> m,
                                                status |-> rpHand[m].to]
=============================================================================
