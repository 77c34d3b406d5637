----------------------------- MODULE Reminders -----------------------------
(***************************************************************************)
(* sendEventReminders: every five minutes, the holders of tickets of the   *)
(* events that start within thirty minutes are told. For a concert, a row  *)
(* of concert_reminders with sent = true is looked for, and made, before   *)
(* each notice; for a competition there is no such row. The same table has *)
(* the reminders users set and remove for themselves.                      *)
(***************************************************************************)
EXTENDS Integers, FiniteSets, Null

CONSTANTS
    Tickets,        \* of one concert, and of one competition
    Viewers,        \* users
    Holder          \* [Tickets -> Viewers]; a user may have several

ASSUME ReminderAssumption == Holder \in [Tickets -> Viewers]

VARIABLES
    rmSent,         \* users with a row of the concert with sent = true
    rmOwn,          \* users with a row they set themselves
    rmTold,         \* how often each user was told of the concert, up to 2
    rmToldComp,     \* and of the competition
    rmSoon,         \* both start within thirty minutes
    rmJob,          \* where the job is: its phase, the tickets left, the ticket in hand
    \* history:
    rmRemoved       \* users who removed their reminder

reminderVars == <<rmSent, rmOwn, rmTold, rmToldComp, rmSoon, rmJob, rmRemoved>>

NoRun == [at |-> "idle", left |-> {}, now |-> NULL]

ReminderTypeOK ==
    /\ rmSent \subseteq Viewers /\ rmOwn \subseteq Viewers /\ rmRemoved \subseteq Viewers
    /\ rmTold \in [Viewers -> 0..2] /\ rmToldComp \in [Viewers -> 0..2]
    /\ rmSoon \in BOOLEAN
    /\ rmJob \in [at : {"idle", "concert", "checked", "recorded", "competition"},
                  left : SUBSET Tickets, now : Tickets \cup {NULL}]

ReminderInit ==
    /\ rmSent = {} /\ rmOwn = {} /\ rmRemoved = {}
    /\ rmTold = [u \in Viewers |-> 0] /\ rmToldComp = [u \in Viewers |-> 0]
    /\ rmSoon = TRUE
    /\ rmJob = NoRun

Told(count, u) == [count EXCEPT ![u] = IF @ = 2 THEN 2 ELSE @ + 1]

\* mutant: the notice comes before the row
NoticeFirst == <<"notice", "row">>
\* What the job does for a ticket whose holder was not told yet.
Steps == <<"row", "notice">>

WriteRow(u) == rmSent' = rmSent \cup {u} /\ UNCHANGED rmTold
Notify(u) == rmTold' = Told(rmTold, u) /\ UNCHANGED rmSent

-----------------------------------------------------------------------------
\* setReminder: findOrCreate on concert and user; the job's row will do.
SetReminder(u) ==
    /\ rmOwn' = IF u \in rmSent THEN rmOwn ELSE rmOwn \cup {u}
    /\ UNCHANGED <<rmSent, rmTold, rmToldComp, rmSoon, rmJob, rmRemoved>>

\* removeReminder destroys every row of the user, the job's too.
RemoveReminder(u) ==
    /\ rmOwn' = rmOwn \ {u} /\ rmSent' = rmSent \ {u}
    /\ rmRemoved' = rmRemoved \cup {u}
    /\ UNCHANGED <<rmTold, rmToldComp, rmSoon, rmJob>>

\* The concerts that start soon, and the tickets of the one.
JobStarts ==
    /\ rmJob = NoRun /\ rmSoon
    /\ rmJob' = [at |-> "concert", left |-> Tickets, now |-> NULL]
    /\ UNCHANGED <<rmSent, rmOwn, rmTold, rmToldComp, rmSoon, rmRemoved>>

\* findOne: a ticket whose holder has a sent row is skipped.
CheckTicket(t) ==
    /\ rmJob.at = "concert" /\ t \in rmJob.left
    /\ rmJob' = IF Holder[t] \in rmSent
                  THEN [rmJob EXCEPT !.left = @ \ {t}]
                  ELSE [rmJob EXCEPT !.at = "checked", !.now = t]
    /\ UNCHANGED <<rmSent, rmOwn, rmTold, rmToldComp, rmSoon, rmRemoved>>

Perform(step, u) == IF step = "row" THEN WriteRow(u) ELSE Notify(u)

\* ConcertReminder.create.
FirstStep ==
    /\ rmJob.at = "checked"
    /\ Perform(Steps[1], Holder[rmJob.now])
    /\ rmJob' = [rmJob EXCEPT !.at = "recorded"]
    /\ UNCHANGED <<rmOwn, rmToldComp, rmSoon, rmRemoved>>

\* notifyUser.
SecondStep ==
    /\ rmJob.at = "recorded"
    /\ Perform(Steps[2], Holder[rmJob.now])
    /\ rmJob' = [at |-> "concert", left |-> rmJob.left \ {rmJob.now}, now |-> NULL]
    /\ UNCHANGED <<rmOwn, rmToldComp, rmSoon, rmRemoved>>

\* The competition's turn.
ConcertDone ==
    /\ rmJob.at = "concert" /\ rmJob.left = {}
    /\ rmJob' = [at |-> "competition", left |-> Tickets, now |-> NULL]
    /\ UNCHANGED <<rmSent, rmOwn, rmTold, rmToldComp, rmSoon, rmRemoved>>

NotifyCompetition(t) ==
    /\ rmJob.at = "competition" /\ t \in rmJob.left
    /\ rmToldComp' = Told(rmToldComp, Holder[t])
    /\ rmJob' = [rmJob EXCEPT !.left = @ \ {t}]
    /\ UNCHANGED <<rmSent, rmOwn, rmTold, rmSoon, rmRemoved>>

JobEnds ==
    /\ rmJob.at = "competition" /\ rmJob.left = {}
    /\ rmJob' = NoRun
    /\ UNCHANGED <<rmSent, rmOwn, rmTold, rmToldComp, rmSoon, rmRemoved>>

\* A query fails, or the process stops: the run is over.
JobFails ==
    /\ rmJob # NoRun
    /\ rmJob' = NoRun
    /\ UNCHANGED <<rmSent, rmOwn, rmTold, rmToldComp, rmSoon, rmRemoved>>

EventsStart ==
    /\ rmSoon
    /\ rmSoon' = FALSE
    /\ UNCHANGED <<rmSent, rmOwn, rmTold, rmToldComp, rmJob, rmRemoved>>

ReminderNext ==
    \/ \E u \in Viewers : SetReminder(u) \/ RemoveReminder(u)
    \/ \E t \in Tickets : CheckTicket(t) \/ NotifyCompetition(t)
    \/ JobStarts \/ FirstStep \/ SecondStep \/ ConcertDone \/ JobEnds \/ JobFails
    \/ EventsStart

ReminderSpec == ReminderInit /\ [][ReminderNext]_reminderVars

-----------------------------------------------------------------------------
(* Properties.                                                             *)

\* A holder is told of the concert once at most, however many tickets they have,
\* however often the job runs and wherever a run breaks off, unless they removed
\* their reminder.
ToldOnce == \A u \in Viewers \ rmRemoved : rmTold[u] =< 1
=============================================================================
