----------------------------- MODULE Recording -----------------------------
(***************************************************************************)
(* Server-side recordings: a row of stream_recordings for each recording,  *)
(* a LiveKit egress that films the room, and a replay made of each egress  *)
(* that completes. Starts and stops are called without await when an event *)
(* goes live or ends, by the recording button, and by setPerformer; the    *)
(* end of an egress is told by a webhook, which can be lost, repeated or   *)
(* early, and is looked for by a job every five minutes.                   *)
(*                                                                         *)
(* An egress has the number of the row it was started for; rows are        *)
(* numbered as they are inserted.                                          *)
(***************************************************************************)
EXTENDS Integers, FiniteSets

CONSTANTS
    Sources,       \* events with recording on: (source_type, source_id)
    NoSource,      \* of a row that does not exist
    Starters,      \* requests that call startRecording, without await
    Stoppers,      \* requests that call stopRecording; some do both
    Source,        \* [Callers -> Sources]
    MaxRows,       \* recordings the model makes room for
    Hooks,         \* webhook requests in flight
    MaxFaults,     \* failing saves, failing calls of LiveKit and crashes
    Job            \* the run of reconcileRecordings; runJob starts no second one

Recs == 1..MaxRows
Callers == Starters \cup Stoppers
Finalizers == Hooks \cup {Job}
StartersOf(src) == {c \in Starters : Source[c] = src}

ASSUME RecordingAssumption ==
    /\ Source \in [Callers -> Sources] /\ NoSource \notin Sources
    /\ IsFiniteSet(Starters)
    /\ MaxRows \in Nat /\ MaxFaults \in Nat
    /\ Job \notin Hooks

VARIABLES
    status,     \* stream_recordings.status, "none" before the row exists
    source,     \* whose recording the row is, once it exists
    linked,     \* egress_id is not NULL
    egress,     \* LiveKit's side: none, running, ending, complete or failed
    replays,    \* how many replay_videos were made of the recording
    caller,     \* where each call of start or stop is, and on which row
    final,      \* where each call of finalizeFromEgress is
    job,        \* where the job is, and the rows it has still to look at
    faults,
    \* history:
    lost,       \* rows that never learnt of their egress, by a fault
    disturbed   \* rows two handlers had in hand at once, or one left half done

vars == <<status, source, linked, egress, replays, caller, final, job,
          faults, lost, disturbed>>
rows == <<status, source, linked, egress, replays>>
history == <<lost, disturbed>>

Idle == [at |-> "idle", rec |-> 0]
Busy(stages) == [at: stages, rec: Recs]
Statuses == {"none", "pending", "active", "stopping", "completed", "failed"}
CallerStates == {Idle, [at |-> "checked", rec |-> 0]}
                \cup Busy({"created", "launched", "found", "marked"})
FinalStates == {Idle} \cup Busy({"read", "replayed"})

Init ==
    /\ status = [r \in Recs |-> "none"]
    /\ source = [r \in Recs |-> NoSource]
    /\ linked = [r \in Recs |-> FALSE]
    /\ egress = [r \in Recs |-> "none"]
    /\ replays = [r \in Recs |-> 0]
    /\ caller = [c \in Callers |-> Idle]
    /\ final = [f \in Finalizers |-> Idle]
    /\ job = [at |-> "idle", todo |-> {}]
    /\ faults = 0
    /\ lost = {}
    /\ disturbed = {}

-----------------------------------------------------------------------------
(* Helpers.                                                                *)

Open(r) == status[r] \in {"pending", "active"}
OpenOf(src) == {r \in Recs : source[r] = src /\ Open(r)}

\* mutant: findOne looks for active rows only
NothingActive(src) == \A r \in OpenOf(src) : status[r] # "active"
\* No recording of src is under way: what startRecording checks.
NothingOpen(src) == OpenOf(src) = {}

\* mutant: a row without its egress id is not left alone
StopTargetUnlinked(r, src) == r \in OpenOf(src)
\* What stopRecording may find and does not leave alone. It asks for the latest
\* row; created_at counts seconds, so of rows opened together it may be any.
StopTarget(r, src) == r \in OpenOf(src) /\ linked[r]

\* mutant: the status is saved, the egress id is not
LearnsNothing(r) == linked
\* The row takes the id of the egress started for it.
LearnsEgress(r) == [linked EXCEPT ![r] = TRUE]

\* mutant: every row that is not active yet or any more
NotActive == {r \in Recs : status[r] \notin {"none", "active", "stopping"}}
\* The rows the job may find stale; the ten minutes are left to chance.
Pending == {r \in Recs : status[r] = "pending"}

\* mutant: the job asks for the active rows only
ActiveOnly == {r \in Recs : status[r] = "active" /\ linked[r]}
\* The rows whose egress the job asks LiveKit about.
Unfinished == {r \in Recs : status[r] \in {"active", "stopping"} /\ linked[r]}

\* mutant: any end of the egress will do
EndedSomehow(r) == egress[r] \in {"complete", "failed"}
\* LiveKit tells EGRESS_COMPLETE.
Complete(r) == egress[r] = "complete"

\* mutant: a completed row is finalized again
ToFinalizeAny(r) == linked[r]
\* The row of the egress is known and not completed.
ToFinalize(r) == linked[r] /\ status[r] # "completed"

\* LiveKit does not list the egress any more, 12 hours after its start. It keeps
\* an egress far longer than a job run takes: no webhook of it is at work.
Forgotten(r) ==
    /\ egress[r] = "complete" /\ status[r] # "completed"
    /\ \A f \in Finalizers : final[f].rec # r

\* A handler that will write the row, or make a replay of it, without looking again.
InHand(r) ==
    \/ \E c \in Callers : caller[c].at \in {"created", "launched", "found"}
                          /\ caller[c].rec = r
    \/ \E f \in Finalizers : final[f].rec = r
    \/ job.at = "stale" /\ r \in job.todo

TakeInHand(S) == disturbed' = disturbed \cup {r \in S : InHand(r)}

Fault == faults < MaxFaults /\ faults' = faults + 1

CallerTo(c, stage, r) == caller' = [caller EXCEPT ![c] = [at |-> stage, rec |-> r]]
FinalTo(f, stage, r) == final' = [final EXCEPT ![f] = [at |-> stage, rec |-> r]]

-----------------------------------------------------------------------------
(* startRecording.                                                         *)

\* findOne: nothing pending or active, or the call ends here.
Check(c) ==
    /\ caller[c] = Idle
    /\ NothingOpen(Source[c])
    /\ CallerTo(c, "checked", 0)
    /\ UNCHANGED <<rows, final, job, faults, history>>

\* StreamRecording.create, without a unique key.
Create(c, r) ==
    /\ caller[c].at = "checked"
    /\ status[r] = "none" /\ \A q \in Recs : q < r => status[q] # "none"
    /\ status' = [status EXCEPT ![r] = "pending"]
    /\ source' = [source EXCEPT ![r] = Source[c]]
    /\ CallerTo(c, "created", r)
    /\ UNCHANGED <<linked, egress, replays, final, job, faults, history>>

\* startRoomCompositeEgress succeeds.
Launch(c) ==
    /\ caller[c].at = "created"
    /\ egress' = [egress EXCEPT ![caller[c].rec] = "running"]
    /\ CallerTo(c, "launched", caller[c].rec)
    /\ UNCHANGED <<status, source, linked, replays, final, job, faults, history>>

\* rec.save(): 'active' and the egress id, whatever the row says by now.
SaveActive(c) ==
    /\ caller[c].at = "launched"
    /\ status' = [status EXCEPT ![caller[c].rec] = "active"]
    /\ linked' = LearnsEgress(caller[c].rec)
    /\ CallerTo(c, "idle", 0)
    /\ UNCHANGED <<source, egress, replays, final, job, faults, history>>

\* An error of create, of LiveKit (which may have started the egress all the
\* same) or of the save: every pending row of the source is marked failed, or
\* that update fails too. The call ends quietly.
StartFails(c) ==
    /\ Fault
    /\ \/ caller[c].at \in {"checked", "created", "launched"} /\ UNCHANGED egress
       \/ /\ caller[c].at = "created"
          /\ egress' = [egress EXCEPT ![caller[c].rec] = "running"]
    /\ \/ status' = [r \in Recs |-> IF source[r] = Source[c] /\ status[r] = "pending"
                                    THEN "failed" ELSE status[r]]
       \/ status' = status
    /\ lost' = lost \cup {r \in Recs : r = caller[c].rec /\ egress'[r] # "none"}
    /\ CallerTo(c, "idle", 0)
    /\ UNCHANGED <<source, linked, replays, final, job, disturbed>>

-----------------------------------------------------------------------------
(* stopRecording.                                                          *)

FindToStop(c, r) ==
    /\ caller[c] = Idle
    /\ StopTarget(r, Source[c])
    /\ TakeInHand({r})
    /\ CallerTo(c, "found", r)
    /\ UNCHANGED <<rows, final, job, faults, lost>>

\* rec.save() of 'stopping'; the call goes on when it fails.
MarkStopping(c) ==
    /\ caller[c].at = "found"
    /\ \/ /\ status' = [status EXCEPT ![caller[c].rec] = "stopping"]
          /\ UNCHANGED faults
       \/ Fault /\ UNCHANGED status
    /\ CallerTo(c, "marked", caller[c].rec)
    /\ UNCHANGED <<source, linked, egress, replays, final, job, history>>

\* stopEgress: LiveKit ends the egress, or the call fails and is only logged.
StopEgress(c) ==
    /\ caller[c].at = "marked"
    /\ \/ /\ egress' = [egress EXCEPT ![caller[c].rec] =
                            IF @ = "running" THEN "ending" ELSE @]
          /\ UNCHANGED faults
       \/ Fault /\ UNCHANGED egress
    /\ CallerTo(c, "idle", 0)
    /\ UNCHANGED <<status, source, linked, replays, final, job, history>>

-----------------------------------------------------------------------------
(* LiveKit: an egress ends when it is stopped, when the room is empty, or  *)
(* by a failure.                                                           *)

EgressEnds(r) ==
    /\ egress[r] \in {"running", "ending"}
    /\ \E outcome \in {"complete", "failed"} : egress' = [egress EXCEPT ![r] = outcome]
    /\ UNCHANGED <<status, source, linked, replays, caller, final, job, faults, history>>

-----------------------------------------------------------------------------
(* finalizeFromEgress, for the webhook and for the job.                    *)

\* A webhook with status COMPLETE; the answer is 200 whatever happens.
HookComplete(h, r) ==
    /\ Complete(r)
    /\ final[h] = Idle
    /\ IF ToFinalize(r)
       THEN /\ TakeInHand({r})
            /\ FinalTo(h, "read", r)
       ELSE UNCHANGED <<final, disturbed>>
    /\ UNCHANGED <<rows, caller, job, faults, lost>>

\* A webhook with status FAILED or ABORTED: one UPDATE by egress id.
HookFailed(r) ==
    /\ egress[r] = "failed"
    /\ status' = [status EXCEPT ![r] = IF linked[r] THEN "failed" ELSE @]
    /\ UNCHANGED <<source, linked, egress, replays, caller, final, job, faults, history>>

MakeReplay(f) ==
    /\ final[f].at = "read"
    /\ replays' = [replays EXCEPT ![final[f].rec] = @ + 1]
    /\ FinalTo(f, "replayed", final[f].rec)
    /\ UNCHANGED <<status, source, linked, egress, caller, job, faults, history>>

\* rec.save() of 'completed' and the replay id.
Finish(f) ==
    /\ final[f].at = "replayed"
    /\ status' = [status EXCEPT ![final[f].rec] = "completed"]
    /\ FinalTo(f, "idle", 0)
    /\ UNCHANGED <<source, linked, egress, replays, caller, job, faults, history>>

\* createReplay or the save fails: the row is marked failed, or not even that.
FinalizeFails(f) ==
    /\ Fault
    /\ final[f] # Idle
    /\ \/ status' = [status EXCEPT ![final[f].rec] = "failed"]
       \/ UNCHANGED status
    /\ disturbed' = IF final[f].at = "replayed" THEN disturbed \cup {final[f].rec}
                                                ELSE disturbed
    /\ FinalTo(f, "idle", 0)
    /\ UNCHANGED <<source, linked, egress, replays, caller, job, lost>>

-----------------------------------------------------------------------------
(* reconcileRecordings.                                                    *)

\* The pending rows that are older than ten minutes.
JobFindStale(S) ==
    /\ job.at = "idle"
    /\ TakeInHand(S)
    /\ job' = [at |-> "stale", todo |-> S]
    /\ UNCHANGED <<rows, caller, final, faults, lost>>

\* r.save() of 'failed', whatever the row says by now; or it fails.
JobFailStale(r) ==
    /\ job.at = "stale" /\ r \in job.todo
    /\ \/ /\ status' = [status EXCEPT ![r] = "failed"]
          /\ UNCHANGED faults
       \/ Fault /\ UNCHANGED status
    /\ job' = [job EXCEPT !.todo = @ \ {r}]
    /\ UNCHANGED <<source, linked, egress, replays, caller, final, history>>

JobFindActive ==
    /\ job.at = "stale" /\ job.todo = {}
    /\ job' = [at |-> "asking", todo |-> Unfinished]
    /\ UNCHANGED <<rows, caller, final, faults, history>>

\* listEgress: a complete egress is finalized, a failed or a forgotten one closes
\* the row, one under way is left for the next run, as is one LiveKit does not
\* answer for.
JobAsk(r) ==
    /\ job.at = "asking" /\ r \in job.todo
    /\ final[Job] = Idle
    /\ \/ /\ Complete(r) /\ ToFinalize(r)
          /\ TakeInHand({r})
          /\ FinalTo(Job, "read", r)
          /\ UNCHANGED <<status, faults>>
       \/ /\ egress[r] = "failed" \/ Forgotten(r)
          /\ status' = [status EXCEPT ![r] = "failed"]
          /\ UNCHANGED <<final, faults, disturbed>>
       \/ /\ \/ egress[r] \in {"running", "ending"}
             \/ Complete(r) /\ ~ToFinalize(r)
          /\ UNCHANGED <<status, final, faults, disturbed>>
       \/ Fault /\ UNCHANGED <<status, final, disturbed>>
    /\ job' = [job EXCEPT !.todo = @ \ {r}]
    /\ UNCHANGED <<source, linked, egress, replays, caller, lost>>

JobEnds ==
    /\ job.at = "asking" /\ job.todo = {} /\ final[Job] = Idle
    /\ job' = [at |-> "idle", todo |-> {}]
    /\ UNCHANGED <<rows, caller, final, faults, history>>

-----------------------------------------------------------------------------
\* The process restarts: what was in flight is gone.
Crash ==
    /\ Fault
    /\ lost' = lost \cup {caller[c].rec : c \in {d \in Callers : caller[d].at = "launched"}}
    /\ disturbed' = disturbed \cup
                    {final[f].rec : f \in {g \in Finalizers : final[g].at = "replayed"}}
    /\ caller' = [c \in Callers |-> Idle]
    /\ final' = [f \in Finalizers |-> Idle]
    /\ job' = [at |-> "idle", todo |-> {}]
    /\ UNCHANGED <<rows>>

StartStep(c) ==
    \/ Check(c) \/ Launch(c) \/ SaveActive(c) \/ StartFails(c)
    \/ \E r \in Recs : Create(c, r)

StopStep(c) ==
    \/ \E r \in Recs : FindToStop(c, r)
    \/ MarkStopping(c) \/ StopEgress(c)

FinalStep(f) == MakeReplay(f) \/ Finish(f) \/ FinalizeFails(f)

JobStep ==
    \/ \E S \in SUBSET Pending : JobFindStale(S)
    \/ \E r \in Recs : JobFailStale(r) \/ JobAsk(r)
    \/ JobFindActive \/ JobEnds
    \/ FinalStep(Job)

Next ==
    \/ \E c \in Starters : StartStep(c)
    \/ \E c \in Stoppers : StopStep(c)
    \/ \E h \in Hooks : FinalStep(h)
    \/ \E h \in Hooks, r \in Recs : HookComplete(h, r)
    \/ \E r \in Recs : HookFailed(r) \/ EgressEnds(r)
    \/ JobStep
    \/ Crash

Spec == Init /\ [][Next]_vars

\* The job is scheduled for ever; LiveKit ends what it was asked to end.
FairSpec ==
    /\ Spec
    /\ WF_vars(JobStep)
    /\ \A r \in Recs : WF_vars(egress[r] = "ending" /\ EgressEnds(r))

-----------------------------------------------------------------------------
(* Properties.                                                             *)

TypeOK ==
    /\ status \in [Recs -> Statuses]
    /\ source \in [Recs -> Sources \cup {NoSource}]
    /\ linked \in [Recs -> BOOLEAN]
    /\ egress \in [Recs -> {"none", "running", "ending", "complete", "failed"}]
    /\ replays \in [Recs -> Nat]
    /\ caller \in [Callers -> CallerStates]
    /\ final \in [Finalizers -> FinalStates]
    /\ job \in [at: {"idle", "stale", "asking"}, todo: SUBSET Recs]
    /\ faults \in 0..MaxFaults
    /\ lost \subseteq Recs
    /\ disturbed \subseteq Recs
    /\ \A r \in Recs : status[r] = "none" <=> source[r] = NoSource
    \* what stopRecording stops has an egress id
    /\ \A c \in Callers : caller[c].at \in {"found", "marked"} => linked[caller[c].rec]

\* The calls of start under way, and the open recordings none of them works on.
Starting(src) == {c \in StartersOf(src) : caller[c].at \in {"checked", "created", "launched"}}
Unattended(src) == {r \in OpenOf(src) : \A c \in Starting(src) : caller[c].rec # r}

\* startRecording is "idempotent per source": the check and the insert are two
\* statements, so calls in flight together can each open a recording, but they
\* and the open recordings never outnumber the calls that can be in flight: one
\* recording at a time if the calls come one at a time.
OpenByRaceOnly ==
    \A src \in Sources :
        Cardinality(Starting(src)) + Cardinality(Unattended(src))
            <= Cardinality(StartersOf(src))

\* A replay is made of an egress that is complete, and a completed recording has
\* one: neither a failure nor a stale write can close a recording without it.
CompletedHasReplay ==
    \A r \in Recs :
        /\ status[r] = "completed" => replays[r] > 0
        /\ replays[r] > 0 => linked[r] /\ egress[r] = "complete"

\* finalizeFromEgress is idempotent for webhooks and job runs that come one
\* after the other: a second replay takes two handlers with the row in hand at
\* once, or one cut short between the replay and the row.
OneReplayUnlessDisturbed == \A r \in Recs : replays[r] > 1 => r \in disturbed

\* Recordings and replays correspond: none completed without its replay, and, but
\* for the disturbed ones, none with two.
ReplaysMatchRecordings == CompletedHasReplay /\ OneReplayUnlessDisturbed

\* An egress that films belongs to a start still at work or to a row that
\* knows it, but for the rows that lost theirs by a fault.
EgressIsKnown ==
    \A r \in Recs :
        egress[r] # "none" =>
            \/ linked[r]
            \/ r \in lost
            \/ \E c \in Callers : caller[c].at = "launched" /\ caller[c].rec = r

\* No egress is out of sight: recordings of an event are open one per call in
\* flight, and each egress is one that a row or a call knows.
EgressAccounted == OpenByRaceOnly /\ EgressIsKnown

\* A recording that is completed stays so, but for the disturbed ones.
CompletedIsFinal ==
    [][\A r \in Recs :
          status[r] = "completed" /\ r \notin disturbed' => status'[r] = "completed"]_vars

\* An egress that has ended, or that a stop has ended, closes its row though no
\* webhook comes.
EndedIsClosed ==
    \A r \in Recs :
        (linked[r] /\ egress[r] \in {"ending", "complete", "failed"})
            ~> status[r] \in {"completed", "failed"}
=============================================================================
