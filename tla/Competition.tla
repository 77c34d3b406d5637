---------------------------- MODULE Competition ----------------------------
(***************************************************************************)
(* A competition from its draft to its final ranking (RankSpec), and its   *)
(* stage (StageSpec).                                                      *)
(*                                                                         *)
(* Artists apply, a manager reviews them, spectators vote and send gifts,  *)
(* and to finalize is one transaction: it reads the approved candidates,   *)
(* sorts them, saves final_rank row by row, and the competition. Votes,    *)
(* reviews and a second finalization are accepted in any status.           *)
(*                                                                         *)
(* A save writes the columns that changed since the row was read, and none *)
(* when nothing changed: a candidate whose rank stays is not written, and  *)
(* not locked.                                                             *)
(***************************************************************************)
EXTENDS Integers, FiniteSets, SequencesExt, Null

-----------------------------------------------------------------------------
(* The ranking.                                                            *)

CONSTANTS
    Candidates,     \* competition_candidates of one competition
    Finalizers,     \* requests that finalize its ranking
    MaxScore        \* votes and gift credits a candidate is given

ASSUME RankingAssumption == IsFiniteSet(Candidates) /\ MaxScore \in Nat

VARIABLES
    cmStatus,       \* competitions.status
    cmCand,         \* competition_candidates.status, "none" before the row
    cmScore,        \* total_votes + total_gifts_credits
    cmRank,         \* final_rank, 0 for NULL
    cmFin,          \* the transaction of each finalizer
    \* history:
    cmLast,         \* the ranking committed last, if it ran alone, or NULL
    cmPassed        \* who had a rank, and was rejected, when cmLast was read

rankVars == <<cmStatus, cmCand, cmScore, cmRank, cmFin, cmLast, cmPassed>>

Phases == {"draft", "published", "live", "finished"}
Ranks == 0..Cardinality(Candidates)
Orders(S) == {s \in [1..Cardinality(S) -> S] : \A j, k \in DOMAIN s : s[j] = s[k] => j = k}
Rankings == UNION {Orders(S) : S \in SUBSET Candidates}

ASSUME NoListIsNull == NULL \notin Rankings

NoRanking ==
    [at |-> "idle", list |-> <<>>, moved |-> {}, next |-> 1, alone |-> TRUE, passed |-> {}]

RankTypeOK ==
    /\ cmStatus \in Phases
    /\ cmCand \in [Candidates -> {"none", "pending", "approved", "rejected"}]
    /\ cmScore \in [Candidates -> 0..MaxScore]
    /\ cmRank \in [Candidates -> Ranks]
    /\ cmFin \in [Finalizers -> [at : {"idle", "ranking"}, list : Rankings,
                                 moved : SUBSET Candidates,
                                 next : 1..Cardinality(Candidates) + 1, alone : BOOLEAN,
                                 passed : SUBSET Candidates]]
    /\ cmLast \in Rankings \cup {NULL}
    /\ cmPassed \subseteq Candidates

RankInit ==
    /\ cmStatus = "draft"
    /\ cmCand = [c \in Candidates |-> "none"]
    /\ cmScore = [c \in Candidates |-> 0]
    /\ cmRank = [c \in Candidates |-> 0]
    /\ cmFin = [f \in Finalizers |-> NoRanking]
    /\ cmLast = <<>> /\ cmPassed = {}

Ranking(f) == cmFin[f].at = "ranking"
\* The candidates f ranks.
Listed(f) == {cmFin[f].list[k] : k \in DOMAIN cmFin[f].list}
\* The rows the transaction of f has written, and holds.
Written(f) == {cmFin[f].list[k] : k \in 1..cmFin[f].next - 1} \cap cmFin[f].moved
LockedRow(c) == \E f \in Finalizers : Ranking(f) /\ c \in Written(f)

\* mutant: the saves are not part of the transaction
RanksSeenAtOnce(f) == [cmRank EXCEPT ![cmFin[f].list[cmFin[f].next]] = cmFin[f].next]
\* What the others see of the rows saved before the commit.
RanksSeen(f) == cmRank

\* The rows of a committed transaction.
RanksCommitted(f) ==
    [c \in Candidates |->
      IF c \in Written(f) THEN CHOOSE k \in DOMAIN cmFin[f].list : cmFin[f].list[k] = c
                         ELSE cmRank[c]]

\* list.sort(...): by score; ties fall as the query returned them.
Sorted(s) == \A j, k \in DOMAIN s : j < k => cmScore[s[j]] >= cmScore[s[k]]

NoneRanks == \A h \in Finalizers : ~Ranking(h)

\* Who has a rank and is not ranked again.
PassedOver == {c \in Candidates : cmCand[c] = "rejected" /\ cmRank[c] # 0}

\* The candidates of s whose rank is not the one their row has.
Moved(s) == {s[k] : k \in {j \in DOMAIN s : cmRank[s[j]] # j}}

-----------------------------------------------------------------------------
\* publishCompetition. A save that comes after another change is an Update.
Publish ==
    /\ cmStatus = "draft"
    /\ cmStatus' = "published"
    /\ UNCHANGED <<cmCand, cmScore, cmRank, cmFin, cmLast, cmPassed>>

\* updateCompetition: a manager may set any status.
Update(s) ==
    /\ cmStatus # s
    /\ cmStatus' = s
    /\ UNCHANGED <<cmCand, cmScore, cmRank, cmFin, cmLast, cmPassed>>

\* closeCompetitions: a live competition past its end.
Close ==
    /\ cmStatus = "live"
    /\ cmStatus' = "finished"
    /\ UNCHANGED <<cmCand, cmScore, cmRank, cmFin, cmLast, cmPassed>>

\* applyToCompetition. Two rows of one artist are two candidates.
Apply(c) ==
    /\ cmStatus \in {"draft", "published"} /\ cmCand[c] = "none"
    /\ cmCand' = [cmCand EXCEPT ![c] = "pending"]
    /\ UNCHANGED <<cmStatus, cmScore, cmRank, cmFin, cmLast, cmPassed>>

\* reviewCandidate: any candidate, at any time.
Review(c, decision) ==
    /\ cmCand[c] \notin {"none", decision} /\ ~LockedRow(c)
    /\ cmCand' = [cmCand EXCEPT ![c] = decision]
    /\ UNCHANGED <<cmStatus, cmScore, cmRank, cmFin, cmLast, cmPassed>>

\* competition_vote, send_competition_gift: the tally of any candidate, at any time.
Support(c) ==
    /\ cmCand[c] # "none" /\ ~LockedRow(c) /\ cmScore[c] < MaxScore
    /\ cmScore' = [cmScore EXCEPT ![c] = @ + 1]
    /\ UNCHANGED <<cmStatus, cmCand, cmRank, cmFin, cmLast, cmPassed>>

\* finalizeRanking: the reads of the transaction, one snapshot, and the sort.
StartRanking(f) ==
    /\ ~Ranking(f)
    /\ \E s \in Orders({c \in Candidates : cmCand[c] = "approved"}) :
         /\ Sorted(s)
         /\ cmFin' = [g \in Finalizers |->
              IF g = f
                THEN [at |-> "ranking", list |-> s, moved |-> Moved(s), next |-> 1,
                      alone |-> NoneRanks, passed |-> IF NoneRanks THEN PassedOver ELSE {}]
                ELSE IF Ranking(g) THEN [cmFin[g] EXCEPT !.alone = FALSE, !.passed = {}]
                ELSE cmFin[g]]
    /\ UNCHANGED <<cmStatus, cmCand, cmScore, cmRank, cmLast, cmPassed>>

\* The save of the next candidate; it waits while another transaction has the row.
SaveRank(f) ==
    /\ Ranking(f) /\ cmFin[f].next \in DOMAIN cmFin[f].list
    /\ IF cmFin[f].list[cmFin[f].next] \in cmFin[f].moved
         THEN /\ ~LockedRow(cmFin[f].list[cmFin[f].next])
              /\ cmRank' = RanksSeen(f)
         ELSE UNCHANGED cmRank
    /\ cmFin' = [cmFin EXCEPT ![f].next = @ + 1]
    /\ UNCHANGED <<cmStatus, cmCand, cmScore, cmLast, cmPassed>>

\* The save of the competition, which writes nothing if it was read as finished,
\* and the commit. The winner is told afterwards.
CommitRanking(f) ==
    /\ Ranking(f) /\ cmFin[f].next = Len(cmFin[f].list) + 1
    /\ cmRank' = RanksCommitted(f)
    /\ cmStatus' \in {"finished", cmStatus}
    /\ cmLast' = IF cmFin[f].alone THEN cmFin[f].list ELSE NULL
    /\ cmPassed' = cmFin[f].passed
    /\ cmFin' = [cmFin EXCEPT ![f] = NoRanking]
    /\ UNCHANGED <<cmCand, cmScore>>

\* A crash, a failing query, or a deadlock with another ranking: rolled back.
AbortRanking(f) ==
    /\ Ranking(f)
    /\ cmFin' = [cmFin EXCEPT ![f] = NoRanking]
    /\ UNCHANGED <<cmStatus, cmCand, cmScore, cmRank, cmLast, cmPassed>>

RankNext ==
    \/ Publish \/ Close
    \/ \E s \in Phases : Update(s)
    \/ \E c \in Candidates :
         \/ Apply(c) \/ Support(c)
         \/ \E d \in {"approved", "rejected"} : Review(c, d)
    \/ \E f \in Finalizers :
         StartRanking(f) \/ SaveRank(f) \/ CommitRanking(f) \/ AbortRanking(f)

RankSpec == RankInit /\ [][RankNext]_rankVars

-----------------------------------------------------------------------------
(* Properties.                                                             *)

\* The rows hold the ranking committed last, all of it, whatever votes, reviews,
\* crashes and later attempts came in between, unless that ranking ran at the same
\* time as another (a row whose rank did not change is not saved, and may take the
\* other's rank). A rank of an earlier one is left only on a candidate who had it and
\* was rejected when that ranking read who is approved: nothing clears it, so somebody
\* else may have the same rank by now.
OneRanking ==
    cmLast # NULL =>
      /\ \A k \in DOMAIN cmLast : cmRank[cmLast[k]] = k
      /\ \A c \in Candidates : cmRank[c] # 0 => c \in Range(cmLast) \cup cmPassed

-----------------------------------------------------------------------------
(* The stage of a competition: the performer a manager sets, and the       *)
(* recording of each performance. setPerformer saves the performer and     *)
(* leaves behind, without awaiting it, a chain that stops the recording of *)
(* the last slot and then starts one for the new performer; finalizing     *)
(* leaves behind a stop. A manager may start and stop by hand as well:     *)
(* such a recording is of no artist. A start does nothing while a          *)
(* recording of the competition is open, or while the admins' mode of      *)
(* competitions is off, as it is until they choose one; a stop takes the   *)
(* latest open one. An egress may end by itself, and its row be given up,  *)
(* at any time.                                                            *)
(*                                                                         *)
(* Module Recording has the steps of one start and one stop; here they are *)
(* their reads and their writes, and a row keeps whose performance it is.  *)
(* Where egress is not configured no start or stop does anything.          *)

CONSTANTS
    Performers,     \* candidates who come on stage
    StageCalls,     \* requests of managers, and the chains they leave behind
    MaxSlots,       \* recordings the model makes room for
    MaxStageFaults  \* failing calls of the database or of LiveKit, and crashes

ASSUME StageAssumption ==
    MaxSlots \in Nat /\ MaxStageFaults \in Nat /\ NULL \notin Performers

VARIABLES
    stPerformer,    \* competitions.current_performer_id
    stSlots,        \* the recordings of the competition, oldest first
    stChain,        \* where the chain of each request is
    stFaults,
    \* history:
    stMuddled,      \* chains overlapped or failed since the stage was last in order
    stDue           \* what was last asked to be recorded, if it was allowed and has not
                    \* ended by itself

stageVars == <<stPerformer, stSlots, stChain, stFaults, stMuddled, stDue>>

\* "closed" is stopping, completed or failed.
SlotStates == {"pending", "active", "closed"}
Slot == [artist : Performers \cup {NULL}, status : SlotStates]
NoChain == [at |-> "idle", slot |-> 0, who |-> NULL, kept |-> FALSE]

StageTypeOK ==
    /\ stPerformer \in Performers \cup {NULL}
    /\ stSlots \in Seq(Slot) /\ Len(stSlots) =< MaxSlots
    /\ stChain \in [StageCalls ->
                     [at : {"idle", "asked", "stop", "found", "start", "checked", "created"},
                      slot : 0..MaxSlots, who : Performers \cup {NULL}, kept : BOOLEAN]]
    /\ stFaults \in 0..MaxStageFaults
    /\ stMuddled \in BOOLEAN /\ stDue \in {"nothing", "performer", "hand"}

StageInit ==
    /\ stPerformer = NULL
    /\ stSlots = <<>>
    /\ stChain = [c \in StageCalls |-> NoChain]
    /\ stFaults = 0
    /\ stMuddled = FALSE /\ stDue = "nothing"

OpenSlots == {k \in DOMAIN stSlots : stSlots[k].status # "closed"}
AllQuiet == \A c \in StageCalls : stChain[c] = NoChain
\* What is open may be on its way out.
Stopping == \E c \in StageCalls : stChain[c].at \in {"stop", "found"}
\* One stop closes what is open.
InOrder == AllQuiet /\ Cardinality(OpenSlots) =< 1
           /\ \A k \in OpenSlots : stSlots[k].status = "active"

Go(c, at, slot) == stChain' = [stChain EXCEPT ![c] = [@ EXCEPT !.at = at, !.slot = slot]]
End(c) == stChain' = [stChain EXCEPT ![c] = NoChain]
SlotTo(k, status) == stSlots' = [stSlots EXCEPT ![k] = [@ EXCEPT !.status = status]]
Fail == stFaults < MaxStageFaults /\ stFaults' = stFaults + 1 /\ stMuddled' = TRUE

\* mutant: the new slot is started before the last one is stopped
StartFirst == <<"start", "stop">>
\* The two halves of a chain.
Halves == <<"stop", "start">>

\* Where a chain goes after one of its halves; a chain for nobody only stops.
After(c, half) ==
    IF half = Halves[1] /\ stChain[c].who # NULL THEN Go(c, Halves[2], 0) ELSE End(c)

-----------------------------------------------------------------------------
\* setPerformer: findByPk. kept: the performer is the one the row has already.
AskPerformer(c, p) ==
    /\ stChain[c] = NoChain
    /\ stChain' = [stChain EXCEPT ![c] =
                     [at |-> "asked", slot |-> 0, who |-> p, kept |-> p = stPerformer]]
    /\ stMuddled' = ~InOrder
    /\ UNCHANGED <<stPerformer, stSlots, stFaults, stDue>>

\* The save, of what changed, the broadcast, and the chain.
SetPerformer(c) ==
    /\ stChain[c].at = "asked"
    /\ stPerformer' = IF stChain[c].kept THEN stPerformer ELSE stChain[c].who
    /\ Go(c, IF stChain[c].who = NULL THEN "stop" ELSE Halves[1], 0)
    /\ stDue' = IF stChain[c].who = NULL THEN "nothing" ELSE "performer"
    /\ UNCHANGED <<stSlots, stFaults, stMuddled>>

\* A stop alone. The performer stays.
StopAlone(c) ==
    /\ stChain[c] = NoChain
    /\ stChain' = [stChain EXCEPT ![c] = [NoChain EXCEPT !.at = "stop"]]
    /\ stMuddled' = ~InOrder
    /\ stDue' = "nothing"
    /\ UNCHANGED <<stPerformer, stSlots, stFaults>>

\* finalizeRanking, after its commit.
FinalizeStage(c) == StopAlone(c)

\* The manager's buttons, POST /recordings/stop and /recordings/start.
StopByHand(c) == StopAlone(c)

StartByHand(c) ==
    /\ stChain[c] = NoChain
    /\ stChain' = [stChain EXCEPT ![c] = [NoChain EXCEPT !.at = "start"]]
    /\ stMuddled' = (stMuddled \/ ~AllQuiet)
    /\ UNCHANGED <<stPerformer, stSlots, stFaults, stDue>>

\* stopRecording: findOne, latest first. A row that has no egress yet is left.
FindSlot(c) ==
    /\ stChain[c].at = "stop"
    /\ LET latest == {k \in OpenSlots : \A j \in OpenSlots : j =< k}
       IN  IF \E k \in latest : stSlots[k].status = "active"
             THEN \E k \in latest : Go(c, "found", k)
             ELSE After(c, "stop")
    /\ UNCHANGED <<stPerformer, stSlots, stFaults, stMuddled, stDue>>

\* It is marked stopping and its egress is stopped.
StopSlot(c) ==
    /\ stChain[c].at = "found"
    /\ SlotTo(stChain[c].slot, "closed")
    /\ After(c, "stop")
    /\ UNCHANGED <<stPerformer, stFaults, stMuddled, stDue>>

\* The query, or the save of the mark, fails, which is ignored.
StopFails(c) ==
    /\ stChain[c].at \in {"stop", "found"}
    /\ Fail
    /\ After(c, "stop")
    /\ UNCHANGED <<stPerformer, stSlots, stDue>>

\* startRecording: the mode of competitions is off, or cannot be read.
StartIsOff(c) ==
    /\ stChain[c].at = "start"
    /\ After(c, "start")
    /\ stDue' = IF OpenSlots = {} THEN "nothing" ELSE stDue
    /\ UNCHANGED <<stPerformer, stSlots, stFaults, stMuddled>>

\* The mode is auto or manual, and nothing of the competition may be open.
CheckSlot(c) ==
    /\ stChain[c].at = "start"
    /\ IF OpenSlots = {}
         THEN /\ Go(c, "checked", 0)
              /\ stDue' = IF stChain[c].who = NULL THEN "hand" ELSE "performer"
         ELSE After(c, "start") /\ UNCHANGED stDue
    /\ UNCHANGED <<stPerformer, stSlots, stFaults, stMuddled>>

NewSlot(c, artist) ==
    /\ stChain[c].at = "checked" /\ Len(stSlots) < MaxSlots
    /\ stSlots' = Append(stSlots, [artist |-> artist, status |-> "pending"])
    /\ Go(c, "created", Len(stSlots) + 1)
    /\ UNCHANGED <<stPerformer, stDue>>

CreateSlot(c) == NewSlot(c, stChain[c].who) /\ UNCHANGED <<stFaults, stMuddled>>

\* The artist of the candidate could not be read.
CreateNameless(c) == NewSlot(c, NULL) /\ Fail

\* The egress runs and the row knows it.
LaunchSlot(c) ==
    /\ stChain[c].at = "created"
    /\ SlotTo(stChain[c].slot, "active")
    /\ After(c, "start")
    /\ UNCHANGED <<stPerformer, stFaults, stMuddled, stDue>>

\* A call of LiveKit or of the database fails: every pending row of the competition
\* is marked failed.
StartFails(c) ==
    /\ stChain[c].at \in {"start", "checked", "created"}
    /\ Fail
    /\ stSlots' = [k \in DOMAIN stSlots |->
                     IF stSlots[k].status = "pending"
                       THEN [stSlots[k] EXCEPT !.status = "closed"] ELSE stSlots[k]]
    /\ After(c, "start")
    /\ UNCHANGED <<stPerformer, stDue>>

\* The webhook of an egress that ended, or reconcileRecordings, saves the row; the
\* job gives up a row that is pending for ten minutes, its start may be under way.
SlotEnds(k) ==
    /\ stSlots[k].status # "closed"
    /\ SlotTo(k, "closed")
    /\ stMuddled' = (stMuddled \/ stSlots[k].status = "pending")
    /\ stDue' = IF Stopping THEN stDue ELSE "nothing"
    /\ UNCHANGED <<stPerformer, stChain, stFaults>>

\* The process stops: the chains are gone.
StageCrash ==
    /\ ~AllQuiet
    /\ Fail
    /\ stChain' = [c \in StageCalls |-> NoChain]
    /\ UNCHANGED <<stPerformer, stSlots, stDue>>

StageNext ==
    \/ \E c \in StageCalls :
         \/ \E p \in Performers \cup {NULL} : AskPerformer(c, p)
         \/ SetPerformer(c) \/ FinalizeStage(c) \/ StopByHand(c) \/ StartByHand(c)
         \/ FindSlot(c) \/ StopSlot(c) \/ StopFails(c)
         \/ StartIsOff(c) \/ CheckSlot(c) \/ CreateSlot(c) \/ CreateNameless(c)
         \/ LaunchSlot(c) \/ StartFails(c)
    \/ \E k \in DOMAIN stSlots : SlotEnds(k)
    \/ StageCrash

StageSpec == StageInit /\ [][StageNext]_stageVars

\* The stage alone, for TLC.
StageAlone ==
    /\ RankInit /\ StageInit
    /\ [][StageNext /\ UNCHANGED rankVars]_<<stageVars, rankVars>>

-----------------------------------------------------------------------------
(* Properties.                                                             *)

\* When the chains are done, and none overlapped another, failed, or was so slow
\* that the job gave its row up since the stage was last in order, what is recorded
\* is what was last asked for: the performer on stage and nobody before him, or a
\* recording started by hand, and nothing when the stage was emptied, the ranking was
\* finalized, the recording was stopped by hand or ended by itself, or the mode did
\* not allow the start.
PerformerIsRecorded ==
    AllQuiet /\ ~stMuddled =>
      IF stDue = "nothing"
        THEN OpenSlots = {}
        ELSE \E k \in OpenSlots :
               /\ OpenSlots = {k}
               /\ stSlots[k].artist = IF stDue = "performer" THEN stPerformer ELSE NULL

\* RECORDING.md: setPerformer closes the slot before and starts another, and the
\* status 'stopping' is there to follow one slot by the next without a race. So when
\* nothing is under way, and nothing failed, no recording is open of a performer who
\* left the stage. Two changes of performer that overlap break it.
SlotsFollowPerformer ==
    AllQuiet /\ stFaults = 0 =>
      \A k \in OpenSlots : stSlots[k].artist \in {stPerformer, NULL}
=============================================================================
