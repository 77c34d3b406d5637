-------------------------- MODULE RecordingProofs --------------------------
(***************************************************************************)
(* Theorems about recordings. Each invariant of the run has a lemma that   *)
(* says it outlives every step: TypeStep, EgressStep, ReplayStep,          *)
(* HandsStep, and CountedStep for the recordings that are open.            *)
(***************************************************************************)
EXTENDS Recording, FiniteSetTheorems, TLAPS

\* What is worked on exists and is of the event of the call; what is finalized
\* has its egress id.
LinkInv ==
    /\ \A r \in Recs : linked[r] => status[r] # "none"
    /\ \A c \in Callers :
          caller[c].at \in {"created", "launched"} =>
              /\ status[caller[c].rec] # "none"
              /\ source[caller[c].rec] = Source[c]
    /\ \A f \in Finalizers : final[f] # Idle => linked[final[f].rec]
    /\ \A r \in job.todo : status[r] # "none"

\* Starts work on rows of their own, which have no egress id yet, and finalizers
\* on an egress that is complete.
ReplayInv ==
    /\ CompletedHasReplay
    /\ \A r \in Recs : status[r] = "none" => egress[r] = "none"
    /\ \A c, d \in Callers :
          /\ caller[c].at \in {"created", "launched"}
          /\ caller[d].at \in {"created", "launched"}
          /\ caller[c].rec = caller[d].rec
          => c = d
    /\ \A c \in Callers :
          /\ caller[c].at \in {"created", "launched"} => ~linked[caller[c].rec]
          /\ caller[c].at = "created" => egress[caller[c].rec] = "none"
    /\ \A f \in Finalizers :
          /\ final[f] # Idle => egress[final[f].rec] = "complete"
          /\ final[f].at = "replayed" => replays[final[f].rec] > 0

Holds(c, r) == caller[c].at \in {"created", "launched", "found"} /\ caller[c].rec = r

\* A row that is not disturbed is in one hand at most, in none once it is
\* completed, and has its replay from the hand it is in.
HandsInv ==
    \A r \in Recs \ disturbed :
        /\ \A c, d \in Callers : Holds(c, r) /\ Holds(d, r) => c = d
        /\ \A f, g \in Finalizers : final[f].rec = r /\ final[g].rec = r => f = g
        /\ \A c \in Callers, f \in Finalizers : ~(Holds(c, r) /\ final[f].rec = r)
        /\ job.at = "stale" /\ r \in job.todo =>
               /\ \A c \in Callers : ~Holds(c, r)
               /\ \A f \in Finalizers : final[f].rec # r
        /\ status[r] = "completed" => ~InHand(r)
        /\ replays[r] > 0 =>
               /\ replays[r] = 1
               /\ \/ status[r] = "completed"
                  \/ \E f \in Finalizers : final[f].rec = r /\ final[f].at = "replayed"

CompletedStays ==
    \A r \in Recs :
        status[r] = "completed" /\ r \notin disturbed' => status'[r] = "completed"

\* The rows are numbered from 1, so no idle handler is on a row.
LEMMA ZeroIsNoRow == 0 \notin Recs
  BY DEF Recs

-----------------------------------------------------------------------------
\* Types, and the links between rows, calls and events.
LEMMA TypeStep ==
    ASSUME TypeOK, LinkInv, [Next]_vars
    PROVE  TypeOK' /\ LinkInv'
  <1> USE RecordingAssumption, ZeroIsNoRow DEF LinkInv, Statuses, TypeOK, CallerStates, FinalStates, Idle, Busy, CallerTo,
               FinalTo, Callers, Finalizers, rows, history
  <1>1. ASSUME NEW c \in Starters, Check(c) PROVE TypeOK' /\ LinkInv'
    BY <1>1 DEF Check
  <1>2. ASSUME NEW c \in Starters, NEW r \in Recs, Create(c, r) PROVE TypeOK' /\ LinkInv'
    BY <1>2 DEF Create
  <1>3. ASSUME NEW c \in Starters, Launch(c) PROVE TypeOK' /\ LinkInv'
    BY <1>3 DEF Launch
  <1>4. ASSUME NEW c \in Starters, SaveActive(c) PROVE TypeOK' /\ LinkInv'
    BY <1>4 DEF SaveActive, LearnsEgress
  <1>5. ASSUME NEW c \in Starters, StartFails(c) PROVE TypeOK' /\ LinkInv'
    BY <1>5 DEF StartFails, Fault
  <1>6. ASSUME NEW c \in Stoppers, NEW r \in Recs, FindToStop(c, r) PROVE TypeOK' /\ LinkInv'
    BY <1>6 DEF FindToStop, StopTarget, OpenOf, Open, TakeInHand
  <1>7. ASSUME NEW c \in Stoppers, MarkStopping(c) PROVE TypeOK' /\ LinkInv'
    BY <1>7 DEF MarkStopping, Fault
  <1>8. ASSUME NEW c \in Stoppers, StopEgress(c) PROVE TypeOK' /\ LinkInv'
    BY <1>8 DEF StopEgress, Fault
  <1>9. ASSUME NEW r \in Recs, EgressEnds(r) PROVE TypeOK' /\ LinkInv'
    BY <1>9 DEF EgressEnds
  <1>10. ASSUME NEW h \in Hooks, NEW r \in Recs, HookComplete(h, r) PROVE TypeOK' /\ LinkInv'
    BY <1>10 DEF HookComplete, TakeInHand, ToFinalize, Complete
  <1>11. ASSUME NEW r \in Recs, HookFailed(r) PROVE TypeOK' /\ LinkInv'
    BY <1>11 DEF HookFailed
  <1>12. ASSUME NEW f \in Finalizers, MakeReplay(f) PROVE TypeOK' /\ LinkInv'
    BY <1>12 DEF MakeReplay
  <1>13. ASSUME NEW f \in Finalizers, Finish(f) PROVE TypeOK' /\ LinkInv'
    BY <1>13 DEF Finish
  <1>14. ASSUME NEW f \in Finalizers, FinalizeFails(f) PROVE TypeOK' /\ LinkInv'
    BY <1>14 DEF FinalizeFails, Fault
  <1>15. ASSUME NEW S \in SUBSET Pending, JobFindStale(S) PROVE TypeOK' /\ LinkInv'
    BY <1>15 DEF JobFindStale, TakeInHand, Pending
  <1>16. ASSUME NEW r \in Recs, JobFailStale(r) PROVE TypeOK' /\ LinkInv'
    BY <1>16 DEF JobFailStale, Fault
  <1>17. CASE JobFindActive
    BY <1>17 DEF JobFindActive, Unfinished
  <1>18. ASSUME NEW r \in Recs, JobAsk(r) PROVE TypeOK' /\ LinkInv'
    BY <1>18 DEF JobAsk, TakeInHand, ToFinalize, Complete, Forgotten, Fault
  <1>19. CASE JobEnds
    BY <1>19 DEF JobEnds
  <1>20. CASE Crash
    BY <1>20 DEF Crash, Fault
  <1>21. CASE UNCHANGED vars
    BY <1>21 DEF vars
  <1>22. QED
    BY <1>1, <1>2, <1>3, <1>4, <1>5, <1>6, <1>7, <1>8, <1>9, <1>10, <1>11, <1>12, <1>13, <1>14, <1>15, <1>16, <1>17, <1>18, <1>19, <1>20, <1>21 DEF Next, StartStep, StopStep, FinalStep, JobStep, Finalizers

\* An egress is not lost sight of.
LEMMA EgressStep ==
    ASSUME TypeOK, LinkInv, EgressIsKnown, [Next]_vars
    PROVE  EgressIsKnown'
  <1> USE RecordingAssumption, ZeroIsNoRow DEF LinkInv, EgressIsKnown, TypeOK, CallerStates, FinalStates, Idle, Busy, CallerTo,
               FinalTo, Callers, Finalizers, rows, history
  <1>1. ASSUME NEW c \in Starters, Check(c) PROVE EgressIsKnown'
    BY <1>1 DEF Check
  <1>2. ASSUME NEW c \in Starters, NEW r \in Recs, Create(c, r) PROVE EgressIsKnown'
    BY <1>2 DEF Create
  <1>3. ASSUME NEW c \in Starters, Launch(c) PROVE EgressIsKnown'
    BY <1>3 DEF Launch
  <1>4. ASSUME NEW c \in Starters, SaveActive(c) PROVE EgressIsKnown'
    BY <1>4 DEF SaveActive, LearnsEgress
  <1>5. ASSUME NEW c \in Starters, StartFails(c) PROVE EgressIsKnown'
    BY <1>5 DEF StartFails, Fault
  <1>6. ASSUME NEW c \in Stoppers, NEW r \in Recs, FindToStop(c, r) PROVE EgressIsKnown'
    BY <1>6 DEF FindToStop, StopTarget, OpenOf, Open, TakeInHand
  <1>7. ASSUME NEW c \in Stoppers, MarkStopping(c) PROVE EgressIsKnown'
    BY <1>7 DEF MarkStopping, Fault
  <1>8. ASSUME NEW c \in Stoppers, StopEgress(c) PROVE EgressIsKnown'
    BY <1>8 DEF StopEgress, Fault
  <1>9. ASSUME NEW r \in Recs, EgressEnds(r) PROVE EgressIsKnown'
    BY <1>9 DEF EgressEnds
  <1>10. ASSUME NEW h \in Hooks, NEW r \in Recs, HookComplete(h, r) PROVE EgressIsKnown'
    BY <1>10 DEF HookComplete, TakeInHand, ToFinalize, Complete
  <1>11. ASSUME NEW r \in Recs, HookFailed(r) PROVE EgressIsKnown'
    BY <1>11 DEF HookFailed
  <1>12. ASSUME NEW f \in Finalizers, MakeReplay(f) PROVE EgressIsKnown'
    BY <1>12 DEF MakeReplay
  <1>13. ASSUME NEW f \in Finalizers, Finish(f) PROVE EgressIsKnown'
    BY <1>13 DEF Finish
  <1>14. ASSUME NEW f \in Finalizers, FinalizeFails(f) PROVE EgressIsKnown'
    BY <1>14 DEF FinalizeFails, Fault
  <1>15. ASSUME NEW S \in SUBSET Pending, JobFindStale(S) PROVE EgressIsKnown'
    BY <1>15 DEF JobFindStale, TakeInHand, Pending
  <1>16. ASSUME NEW r \in Recs, JobFailStale(r) PROVE EgressIsKnown'
    BY <1>16 DEF JobFailStale, Fault
  <1>17. CASE JobFindActive
    BY <1>17 DEF JobFindActive, Unfinished
  <1>18. ASSUME NEW r \in Recs, JobAsk(r) PROVE EgressIsKnown'
    BY <1>18 DEF JobAsk, TakeInHand, ToFinalize, Complete, Forgotten, Fault
  <1>19. CASE JobEnds
    BY <1>19 DEF JobEnds
  <1>20. CASE Crash
    BY <1>20 DEF Crash, Fault
  <1>21. CASE UNCHANGED vars
    BY <1>21 DEF vars
  <1>22. QED
    BY <1>1, <1>2, <1>3, <1>4, <1>5, <1>6, <1>7, <1>8, <1>9, <1>10, <1>11, <1>12, <1>13, <1>14, <1>15, <1>16, <1>17, <1>18, <1>19, <1>20, <1>21 DEF Next, StartStep, StopStep, FinalStep, JobStep, Finalizers

\* Replays are made of complete egresses.
LEMMA ReplayStep ==
    ASSUME TypeOK, LinkInv, ReplayInv, TypeOK', [Next]_vars
    PROVE  ReplayInv'
  <1> USE RecordingAssumption, ZeroIsNoRow DEF LinkInv, ReplayInv, CompletedHasReplay, TypeOK, CallerStates, FinalStates, Idle, Busy, CallerTo,
               FinalTo, Callers, Finalizers, rows, history
  <1>1. ASSUME NEW c \in Starters, Check(c) PROVE ReplayInv'
    BY <1>1 DEF Check
  <1>2. ASSUME NEW c \in Starters, NEW r \in Recs, Create(c, r) PROVE ReplayInv'
    BY <1>2 DEF Create
  <1>3. ASSUME NEW c \in Starters, Launch(c) PROVE ReplayInv'
    BY <1>3 DEF Launch
  <1>4. ASSUME NEW c \in Starters, SaveActive(c) PROVE ReplayInv'
    BY <1>4 DEF SaveActive, LearnsEgress
  <1>5. ASSUME NEW c \in Starters, StartFails(c) PROVE ReplayInv'
    BY <1>5 DEF StartFails, Fault
  <1>6. ASSUME NEW c \in Stoppers, NEW r \in Recs, FindToStop(c, r) PROVE ReplayInv'
    BY <1>6 DEF FindToStop, StopTarget, OpenOf, Open, TakeInHand
  <1>7. ASSUME NEW c \in Stoppers, MarkStopping(c) PROVE ReplayInv'
    BY <1>7 DEF MarkStopping, Fault
  <1>8. ASSUME NEW c \in Stoppers, StopEgress(c) PROVE ReplayInv'
    BY <1>8 DEF StopEgress, Fault
  <1>9. ASSUME NEW r \in Recs, EgressEnds(r) PROVE ReplayInv'
    BY <1>9 DEF EgressEnds
  <1>10. ASSUME NEW h \in Hooks, NEW r \in Recs, HookComplete(h, r) PROVE ReplayInv'
    BY <1>10 DEF HookComplete, TakeInHand, ToFinalize, Complete
  <1>11. ASSUME NEW r \in Recs, HookFailed(r) PROVE ReplayInv'
    BY <1>11 DEF HookFailed
  <1>12. ASSUME NEW f \in Finalizers, MakeReplay(f) PROVE ReplayInv'
    BY <1>12 DEF MakeReplay
  <1>13. ASSUME NEW f \in Finalizers, Finish(f) PROVE ReplayInv'
    BY <1>13 DEF Finish
  <1>14. ASSUME NEW f \in Finalizers, FinalizeFails(f) PROVE ReplayInv'
    BY <1>14 DEF FinalizeFails, Fault
  <1>15. ASSUME NEW S \in SUBSET Pending, JobFindStale(S) PROVE ReplayInv'
    BY <1>15 DEF JobFindStale, TakeInHand, Pending
  <1>16. ASSUME NEW r \in Recs, JobFailStale(r) PROVE ReplayInv'
    BY <1>16 DEF JobFailStale, Fault
  <1>17. CASE JobFindActive
    BY <1>17 DEF JobFindActive, Unfinished
  <1>18. ASSUME NEW r \in Recs, JobAsk(r) PROVE ReplayInv'
    BY <1>18 DEF JobAsk, TakeInHand, ToFinalize, Complete, Forgotten, Fault
  <1>19. CASE JobEnds
    BY <1>19 DEF JobEnds
  <1>20. CASE Crash
    BY <1>20 DEF Crash, Fault
  <1>21. CASE UNCHANGED vars
    BY <1>21 DEF vars
  <1>22. QED
    BY <1>1, <1>2, <1>3, <1>4, <1>5, <1>6, <1>7, <1>8, <1>9, <1>10, <1>11, <1>12, <1>13, <1>14, <1>15, <1>16, <1>17, <1>18, <1>19, <1>20, <1>21 DEF Next, StartStep, StopStep, FinalStep, JobStep, Finalizers

\* One hand at a time on a row, and none on a completed one.
LEMMA HandsStep ==
    ASSUME TypeOK, LinkInv, ReplayInv, HandsInv, TypeOK', [Next]_vars
    PROVE  HandsInv' /\ CompletedStays
  <1> USE RecordingAssumption, ZeroIsNoRow DEF LinkInv, ReplayInv, CompletedHasReplay, HandsInv,
               CompletedStays, Holds, InHand, TypeOK, CallerStates, FinalStates, Idle, Busy, CallerTo,
               FinalTo, Callers, Finalizers, rows, history
  <1>1. ASSUME NEW c \in Starters, Check(c) PROVE HandsInv' /\ CompletedStays
    BY <1>1 DEF Check
  <1>2. ASSUME NEW c \in Starters, NEW r \in Recs, Create(c, r) PROVE HandsInv' /\ CompletedStays
    BY <1>2 DEF Create
  <1>3. ASSUME NEW c \in Starters, Launch(c) PROVE HandsInv' /\ CompletedStays
    BY <1>3 DEF Launch
  <1>4. ASSUME NEW c \in Starters, SaveActive(c) PROVE HandsInv' /\ CompletedStays
    BY <1>4 DEF SaveActive, LearnsEgress
  <1>5. ASSUME NEW c \in Starters, StartFails(c) PROVE HandsInv' /\ CompletedStays
    BY <1>5 DEF StartFails, Fault
  <1>6. ASSUME NEW c \in Stoppers, NEW r \in Recs, FindToStop(c, r) PROVE HandsInv' /\ CompletedStays
    BY <1>6 DEF FindToStop, StopTarget, OpenOf, Open, TakeInHand
  <1>7. ASSUME NEW c \in Stoppers, MarkStopping(c) PROVE HandsInv' /\ CompletedStays
    BY <1>7 DEF MarkStopping, Fault
  <1>8. ASSUME NEW c \in Stoppers, StopEgress(c) PROVE HandsInv' /\ CompletedStays
    BY <1>8 DEF StopEgress, Fault
  <1>9. ASSUME NEW r \in Recs, EgressEnds(r) PROVE HandsInv' /\ CompletedStays
    BY <1>9 DEF EgressEnds
  <1>10. ASSUME NEW h \in Hooks, NEW r \in Recs, HookComplete(h, r) PROVE HandsInv' /\ CompletedStays
    <2>1. CASE ToFinalize(r)
      <3>1. CompletedStays
        BY <1>10 DEF HookComplete
      <3>2. HandsInv'
        <4>1. /\ final[h].rec = 0 /\ final'[h].rec = r
              /\ \A f \in Finalizers : f # h => final'[f] = final[f]
              /\ 0 \notin Recs
          BY <1>10, <2>1 DEF HookComplete
        <4>2. UNCHANGED <<status, replays, caller, job>> /\ status[r] # "completed"
          BY <1>10, <2>1 DEF HookComplete, ToFinalize
        <4>3. disturbed' = disturbed \cup {x \in {r} : InHand(x)}
          BY <1>10, <2>1 DEF HookComplete, TakeInHand
        <4>4. \A x \in Recs \ disturbed' : x \in Recs \ disturbed /\ (x = r => ~InHand(r))
          BY ONLY <4>3
        <4>5. ASSUME NEW x \in Recs \ disturbed', x # r
              PROVE  \A f \in Finalizers : /\ final'[f].rec = x <=> final[f].rec = x
                                           /\ final[f].rec = x => final'[f] = final[f]
          BY ONLY <4>1, <4>5
        <4>6. ASSUME NEW f \in Finalizers, ~InHand(r), final'[f].rec = r
              PROVE  f = h
          BY ONLY <4>1, <4>6 DEF InHand
        <4> QED BY ONLY <4>1, <4>2, <4>4, <4>5, <4>6, HandsInv DEF HandsInv, Holds, InHand
      <3> QED BY <3>1, <3>2
    <2>2. CASE ~ToFinalize(r)
      BY <1>10, <2>2 DEF HookComplete
    <2> QED BY <2>1, <2>2
  <1>11. ASSUME NEW r \in Recs, HookFailed(r) PROVE HandsInv' /\ CompletedStays
    BY <1>11 DEF HookFailed
  <1>12. ASSUME NEW f \in Finalizers, MakeReplay(f) PROVE HandsInv' /\ CompletedStays
    BY <1>12 DEF MakeReplay
  <1>13. ASSUME NEW f \in Finalizers, Finish(f) PROVE HandsInv' /\ CompletedStays
    BY <1>13 DEF Finish
  <1>14. ASSUME NEW f \in Finalizers, FinalizeFails(f) PROVE HandsInv' /\ CompletedStays
    BY <1>14 DEF FinalizeFails, Fault
  <1>15. ASSUME NEW S \in SUBSET Pending, JobFindStale(S) PROVE HandsInv' /\ CompletedStays
    BY <1>15 DEF JobFindStale, TakeInHand, Pending
  <1>16. ASSUME NEW r \in Recs, JobFailStale(r) PROVE HandsInv' /\ CompletedStays
    BY <1>16 DEF JobFailStale, Fault
  <1>17. CASE JobFindActive
    BY <1>17 DEF JobFindActive, Unfinished
  <1>18. ASSUME NEW r \in Recs, JobAsk(r) PROVE HandsInv' /\ CompletedStays
    BY <1>18 DEF JobAsk, TakeInHand, ToFinalize, Complete, Forgotten, Fault
  <1>19. CASE JobEnds
    BY <1>19 DEF JobEnds
  <1>20. CASE Crash
    <2>1. /\ \A c \in Callers : caller'[c] = Idle
          /\ \A f \in Finalizers : final'[f] = Idle
          /\ job'.at = "idle" /\ status' = status /\ replays' = replays
          /\ disturbed \subseteq disturbed'
      BY <1>20 DEF Crash
    <2>2. \A r \in Recs \ disturbed', f \in Finalizers :
             ~(final[f].rec = r /\ final[f].at = "replayed")
      BY <1>20 DEF Crash
    <2>3. QED
      BY <2>1, <2>2
  <1>21. CASE UNCHANGED vars
    BY <1>21 DEF vars
  <1>22. QED
    BY <1>1, <1>2, <1>3, <1>4, <1>5, <1>6, <1>7, <1>8, <1>9, <1>10, <1>11, <1>12, <1>13, <1>14, <1>15, <1>16, <1>17, <1>18, <1>19, <1>20, <1>21 DEF Next, StartStep, StopStep, FinalStep, JobStep, Finalizers

-----------------------------------------------------------------------------
(* What a step may do to the starts of an event under way and to its open  *)
(* recordings that none of them works on.                                  *)

\* There are no more of either.
Shrinks(src) ==
    /\ Starting(src)' \subseteq Starting(src)
    /\ Unattended(src)' \subseteq Unattended(src)

\* One start is over and leaves its row open.
Leaves(src) ==
    \E c \in Starting(src), r \in Recs :
        /\ Starting(src)' \subseteq Starting(src) \ {c}
        /\ Unattended(src)' \subseteq Unattended(src) \cup {r}

\* A start begins while nothing is open.
Fresh(src) == Unattended(src)' = {}

\* All starts are cut short.
AllLeave(src) ==
    /\ Starting(src)' = {}
    /\ Unattended(src)' \subseteq Unattended(src) \cup {caller[c].rec : c \in Starting(src)}

Counted(src) == Shrinks(src) \/ Leaves(src) \/ Fresh(src) \/ AllLeave(src)

\* Every step is one of these, for every event.
LEMMA CountedStep ==
    ASSUME TypeOK, LinkInv, [Next]_vars
    PROVE  \A src \in Sources : Counted(src)
  <1> USE RecordingAssumption, ZeroIsNoRow DEF LinkInv, Counted, Starting, StartersOf, Unattended, OpenOf, Open,
               TypeOK, CallerStates, FinalStates, Idle, Busy, CallerTo,
               FinalTo, Callers, Finalizers, rows, history
  <1>1. ASSUME NEW c \in Starters, Check(c) PROVE \A src \in Sources : Counted(src)
    <2> SUFFICES ASSUME NEW src \in Sources PROVE Counted(src)
      OBVIOUS
    <2>1. CASE src = Source[c]
      <3>1. OpenOf(src)' = {}
        BY <1>1, <2>1 DEF Check, NothingOpen
      <3>2. QED
        BY <3>1 DEF Fresh
    <2>2. CASE src # Source[c]
      BY <1>1, <2>2 DEF Check, Shrinks
    <2>3. QED
      BY <2>1, <2>2
  <1>2. ASSUME NEW c \in Starters, NEW r \in Recs, Create(c, r) PROVE \A src \in Sources : Counted(src)
    BY <1>2 DEF Create, Shrinks
  <1>3. ASSUME NEW c \in Starters, Launch(c) PROVE \A src \in Sources : Counted(src)
    BY <1>3 DEF Launch, Shrinks
  <1>4. ASSUME NEW c \in Starters, SaveActive(c) PROVE \A src \in Sources : Counted(src)
    <2> SUFFICES ASSUME NEW src \in Sources PROVE Counted(src)
      OBVIOUS
    <2>1. CASE src = Source[c]
      <3>1. c \in Starting(src) /\ caller[c].rec \in Recs
        BY <1>4, <2>1 DEF SaveActive
      <3>2. Starting(src)' \subseteq Starting(src) \ {c}
        BY <1>4 DEF SaveActive
      <3>3. Unattended(src)' \subseteq Unattended(src) \cup {caller[c].rec}
        BY <1>4 DEF SaveActive
      <3>4. QED
        BY <3>1, <3>2, <3>3 DEF Leaves
    <2>2. CASE src # Source[c]
      BY <1>4, <2>2 DEF SaveActive, Shrinks
    <2>3. QED
      BY <2>1, <2>2
  <1>5. ASSUME NEW c \in Starters, StartFails(c) PROVE \A src \in Sources : Counted(src)
    <2> SUFFICES ASSUME NEW src \in Sources PROVE Counted(src)
      OBVIOUS
    <2>1. OpenOf(src)' \subseteq OpenOf(src)
      BY <1>5 DEF StartFails
    <2>2. Starting(src)' \subseteq Starting(src) \ {c}
      BY <1>5 DEF StartFails
    <2>3. CASE src = Source[c] /\ caller[c].rec \in Recs
      <3>1. c \in Starting(src)
        BY <1>5, <2>3 DEF StartFails
      <3>2. Unattended(src)' \subseteq Unattended(src) \cup {caller[c].rec}
        BY <1>5, <2>1 DEF StartFails
      <3>3. QED
        BY <2>2, <2>3, <3>1, <3>2 DEF Leaves
    <2>4. CASE ~(src = Source[c] /\ caller[c].rec \in Recs)
      <3>1. Unattended(src)' \subseteq Unattended(src)
        BY <1>5, <2>1, <2>4 DEF StartFails
      <3>2. QED
        BY <2>2, <3>1 DEF Shrinks
    <2>5. QED
      BY <2>3, <2>4
  <1>6. ASSUME NEW c \in Stoppers, NEW r \in Recs, FindToStop(c, r) PROVE \A src \in Sources : Counted(src)
    BY <1>6 DEF FindToStop, StopTarget, OpenOf, Open, TakeInHand, Shrinks
  <1>7. ASSUME NEW c \in Stoppers, MarkStopping(c) PROVE \A src \in Sources : Counted(src)
    BY <1>7 DEF MarkStopping, Fault, Shrinks
  <1>8. ASSUME NEW c \in Stoppers, StopEgress(c) PROVE \A src \in Sources : Counted(src)
    BY <1>8 DEF StopEgress, Fault, Shrinks
  <1>9. ASSUME NEW r \in Recs, EgressEnds(r) PROVE \A src \in Sources : Counted(src)
    BY <1>9 DEF EgressEnds, Shrinks
  <1>10. ASSUME NEW h \in Hooks, NEW r \in Recs, HookComplete(h, r) PROVE \A src \in Sources : Counted(src)
    BY <1>10 DEF HookComplete, TakeInHand, ToFinalize, Complete, Shrinks
  <1>11. ASSUME NEW r \in Recs, HookFailed(r) PROVE \A src \in Sources : Counted(src)
    BY <1>11 DEF HookFailed, Shrinks
  <1>12. ASSUME NEW f \in Finalizers, MakeReplay(f) PROVE \A src \in Sources : Counted(src)
    BY <1>12 DEF MakeReplay, Shrinks
  <1>13. ASSUME NEW f \in Finalizers, Finish(f) PROVE \A src \in Sources : Counted(src)
    BY <1>13 DEF Finish, Shrinks
  <1>14. ASSUME NEW f \in Finalizers, FinalizeFails(f) PROVE \A src \in Sources : Counted(src)
    BY <1>14 DEF FinalizeFails, Fault, Shrinks
  <1>15. ASSUME NEW S \in SUBSET Pending, JobFindStale(S) PROVE \A src \in Sources : Counted(src)
    BY <1>15 DEF JobFindStale, TakeInHand, Pending, Shrinks
  <1>16. ASSUME NEW r \in Recs, JobFailStale(r) PROVE \A src \in Sources : Counted(src)
    BY <1>16 DEF JobFailStale, Fault, Shrinks
  <1>17. CASE JobFindActive
    BY <1>17 DEF JobFindActive, Unfinished, Shrinks
  <1>18. ASSUME NEW r \in Recs, JobAsk(r) PROVE \A src \in Sources : Counted(src)
    BY <1>18 DEF JobAsk, TakeInHand, ToFinalize, Complete, Forgotten, Fault, Shrinks
  <1>19. CASE JobEnds
    BY <1>19 DEF JobEnds, Shrinks
  <1>20. CASE Crash
    BY <1>20 DEF Crash, Fault, AllLeave
  <1>21. CASE UNCHANGED vars
    BY <1>21 DEF vars, Shrinks
  <1>22. QED
    BY <1>1, <1>2, <1>3, <1>4, <1>5, <1>6, <1>7, <1>8, <1>9, <1>10, <1>11, <1>12, <1>13, <1>14, <1>15, <1>16, <1>17, <1>18, <1>19, <1>20, <1>21 DEF Next, StartStep, StopStep, FinalStep, JobStep, Finalizers

\* Counting both together, they never outnumber the calls there are.
LEMMA OpenStep ==
    ASSUME TypeOK, LinkInv, OpenByRaceOnly, TypeOK', [Next]_vars
    PROVE  OpenByRaceOnly'
  <1> SUFFICES ASSUME NEW src \in Sources
               PROVE  Cardinality(Starting(src)') + Cardinality(Unattended(src)')
                          <= Cardinality(StartersOf(src))
    BY DEF OpenByRaceOnly, StartersOf
  <1>1. /\ IsFiniteSet(StartersOf(src))
        /\ Starting(src) \subseteq StartersOf(src) /\ Starting(src)' \subseteq StartersOf(src)
    BY RecordingAssumption, FS_Subset DEF StartersOf, Starting
  <1>2. /\ IsFiniteSet(Recs)
        /\ Unattended(src) \subseteq Recs /\ Unattended(src)' \subseteq Recs
    BY RecordingAssumption, FS_Interval DEF Recs, Unattended, OpenOf
  <1>3. /\ IsFiniteSet(Starting(src)) /\ IsFiniteSet(Starting(src)')
        /\ IsFiniteSet(Unattended(src)) /\ IsFiniteSet(Unattended(src)')
    BY <1>1, <1>2, FS_Subset
  <1>4. /\ Cardinality(Starting(src)) \in Nat /\ Cardinality(Starting(src)') \in Nat
        /\ Cardinality(Unattended(src)) \in Nat /\ Cardinality(Unattended(src)') \in Nat
        /\ Cardinality(StartersOf(src)) \in Nat
    BY <1>1, <1>3, FS_CardinalityType
  <1>5. Cardinality(Starting(src)) + Cardinality(Unattended(src)) <= Cardinality(StartersOf(src))
    BY DEF OpenByRaceOnly
  <1>6. CASE Shrinks(src)
    <2>1. /\ Cardinality(Starting(src)') <= Cardinality(Starting(src))
          /\ Cardinality(Unattended(src)') <= Cardinality(Unattended(src))
      BY <1>3, <1>6, FS_Subset DEF Shrinks
    <2>2. QED
      BY <1>4, <1>5, <2>1
  <1>7. CASE Leaves(src)
    <2>1. PICK c \in Starting(src), r \in Recs :
             /\ Starting(src)' \subseteq Starting(src) \ {c}
             /\ Unattended(src)' \subseteq Unattended(src) \cup {r}
      BY <1>7 DEF Leaves
    <2>2. Cardinality(Starting(src)') <= Cardinality(Starting(src)) - 1
      <3>1. /\ IsFiniteSet(Starting(src) \ {c})
            /\ Cardinality(Starting(src) \ {c}) = Cardinality(Starting(src)) - 1
        BY <1>3, FS_RemoveElement
      <3>2. QED
        BY <2>1, <3>1, FS_Subset
    <2>3. Cardinality(Unattended(src)') <= Cardinality(Unattended(src)) + 1
      <3>1. /\ IsFiniteSet(Unattended(src) \cup {r})
            /\ Cardinality(Unattended(src) \cup {r}) =
                   IF r \in Unattended(src) THEN Cardinality(Unattended(src))
                                           ELSE Cardinality(Unattended(src)) + 1
        BY <1>3, FS_AddElement
      <3>2. Cardinality(Unattended(src) \cup {r}) <= Cardinality(Unattended(src)) + 1
        BY <1>4, <3>1
      <3>3. /\ Cardinality(Unattended(src)') <= Cardinality(Unattended(src) \cup {r})
            /\ Cardinality(Unattended(src) \cup {r}) \in Nat
        BY <2>1, <3>1, FS_Subset, FS_CardinalityType
      <3>4. QED
        BY <1>4, <3>2, <3>3
    <2>4. QED
      BY <1>4, <1>5, <2>2, <2>3
  <1>8. CASE Fresh(src)
    <2>1. /\ Cardinality(Starting(src)') <= Cardinality(StartersOf(src))
          /\ Cardinality(Unattended(src)') = 0
      BY <1>1, <1>8, FS_Subset, FS_EmptySet DEF Fresh
    <2>2. QED
      BY <1>4, <2>1
  <1>9. CASE AllLeave(src)
    <2> DEFINE F == [c \in Starting(src) |-> caller[c].rec]
               R == {F[c] : c \in Starting(src)}
    <2>1. IsFiniteSet(R) /\ Cardinality(R) <= Cardinality(Starting(src))
      <3>1. R = {caller[c].rec : c \in Starting(src)}
        OBVIOUS
      <3>2. F \in Surjection(Starting(src), R)
        BY DEF Surjection
      <3>3. QED
        BY <1>3, <3>2, FS_Surjection
    <2>2. IsFiniteSet(Unattended(src) \cup R) /\ IsFiniteSet(Unattended(src) \cap R)
      BY <1>3, <2>1, FS_Union, FS_Intersection
    <2>3. Cardinality(Unattended(src) \cup R) =
              Cardinality(Unattended(src)) + Cardinality(R) - Cardinality(Unattended(src) \cap R)
      BY <1>3, <2>1, FS_Union
    <2>4. Unattended(src)' \subseteq Unattended(src) \cup R
      BY <1>9 DEF AllLeave
    <2>5. Cardinality(Unattended(src)') <= Cardinality(Unattended(src) \cup R)
      BY <2>2, <2>4, FS_Subset
    <2>6. Cardinality(Starting(src)') = 0
      BY <1>9, FS_EmptySet DEF AllLeave
    <2>7. /\ Cardinality(R) \in Nat /\ Cardinality(Unattended(src) \cup R) \in Nat
          /\ Cardinality(Unattended(src) \cap R) \in Nat
      BY <2>1, <2>2, FS_CardinalityType
    <2>8. QED
      BY <1>4, <1>5, <2>1, <2>3, <2>5, <2>6, <2>7
  <1>10. Counted(src)
    BY CountedStep
  <1>11. QED
    BY <1>6, <1>7, <1>8, <1>9, <1>10 DEF Counted

-----------------------------------------------------------------------------
\* The initial states satisfy everything but the count of what is open.
LEMMA InitFacts ==
    Init => TypeOK /\ LinkInv /\ EgressIsKnown /\ ReplayInv /\ HandsInv
  <1> SUFFICES ASSUME Init PROVE TypeOK /\ LinkInv /\ EgressIsKnown /\ ReplayInv /\ HandsInv
    OBVIOUS
  <1> USE RecordingAssumption, ZeroIsNoRow DEF Init, Idle
  <1>1. TypeOK
    BY DEF TypeOK, Statuses, CallerStates, FinalStates, Busy
  <1>2. LinkInv
    BY DEF LinkInv
  <1>3. EgressIsKnown
    BY DEF EgressIsKnown
  <1>4. ReplayInv
    BY DEF ReplayInv, CompletedHasReplay
  <1>5. HandsInv
    BY DEF HandsInv, Holds, InHand
  <1>6. QED
    BY <1>1, <1>2, <1>3, <1>4, <1>5

\* Types and the links between rows and egresses hold throughout.
LEMMA LinksCorrect == Spec => [](TypeOK /\ LinkInv)
  <1>1. TypeOK /\ LinkInv /\ [Next]_vars => TypeOK' /\ LinkInv'
    BY TypeStep
  <1>2. QED
    BY <1>1, InitFacts, PTL DEF Spec

\* Types: no call stops a row without an egress id, and a row that has a source
\* exists.
THEOREM TypeCorrect == Spec => []TypeOK
  BY LinksCorrect, PTL

\* An egress that films belongs to a start still at work or to a row that knows
\* it, but for the rows that lost theirs by a fault.
THEOREM EgressKnown == Spec => []EgressIsKnown
  <1>1. TypeOK /\ LinkInv /\ EgressIsKnown /\ [Next]_vars => EgressIsKnown'
    BY EgressStep
  <1>2. QED
    BY <1>1, InitFacts, LinksCorrect, PTL DEF Spec

\* ReplayInv holds throughout.
LEMMA ReplayCorrect == Spec => []ReplayInv
  <1>1. TypeOK /\ LinkInv /\ ReplayInv /\ TypeOK' /\ [Next]_vars => ReplayInv'
    BY ReplayStep
  <1>2. QED
    BY <1>1, InitFacts, LinksCorrect, PTL DEF Spec

\* A replay is made of a complete egress, and a completed recording has one.
THEOREM CompletedReplay == Spec => []CompletedHasReplay
  <1>1. ReplayInv => CompletedHasReplay
    BY DEF ReplayInv
  <1>2. QED
    BY <1>1, ReplayCorrect, PTL

\* HandsInv holds throughout.
LEMMA HandsCorrect == Spec => []HandsInv
  <1>1. TypeOK /\ LinkInv /\ ReplayInv /\ HandsInv /\ TypeOK' /\ [Next]_vars => HandsInv'
    BY HandsStep
  <1>2. QED
    BY <1>1, InitFacts, LinksCorrect, ReplayCorrect, PTL DEF Spec

\* A second replay takes two handlers with the row in hand at once, or one cut
\* short between the replay and the row.
THEOREM OneReplay == Spec => []OneReplayUnlessDisturbed
  <1>1. TypeOK /\ HandsInv => OneReplayUnlessDisturbed
    BY DEF TypeOK, HandsInv, OneReplayUnlessDisturbed
  <1>2. QED
    BY <1>1, TypeCorrect, HandsCorrect, PTL

\* Recordings and replays correspond.
THEOREM ReplaysCorrespond == Spec => []ReplaysMatchRecordings
  <1>1. CompletedHasReplay /\ OneReplayUnlessDisturbed => ReplaysMatchRecordings
    BY DEF ReplaysMatchRecordings
  <1>2. QED
    BY <1>1, CompletedReplay, OneReplay, PTL

\* A recording that is completed stays so, but for the disturbed ones.
THEOREM CompletedFinal == Spec => CompletedIsFinal
  <1>1. TypeOK /\ LinkInv /\ ReplayInv /\ HandsInv /\ TypeOK' /\ [Next]_vars => CompletedStays
    BY HandsStep
  <1>2. Spec => [][CompletedStays]_vars
    BY <1>1, LinksCorrect, ReplayCorrect, HandsCorrect, PTL DEF Spec
  <1>3. QED
    BY <1>2 DEF CompletedIsFinal, CompletedStays

\* Starts under way and open recordings never outnumber the calls that may be in
\* flight: one recording at a time if they come one at a time.
THEOREM OpenByRace == Spec => []OpenByRaceOnly
  <1>1. Init => OpenByRaceOnly
    <2> SUFFICES ASSUME Init, NEW src \in Sources
                 PROVE  Cardinality(Starting(src)) + Cardinality(Unattended(src))
                            <= Cardinality(StartersOf(src))
      BY DEF OpenByRaceOnly
    <2>1. Starting(src) = {} /\ Unattended(src) = {}
      BY RecordingAssumption DEF Init, Idle, Starting, StartersOf, Callers, Unattended, OpenOf, Open
    <2>2. IsFiniteSet(StartersOf(src))
      BY RecordingAssumption, FS_Subset DEF StartersOf
    <2>3. QED
      BY <2>1, <2>2, FS_EmptySet, FS_CardinalityType
  <1>2. TypeOK /\ LinkInv /\ OpenByRaceOnly /\ TypeOK' /\ [Next]_vars => OpenByRaceOnly'
    BY OpenStep
  <1>3. QED
    BY <1>1, <1>2, LinksCorrect, PTL DEF Spec

\* No egress is out of sight.
THEOREM EgressAlwaysAccounted == Spec => []EgressAccounted
  <1>1. OpenByRaceOnly /\ EgressIsKnown => EgressAccounted
    BY DEF EgressAccounted
  <1>2. QED
    BY <1>1, OpenByRace, EgressKnown, PTL
=============================================================================
