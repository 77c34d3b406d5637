----------------------------- MODULE ShowsProofs ----------------------------
(***************************************************************************)
(* What is proved of Shows: of each of its parts, that its invariant holds *)
(* whatever the sizes of the sets and the bounds, and of the composition,  *)
(* that it does what its parts do, and so keeps what they keep.            *)
(***************************************************************************)
EXTENDS RevenueSplitProofs, Sums, Shows, SequenceTheorems

-----------------------------------------------------------------------------
(* Duels.                                                                  *)

\* The requests that will write the status of an invitation, and those of them
\* that will make a duel of it.
Deciding(u, i) == /\ drHand[u].at # "idle" /\ drHand[u].inv = i
                  /\ drHand[u].to # "date"
Creating(i) == {u \in Deciders : /\ drHand[u].at # "idle" /\ drHand[u].inv = i
                                 /\ drHand[u].to \in Decided}

\* There is room for the duels that are being made.
DuelRoom == \A i \in Invitations : drDuels[i] + Cardinality(Creating(i)) =< MaxDuels

\* Without an overlap or an overruling an invitation is in one hand, and pending
\* until that hand writes it.
DuelHands ==
    \A i \in Invitations \ (drOverlap \cup drOverruled) :
      /\ \A u, v \in Deciders : Deciding(u, i) /\ Deciding(v, i) => u = v
      /\ \A u \in Deciders : Deciding(u, i) => drStatus[i] = "pending" /\ i \notin drStale
      /\ i \in drStale => drStatus[i] = "pending"

DuelInv == DuelTypeOK /\ DuelRoom /\ DuelHands /\ DuelsMatchAnswers

\* The initial states satisfy DuelInv.
LEMMA DuelInitial == DuelInit => DuelInv
<1> SUFFICES ASSUME DuelInit PROVE DuelInv
  OBVIOUS
<1>1. DuelTypeOK
  BY DuelAssumption DEF DuelInit, DuelTypeOK
<1>2. ASSUME NEW i \in Invitations PROVE drDuels[i] + Cardinality(Creating(i)) =< MaxDuels
  <2>1. Creating(i) = {}
    BY DEF Creating, DuelInit, Free
  <2> QED BY <2>1, FS_EmptySet, DuelAssumption DEF DuelInit
<1>3. DuelHands
  BY DEF DuelHands, Deciding, DuelInit, Free
<1>4. DuelsMatchAnswers
  BY DEF DuelsMatchAnswers, DuelInit, Decided
<1> QED BY <1>1, <1>2, <1>3, <1>4 DEF DuelInv, DuelRoom

\* Those that are making a duel are finitely many.
LEMMA CreatingIsFinite ==
    ASSUME NEW i \in Invitations PROVE IsFiniteSet(Creating(i)) /\ Cardinality(Creating(i)) \in Nat
<1>1. Creating(i) \subseteq Deciders
  BY DEF Creating
<1> QED BY <1>1, DuelAssumption, FS_Subset, FS_CardinalityType

\* Steps keep the types.
LEMMA DuelTyped == DuelTypeOK /\ DuelRoom /\ [DuelNext]_duelVars => DuelTypeOK'
<1> SUFFICES ASSUME DuelTypeOK, DuelRoom, [DuelNext]_duelVars PROVE DuelTypeOK'
  OBVIOUS
<1> USE DEF DuelTypeOK, Decided, Decisions, Free
<1>1. ASSUME NEW i \in Invitations, Invite(i) PROVE DuelTypeOK'
  BY <1>1 DEF Invite
<1>2. ASSUME NEW i \in Invitations, DatePasses(i) PROVE DuelTypeOK'
  BY <1>2 DEF DatePasses
<1>3. ASSUME NEW i \in Invitations, Expire(i) PROVE DuelTypeOK'
  BY <1>3 DEF Expire
<1>4. ASSUME FindStale PROVE DuelTypeOK'
  BY <1>4 DEF FindStale
<1>5. ASSUME NEW u \in Deciders, NEW i \in Invitations, NEW to \in Decisions, Take(u, i, to)
      PROVE  /\ drHand' \in [Deciders -> {Free}
                     \cup [at : {"read"}, inv : Invitations, to : Decisions]
                     \cup [at : {"saved"}, inv : Invitations,
                           to : Decided \cup {"declined"}]]
             /\ drOverlap' \subseteq Invitations
  BY <1>5 DEF Take
<1>6. ASSUME NEW u \in Deciders, NEW i \in Invitations, NEW to \in Decisions,
             ReadPending(u, i, to) \/ ReadAny(u, i, to)
      PROVE  DuelTypeOK'
  BY <1>5, <1>6 DEF ReadPending, ReadAny, Take
<1>7. ASSUME NEW u \in Deciders, SaveInTransaction(u) PROVE DuelTypeOK'
  BY <1>7 DEF SaveInTransaction, SeenBeforeCommit
<1>8. ASSUME NEW u \in Deciders, Commit(u) PROVE DuelTypeOK'
  <2> DEFINE i == drHand[u].inv
  <2>1. i \in Invitations /\ drHand[u].to \in Decided \cup {"declined"}
    BY <1>8 DEF Commit
  <2>2. CASE drHand[u].to \in Decided
    <3>1. u \in Creating(i)
      BY <1>8, <2>2 DEF Commit, Creating
    <3>2. Cardinality(Creating(i)) # 0
      BY <2>1, <3>1, CreatingIsFinite, FS_EmptySet
    <3>3. drDuels[i] + 1 \in 0..MaxDuels
      <4> drDuels[i] \in Nat /\ drDuels[i] + Cardinality(Creating(i)) =< MaxDuels
        BY <2>1 DEF DuelRoom
      <4> Cardinality(Creating(i)) \in Nat
        BY <2>1, CreatingIsFinite
      <4> HIDE DEF i
      <4> QED BY <3>2, DuelAssumption
    <3> QED BY <1>8, <2>1, <2>2, <3>3 DEF Commit
  <2>3. CASE drHand[u].to \notin Decided
    <3>1. drDuels' = drDuels
      BY <1>8, <2>1, <2>3 DEF Commit
    <3> QED BY <1>8, <2>1, <2>3, <3>1 DEF Commit
  <2> QED BY <2>2, <2>3
<1>9. ASSUME NEW u \in Deciders, Save(u) PROVE DuelTypeOK'
  BY <1>9 DEF Save
<1>10. ASSUME NEW u \in Deciders, GiveUp(u) PROVE DuelTypeOK'
  BY <1>10 DEF GiveUp
<1>11. CASE UNCHANGED duelVars
  BY <1>11 DEF duelVars
<1> QED BY <1>1, <1>2, <1>3, <1>4, <1>6, <1>7, <1>8, <1>9, <1>10, <1>11 DEF DuelNext


\* Steps keep the room for the duels that are being made.
LEMMA DuelRoomKept == DuelTypeOK /\ DuelRoom /\ [DuelNext]_duelVars => DuelRoom'
<1> SUFFICES ASSUME DuelTypeOK, DuelRoom, [DuelNext]_duelVars, NEW j \in Invitations
             PROVE  (drDuels[j] + Cardinality(Creating(j)) =< MaxDuels)'
  BY DEF DuelRoom
<1> USE DEF DuelTypeOK, Decided, Decisions, Free
<1>0. /\ drDuels[j] \in Nat /\ drDuels[j] + Cardinality(Creating(j)) =< MaxDuels
      /\ IsFiniteSet(Creating(j)) /\ Cardinality(Creating(j)) \in Nat /\ MaxDuels \in Nat
  BY CreatingIsFinite, DuelAssumption DEF DuelRoom
\* Most steps make no duel and begin none.
<1>1. CASE drDuels'[j] = drDuels[j] /\ Creating(j)' \subseteq Creating(j)
  <2>1. Cardinality(Creating(j)') \in Nat /\ Cardinality(Creating(j)') =< Cardinality(Creating(j))
    BY <1>0, <1>1, FS_Subset, FS_CardinalityType
  <2> QED BY <1>0, <1>1, <2>1
<1>2. ASSUME NEW u \in Deciders, NEW i \in Invitations, NEW to \in Decisions, Take(u, i, to)
      PROVE  (drDuels[j] + Cardinality(Creating(j)) =< MaxDuels)'
  <2>1. CASE to \in Decided /\ i = j
    <3> DEFINE Busy == {v \in Deciders : drHand[v].at # "idle" /\ drHand[v].inv = i}
    <3>1. drDuels[j] + Cardinality(Busy) < MaxDuels
      BY <1>2, <2>1 DEF Take, RoomForDuel
    <3>2. Creating(j) \subseteq Busy /\ Busy \subseteq Deciders
      BY <2>1 DEF Creating
    <3>3. Cardinality(Busy) \in Nat /\ Cardinality(Creating(j)) =< Cardinality(Busy)
      BY <3>2, FS_Subset, FS_CardinalityType, DuelAssumption
    <3>4. Creating(j)' = Creating(j) \cup {u} /\ u \notin Creating(j)
      BY <1>2, <2>1 DEF Take, Creating
    <3>5. Cardinality(Creating(j)') = Cardinality(Creating(j)) + 1
      BY <1>0, <3>4, FS_AddElement
    <3>6. drDuels' = drDuels
      BY <1>2 DEF Take
    <3> HIDE DEF Busy
    <3> QED BY <1>0, <3>1, <3>3, <3>5, <3>6
  <2>2. CASE ~ (to \in Decided /\ i = j)
    BY <1>1, <1>2, <2>2 DEF Take, Creating
  <2> QED BY <2>1, <2>2
<1>3. ASSUME NEW u \in Deciders, Commit(u)
      PROVE  (drDuels[j] + Cardinality(Creating(j)) =< MaxDuels)'
  <2>1. CASE u \in Creating(j)
    <3>1. drDuels'[j] = drDuels[j] + 1
      BY <1>3, <2>1 DEF Commit, Creating
    <3>2. Creating(j)' = Creating(j) \ {u}
      BY <1>3, <2>1 DEF Commit, Creating
    <3>3. Cardinality(Creating(j)') = Cardinality(Creating(j)) - 1
      BY <1>0, <2>1, <3>2, FS_RemoveElement
    <3> QED BY <1>0, <3>1, <3>3
  <2>2. CASE u \notin Creating(j)
    <3>1. drDuels'[j] = drDuels[j]
      BY <1>3, <2>2 DEF Commit, Creating
    <3>2. Creating(j)' \subseteq Creating(j)
      BY <1>3, <2>2 DEF Commit, Creating
    <3> QED BY <1>1, <3>1, <3>2
  <2> QED BY <2>1, <2>2
<1>4. ASSUME NEW i \in Invitations, Invite(i) \/ DatePasses(i) \/ Expire(i)
      PROVE  drDuels' = drDuels /\ drHand' = drHand
  BY <1>4 DEF Invite, DatePasses, Expire
<1>5. ASSUME FindStale \/ UNCHANGED duelVars
      PROVE  drDuels' = drDuels /\ drHand' = drHand
  BY <1>5 DEF FindStale, duelVars
<1>6. ASSUME NEW u \in Deciders, SaveInTransaction(u) \/ Save(u) \/ GiveUp(u)
      PROVE  drDuels' = drDuels /\ Creating(j)' \subseteq Creating(j)
  BY <1>6 DEF SaveInTransaction, Save, GiveUp, Creating
<1>7. drHand' = drHand => Creating(j)' \subseteq Creating(j)
  BY DEF Creating
<1> QED BY <1>1, <1>2, <1>3, <1>4, <1>5, <1>6, <1>7 DEF DuelNext, ReadPending, ReadAny

\* Steps keep what is in hand true, and the duels in step with the answers.
LEMMA DuelHandsKept == DuelInv /\ [DuelNext]_duelVars => DuelHands' /\ DuelsMatchAnswers'
<1> SUFFICES ASSUME DuelTypeOK, DuelHands, DuelsMatchAnswers, [DuelNext]_duelVars
             PROVE  DuelHands' /\ DuelsMatchAnswers'
  BY DEF DuelInv
<1> USE DEF DuelTypeOK, DuelHands, DuelsMatchAnswers, Deciding, Decided, Decisions, Free
<1>1. ASSUME NEW i \in Invitations, Invite(i) PROVE DuelHands' /\ DuelsMatchAnswers'
  BY <1>1 DEF Invite
<1>2. ASSUME NEW i \in Invitations, DatePasses(i) PROVE DuelHands' /\ DuelsMatchAnswers'
  BY <1>2 DEF DatePasses
<1>3. ASSUME NEW i \in Invitations, Expire(i) PROVE DuelHands' /\ DuelsMatchAnswers'
  BY <1>3 DEF Expire, Locked
<1>4. ASSUME FindStale PROVE DuelHands' /\ DuelsMatchAnswers'
  BY <1>4 DEF FindStale, Handled
<1>5. ASSUME NEW u \in Deciders, NEW i \in Invitations, NEW to \in Decisions,
             ReadPending(u, i, to) \/ ReadAny(u, i, to)
      PROVE  DuelHands' /\ DuelsMatchAnswers'
  <2>1. DuelsMatchAnswers'
    BY <1>5 DEF ReadPending, ReadAny, Take
  <2>2. DuelHands'
    BY <1>5 DEF ReadPending, ReadAny, Take, Handled, Pending, Exists
  <2> QED BY <2>1, <2>2
<1>6. ASSUME NEW u \in Deciders, SaveInTransaction(u) PROVE DuelHands' /\ DuelsMatchAnswers'
  BY <1>6 DEF SaveInTransaction, SeenBeforeCommit
<1>7. ASSUME NEW u \in Deciders, Commit(u) PROVE DuelHands' /\ DuelsMatchAnswers'
  BY <1>7 DEF Commit
<1>8. ASSUME NEW u \in Deciders, Save(u) PROVE DuelHands' /\ DuelsMatchAnswers'
  BY <1>8 DEF Save
<1>9. ASSUME NEW u \in Deciders, GiveUp(u) PROVE DuelHands' /\ DuelsMatchAnswers'
  BY <1>9 DEF GiveUp
<1>10. CASE UNCHANGED duelVars
  BY <1>10 DEF duelVars
<1> QED BY <1>1, <1>2, <1>3, <1>4, <1>5, <1>6, <1>7, <1>8, <1>9, <1>10 DEF DuelNext

\* A request that reads accepted or approved has its duel, and one, unless it was in two
\* hands at once or an admin overruled it: for every number of requests and of users.
THEOREM DuelsAnswered == DuelSpec => [](DuelTypeOK /\ DuelsMatchAnswers)
<1>1. DuelInit => DuelInv
  BY DuelInitial
<1>2. DuelInv /\ [DuelNext]_duelVars => DuelInv'
  BY DuelTyped, DuelRoomKept, DuelHandsKept DEF DuelInv
<1>3. DuelInv => DuelTypeOK /\ DuelsMatchAnswers
  BY DEF DuelInv
<1> QED BY <1>1, <1>2, <1>3, PTL DEF DuelSpec

-----------------------------------------------------------------------------
(* Rankings of a competition.                                              *)

\* A ranking that is alone finds each rank it does not write as it read it, and who
\* has a rank and is not on its list was passed over.
AloneRanks ==
    \A f \in Finalizers : Ranking(f) /\ cmFin[f].alone =>
      /\ \A g \in Finalizers \ {f} : ~Ranking(g)
      /\ \A k \in DOMAIN cmFin[f].list :
           cmFin[f].list[k] \notin cmFin[f].moved => cmRank[cmFin[f].list[k]] = k
      /\ \A c \in Candidates \ Listed(f) : cmRank[c] # 0 => c \in cmFin[f].passed

\* Who has a rank, or is about to be given one, is approved or was rejected.
RankedWereApproved ==
    \A c \in Candidates :
      cmRank[c] # 0 \/ (\E f \in Finalizers : c \in Listed(f))
        => cmCand[c] \in {"approved", "rejected"}

RankInv == RankTypeOK /\ AloneRanks /\ RankedWereApproved /\ OneRanking

\* An order of some candidates lists each of them once.
LEMMA RankingsList ==
    ASSUME NEW s \in Rankings
    PROVE  /\ Len(s) \in 0..Cardinality(Candidates) /\ DOMAIN s = 1..Len(s)
           /\ \A k \in DOMAIN s : s[k] \in Candidates
           /\ \A j, k \in DOMAIN s : s[j] = s[k] => j = k
<1>1. PICK S \in SUBSET Candidates : s \in Orders(S)
  BY DEF Rankings
<1>2. s \in [1..Cardinality(S) -> S] /\ \A j, k \in DOMAIN s : s[j] = s[k] => j = k
  BY <1>1 DEF Orders
<1>3. Cardinality(S) \in Nat /\ Cardinality(S) =< Cardinality(Candidates)
      /\ Cardinality(Candidates) \in Nat
  BY FS_Subset, FS_CardinalityType, RankingAssumption
<1>4. s \in Seq(S) /\ Len(s) = Cardinality(S) /\ DOMAIN s = 1..Len(s)
  BY <1>2, <1>3
<1> QED BY <1>2, <1>3, <1>4

\* A ranking of nobody is one.
LEMMA NoRankingIsTyped ==
    /\ <<>> \in Rankings
    /\ 1 \in 1..Cardinality(Candidates) + 1 /\ 0 \in Ranks /\ Cardinality(Candidates) \in Nat
    /\ NoRanking \in [at : {"idle", "ranking"}, list : Rankings, moved : SUBSET Candidates,
                      next : 1..Cardinality(Candidates) + 1, alone : BOOLEAN,
                      passed : SUBSET Candidates]
<1>1. Cardinality(Candidates) \in Nat
  BY FS_CardinalityType, RankingAssumption
<1>2. <<>> \in Orders({})
  <2>1. Cardinality({}) = 0
    BY FS_EmptySet
  <2>2. <<>> \in [1..0 -> {}] /\ DOMAIN <<>> = {}
    OBVIOUS
  <2> QED BY <2>1, <2>2 DEF Orders
<1>3. <<>> \in Rankings
  BY <1>2 DEF Rankings
<1> QED BY <1>1, <1>3 DEF NoRanking, Ranks

\* An order of a set lists all of it.
LEMMA EveryoneIsListed ==
    ASSUME NEW S \in SUBSET Candidates, NEW s \in Orders(S), NEW c \in S
    PROVE  c \in {s[k] : k \in DOMAIN s}
<1>1. IsFiniteSet(S) /\ Cardinality(S) \in Nat
  BY FS_Subset, FS_CardinalityType, RankingAssumption
<1> DEFINE n == Cardinality(S)
<1>2. s \in Injection(1..n, S)
  BY DEF Orders, Injection, IsInjective
<1>3. Cardinality(1..n) = n
  BY <1>1, FS_Interval
<1>4. s \in Surjection(1..n, S)
  BY <1>1, <1>2, <1>3, FS_Injection
<1> QED BY <1>4 DEF Surjection, Orders

\* The initial states satisfy RankInv.
LEMMA RankInitial == RankInit => RankInv
<1> SUFFICES ASSUME RankInit PROVE RankTypeOK /\ AloneRanks /\ RankedWereApproved /\ OneRanking
  BY DEF RankInv
<1> USE DEF RankInit
<1>1. cmFin \in [Finalizers -> [at : {"idle", "ranking"}, list : Rankings,
                                 moved : SUBSET Candidates,
                                 next : 1..Cardinality(Candidates) + 1, alone : BOOLEAN,
                                 passed : SUBSET Candidates]]
  BY NoRankingIsTyped
<1>2. cmScore \in [Candidates -> 0..MaxScore]
  BY RankingAssumption
<1>3. cmRank \in [Candidates -> Ranks]
  BY NoRankingIsTyped
<1>4. RankTypeOK
  BY <1>1, <1>2, <1>3, NoRankingIsTyped, RankingAssumption DEF RankTypeOK, Phases
<1>5. AloneRanks
  BY DEF AloneRanks, Ranking, NoRanking
<1>6. RankedWereApproved
  BY DEF RankedWereApproved, Listed, NoRanking
<1>7. OneRanking
  BY DEF OneRanking
<1> QED BY <1>4, <1>5, <1>6, <1>7

\* Every step of RankNext keeps RankInv.
LEMMA RankStep == RankInv /\ [RankNext]_rankVars => RankInv'
<1> SUFFICES ASSUME RankTypeOK, AloneRanks, RankedWereApproved, OneRanking, [RankNext]_rankVars
             PROVE  RankTypeOK' /\ AloneRanks' /\ RankedWereApproved' /\ OneRanking'
  BY DEF RankInv
<1> USE RankingAssumption, NoRankingIsTyped DEF Ranking
<1>1. CASE Publish
  <2>1. RankTypeOK'
    BY <1>1 DEF Publish, RankTypeOK, Phases
  <2>2. AloneRanks'
    BY <1>1 DEF Publish, AloneRanks, Listed
  <2>3. RankedWereApproved'
    BY <1>1 DEF Publish, RankedWereApproved, Listed
  <2>4. OneRanking'
    BY <1>1 DEF Publish, OneRanking
  <2> QED BY <2>1, <2>2, <2>3, <2>4
<1>2. CASE Close
  <2>1. RankTypeOK'
    BY <1>2 DEF Close, RankTypeOK, Phases
  <2>2. AloneRanks'
    BY <1>2 DEF Close, AloneRanks, Listed
  <2>3. RankedWereApproved'
    BY <1>2 DEF Close, RankedWereApproved, Listed
  <2>4. OneRanking'
    BY <1>2 DEF Close, OneRanking
  <2> QED BY <2>1, <2>2, <2>3, <2>4
<1>3. ASSUME NEW s \in Phases, Update(s)
      PROVE  RankTypeOK' /\ AloneRanks' /\ RankedWereApproved' /\ OneRanking'
  <2>1. RankTypeOK'
    BY <1>3 DEF Update, RankTypeOK
  <2>2. AloneRanks'
    BY <1>3 DEF Update, AloneRanks, Listed
  <2>3. RankedWereApproved'
    BY <1>3 DEF Update, RankedWereApproved, Listed
  <2>4. OneRanking'
    BY <1>3 DEF Update, OneRanking
  <2> QED BY <2>1, <2>2, <2>3, <2>4
<1>4. ASSUME NEW c \in Candidates, Apply(c)
      PROVE  RankTypeOK' /\ AloneRanks' /\ RankedWereApproved' /\ OneRanking'
  <2>1. RankTypeOK'
    BY <1>4 DEF Apply, RankTypeOK
  <2>2. AloneRanks'
    BY <1>4 DEF Apply, AloneRanks, Listed
  <2>3. RankedWereApproved'
    BY <1>4 DEF Apply, RankedWereApproved, Listed, RankTypeOK
  <2>4. OneRanking'
    BY <1>4 DEF Apply, OneRanking
  <2> QED BY <2>1, <2>2, <2>3, <2>4
<1>5. ASSUME NEW c \in Candidates, Support(c)
      PROVE  RankTypeOK' /\ AloneRanks' /\ RankedWereApproved' /\ OneRanking'
  <2>1. RankTypeOK'
    BY <1>5 DEF Support, RankTypeOK
  <2>2. AloneRanks'
    BY <1>5 DEF Support, AloneRanks, Listed
  <2>3. RankedWereApproved'
    BY <1>5 DEF Support, RankedWereApproved, Listed, RankTypeOK
  <2>4. OneRanking'
    BY <1>5 DEF Support, OneRanking
  <2> QED BY <2>1, <2>2, <2>3, <2>4
<1>6. ASSUME NEW c \in Candidates, NEW d \in {"approved", "rejected"}, Review(c, d)
      PROVE  RankTypeOK' /\ AloneRanks' /\ RankedWereApproved' /\ OneRanking'
  <2>1. /\ cmCand' = [cmCand EXCEPT ![c] = d]
        /\ UNCHANGED <<cmStatus, cmScore, cmRank, cmFin, cmLast, cmPassed>>
    BY <1>6 DEF Review
  <2>2. RankTypeOK'
    BY <2>1 DEF RankTypeOK
  <2>3. AloneRanks'
    BY <2>1 DEF AloneRanks, Listed
  <2>4. RankedWereApproved'
    <3>1. \A f \in Finalizers : Listed(f)' = Listed(f)
      BY <2>1 DEF Listed
    <3> QED BY <2>1, <3>1 DEF RankedWereApproved, RankTypeOK
  <2>5. OneRanking'
    BY <2>1 DEF OneRanking
  <2> QED BY <2>2, <2>3, <2>4, <2>5
<1>7. ASSUME NEW f \in Finalizers, StartRanking(f)
      PROVE  RankTypeOK' /\ AloneRanks' /\ RankedWereApproved' /\ OneRanking'
  <2>1. PICK s \in Orders({c \in Candidates : cmCand[c] = "approved"}) :
          cmFin' = [g \in Finalizers |->
              IF g = f
                THEN [at |-> "ranking", list |-> s, moved |-> Moved(s), next |-> 1,
                      alone |-> NoneRanks, passed |-> IF NoneRanks THEN PassedOver ELSE {}]
                ELSE IF Ranking(g) THEN [cmFin[g] EXCEPT !.alone = FALSE, !.passed = {}]
                ELSE cmFin[g]]
    BY <1>7 DEF StartRanking
  <2>2. s \in Rankings
    BY DEF Rankings
  <2>3. UNCHANGED <<cmStatus, cmCand, cmScore, cmRank, cmLast, cmPassed>>
    BY <1>7 DEF StartRanking
  <2>4. Moved(s) \in SUBSET Candidates
    BY <2>2, RankingsList DEF Moved
  <2>5. RankTypeOK'
    <3> DEFINE Row == [at : {"idle", "ranking"}, list : Rankings, moved : SUBSET Candidates,
                       next : 1..Cardinality(Candidates) + 1, alone : BOOLEAN,
                       passed : SUBSET Candidates]
    <3>1. PassedOver \in SUBSET Candidates /\ NoneRanks \in BOOLEAN
      BY DEF PassedOver, NoneRanks
    <3>2. [at |-> "ranking", list |-> s, moved |-> Moved(s), next |-> 1, alone |-> NoneRanks,
           passed |-> IF NoneRanks THEN PassedOver ELSE {}] \in Row
      BY <2>2, <2>4, <3>1, NoRankingIsTyped
    <3>3. \A g \in Finalizers : [cmFin[g] EXCEPT !.alone = FALSE, !.passed = {}] \in Row
      BY DEF RankTypeOK
    <3>4. \A g \in Finalizers : cmFin[g] \in Row
      BY DEF RankTypeOK
    <3> HIDE DEF Row
    <3>5. cmFin' \in [Finalizers -> Row]
      BY <2>1, <3>2, <3>3, <3>4
    <3> QED BY <2>3, <3>5 DEF RankTypeOK, Row
  <2>6. AloneRanks'
    <3>1. ASSUME NEW g \in Finalizers, Ranking(g)', cmFin'[g].alone
          PROVE  g = f /\ NoneRanks /\ cmFin'[f].passed = PassedOver
      BY <2>1, <3>1 DEF RankTypeOK, Ranking
    <3>2. cmFin'[f].list = s /\ cmFin'[f].moved = Moved(s)
          /\ \A g \in Finalizers \ {f} : cmFin'[g].at = cmFin[g].at
      BY <2>1 DEF RankTypeOK
    <3>3. \A k \in DOMAIN s : s[k] \notin Moved(s) => cmRank[s[k]] = k
      BY DEF Moved
    <3>4. ASSUME NEW c \in Candidates \ Listed(f)', cmRank[c] # 0 PROVE c \in PassedOver
      <4>1. Listed(f)' = {s[k] : k \in DOMAIN s}
        BY <3>2 DEF Listed
      <4>2. cmCand[c] # "approved"
        <5> DEFINE S == {d \in Candidates : cmCand[d] = "approved"}
        <5> SUFFICES ASSUME c \in S PROVE FALSE
          BY <3>4
        <5>1. S \in SUBSET Candidates /\ s \in Orders(S)
          BY <2>1
        <5> HIDE DEF S
        <5>2. c \in {s[k] : k \in DOMAIN s}
          BY <5>1, EveryoneIsListed
        <5> QED BY <3>4, <4>1, <5>2
      <4> QED BY <3>4, <4>2 DEF RankedWereApproved, PassedOver
    <3> QED BY <2>3, <3>1, <3>2, <3>3, <3>4 DEF AloneRanks, NoneRanks, Ranking
  <2>7. RankedWereApproved'
    <3>1. \A g \in Finalizers \ {f} : Listed(g)' = Listed(g)
      BY <2>1 DEF Listed, RankTypeOK
    <3>2. \A c \in Listed(f)' : cmCand[c] = "approved"
      <4>1. cmFin'[f].list = s
        BY <2>1
      <4> QED BY <4>1 DEF Listed, Orders
    <3> QED BY <2>3, <3>1, <3>2 DEF RankedWereApproved
  <2>8. OneRanking'
    BY <2>3 DEF OneRanking
  <2> QED BY <2>5, <2>6, <2>7, <2>8
<1>8. ASSUME NEW f \in Finalizers, SaveRank(f)
      PROVE  RankTypeOK' /\ AloneRanks' /\ RankedWereApproved' /\ OneRanking'
  <2>1. RankTypeOK'
    <3>1. cmFin[f].list \in Rankings /\ cmFin[f].next \in DOMAIN cmFin[f].list
      BY <1>8 DEF SaveRank, RankTypeOK
    <3>2. cmFin[f].next + 1 \in 1..Cardinality(Candidates) + 1
      BY <3>1, RankingsList
    <3>3. UNCHANGED <<cmStatus, cmCand, cmScore, cmRank, cmLast, cmPassed>>
          /\ cmFin' = [cmFin EXCEPT ![f] = [cmFin[f] EXCEPT !.next = cmFin[f].next + 1]]
      BY <1>8 DEF SaveRank, RanksSeen
    <3> DEFINE Row == [at : {"idle", "ranking"}, list : Rankings, moved : SUBSET Candidates,
                       next : 1..Cardinality(Candidates) + 1, alone : BOOLEAN,
                       passed : SUBSET Candidates]
    <3>4. [cmFin[f] EXCEPT !.next = cmFin[f].next + 1] \in Row
      BY <3>2 DEF RankTypeOK
    <3>5. cmFin \in [Finalizers -> Row]
      BY DEF RankTypeOK
    <3>6. cmFin' \in [Finalizers -> Row]
      <4> DEFINE saved == [cmFin[f] EXCEPT !.next = cmFin[f].next + 1]
      <4> HIDE DEF Row, saved
      <4>1. cmFin' = [cmFin EXCEPT ![f] = saved] /\ saved \in Row
        BY <3>3, <3>4 DEF saved
      <4> QED BY <3>5, <4>1
    <3> QED BY <3>3, <3>6 DEF RankTypeOK
  <2>2. /\ UNCHANGED <<cmCand, cmRank, cmLast, cmPassed>>
        /\ \A g \in Finalizers : /\ cmFin'[g].at = cmFin[g].at /\ cmFin'[g].list = cmFin[g].list
                                 /\ cmFin'[g].moved = cmFin[g].moved
                                 /\ cmFin'[g].alone = cmFin[g].alone
                                 /\ cmFin'[g].passed = cmFin[g].passed
    BY <1>8 DEF SaveRank, RanksSeen, RankTypeOK
  <2>3. \A g \in Finalizers : Listed(g)' = Listed(g)
    BY <2>2 DEF Listed
  <2>4. AloneRanks'
    BY <2>2, <2>3 DEF AloneRanks
  <2>5. RankedWereApproved'
    BY <2>2, <2>3 DEF RankedWereApproved
  <2>6. OneRanking'
    BY <2>2 DEF OneRanking
  <2> QED BY <2>1, <2>4, <2>5, <2>6
<1>9. ASSUME NEW f \in Finalizers, CommitRanking(f)
      PROVE  RankTypeOK' /\ AloneRanks' /\ RankedWereApproved' /\ OneRanking'
  <2> DEFINE s == cmFin[f].list
  <2>1. s \in Rankings /\ cmFin[f].moved \in SUBSET Candidates /\ cmFin[f].next = Len(s) + 1
    BY <1>9 DEF CommitRanking, RankTypeOK
  <2>2. \A k \in DOMAIN s : /\ s[k] \in Candidates /\ k \in Ranks
                            /\ \A j \in DOMAIN s : s[j] = s[k] => j = k
    BY <2>1, RankingsList DEF Ranks
  <2>3. Written(f) = {s[k] : k \in DOMAIN s} \cap cmFin[f].moved
    BY <2>1, RankingsList DEF Written
  <2>4. \A k \in DOMAIN s : s[k] \in cmFin[f].moved => RanksCommitted(f)[s[k]] = k
    BY <2>2, <2>3 DEF RanksCommitted
  <2>5. \A c \in Candidates : c \notin Written(f) => RanksCommitted(f)[c] = cmRank[c]
    BY DEF RanksCommitted
  <2>6. RanksCommitted(f) \in [Candidates -> Ranks]
    <3>1. ASSUME NEW c \in Candidates PROVE RanksCommitted(f)[c] \in Ranks
      <4>1. CASE c \in Written(f)
        BY <2>2, <2>3, <2>4, <4>1
      <4>2. CASE c \notin Written(f)
        BY <2>5, <4>2 DEF RankTypeOK
      <4> QED BY <4>1, <4>2
    <3> QED BY <3>1 DEF RanksCommitted
  <2>7. /\ cmRank' = RanksCommitted(f)
        /\ cmLast' = IF cmFin[f].alone THEN s ELSE NULL
        /\ cmPassed' = cmFin[f].passed
        /\ cmFin' = [cmFin EXCEPT ![f] = NoRanking]
        /\ UNCHANGED <<cmCand, cmScore>> /\ cmStatus' \in Phases
    BY <1>9 DEF CommitRanking, RankTypeOK, Phases
  <2>8. RankTypeOK'
    BY <2>1, <2>6, <2>7 DEF RankTypeOK
  <2>9. Listed(f) = {s[k] : k \in DOMAIN s} /\ Written(f) \subseteq Listed(f)
    BY <2>3 DEF Listed
  <2>10. /\ \A g \in Finalizers \ {f} : cmFin'[g] = cmFin[g] /\ Listed(g)' = Listed(g)
         /\ cmFin'[f].at = "idle" /\ Listed(f)' = {}
    BY <2>7 DEF Listed, NoRanking, RankTypeOK
  <2>11. AloneRanks'
    <3>1. ASSUME NEW g \in Finalizers, Ranking(g)', cmFin'[g].alone PROVE FALSE
      BY <1>9, <2>10, <3>1 DEF AloneRanks, CommitRanking
    <3> QED BY <3>1 DEF AloneRanks
  <2>12. RankedWereApproved'
    <3> SUFFICES ASSUME NEW c \in Candidates,
                        cmRank'[c] # 0 \/ \E g \in Finalizers : c \in Listed(g)'
                 PROVE  cmCand[c] \in {"approved", "rejected"}
      BY <2>7 DEF RankedWereApproved
    <3>1. CASE c \in Written(f)
      BY <2>7, <2>9, <3>1 DEF RankedWereApproved
    <3>2. CASE c \notin Written(f)
      BY <2>5, <2>7, <2>10, <3>2 DEF RankedWereApproved
    <3> QED BY <3>1, <3>2
  <2>13. OneRanking'
    <3>1. CASE cmFin[f].alone
      <4>1. /\ \A k \in DOMAIN s : s[k] \notin cmFin[f].moved => cmRank[s[k]] = k
            /\ \A c \in Candidates \ Listed(f) : cmRank[c] # 0 => c \in cmFin[f].passed
        BY <1>9, <3>1 DEF CommitRanking, AloneRanks
      <4>2. cmLast' = s
        BY <2>7, <3>1
      <4>3. \A k \in DOMAIN s : cmRank'[s[k]] = k
        BY <2>2, <2>3, <2>4, <2>5, <2>7, <4>1
      <4>4. ASSUME NEW c \in Candidates, cmRank'[c] # 0 PROVE c \in Range(s) \cup cmPassed'
        <5>1. CASE c \in Listed(f)
          BY <2>9, <5>1 DEF Range
        <5>2. CASE c \notin Listed(f)
          BY <2>5, <2>7, <2>9, <4>1, <4>4, <5>2
        <5> QED BY <5>1, <5>2
      <4> QED BY <4>2, <4>3, <4>4 DEF OneRanking
    <3>2. CASE ~cmFin[f].alone
      BY <2>7, <3>2 DEF OneRanking
    <3> QED BY <3>1, <3>2
  <2> QED BY <2>8, <2>11, <2>12, <2>13
<1>10. ASSUME NEW f \in Finalizers, AbortRanking(f)
      PROVE  RankTypeOK' /\ AloneRanks' /\ RankedWereApproved' /\ OneRanking'
  <2>1. RankTypeOK'
    BY <1>10 DEF AbortRanking, RankTypeOK
  <2>2. /\ \A g \in Finalizers \ {f} : cmFin'[g] = cmFin[g] /\ Listed(g)' = Listed(g)
        /\ cmFin'[f].at = "idle" /\ Listed(f)' = {}
        /\ UNCHANGED <<cmCand, cmRank, cmLast, cmPassed>>
    BY <1>10 DEF AbortRanking, Listed, NoRanking, RankTypeOK
  <2>3. AloneRanks'
    BY <2>2 DEF AloneRanks
  <2>4. RankedWereApproved'
    BY <2>2 DEF RankedWereApproved
  <2>5. OneRanking'
    BY <2>2 DEF OneRanking
  <2> QED BY <2>1, <2>3, <2>4, <2>5
<1>11. CASE UNCHANGED rankVars
  <2>1. RankTypeOK'
    BY <1>11 DEF rankVars, RankTypeOK
  <2>2. AloneRanks'
    BY <1>11 DEF rankVars, AloneRanks, Listed
  <2>3. RankedWereApproved'
    BY <1>11 DEF rankVars, RankedWereApproved, Listed
  <2>4. OneRanking'
    BY <1>11 DEF rankVars, OneRanking
  <2> QED BY <2>1, <2>2, <2>3, <2>4
<1> QED BY <1>1, <1>2, <1>3, <1>4, <1>5, <1>6, <1>7, <1>8, <1>9, <1>10, <1>11 DEF RankNext

\* The ranks of a competition are those of the ranking committed last, unless two of
\* them overlapped, and other ranks are left only on candidates who were rejected when it
\* read who is approved: for every number of candidates and of requests that end it.
THEOREM RankingIsOne == RankSpec => [](RankTypeOK /\ OneRanking)
<1>1. RankInit => RankInv
  BY RankInitial
<1>2. RankInv /\ [RankNext]_rankVars => RankInv'
  BY RankStep
<1>3. RankInv => RankTypeOK /\ OneRanking
  BY DEF RankInv
<1> QED BY <1>1, <1>2, <1>3, PTL DEF RankSpec

-----------------------------------------------------------------------------
(* The stage of a competition, and its recordings.                         *)

\* What is open is what is due.
DueIsOpen ==
    IF stDue = "nothing"
      THEN OpenSlots = {}
      ELSE \E k \in OpenSlots :
             /\ OpenSlots = {k}
             /\ stSlots[k].artist = IF stDue = "performer" THEN stPerformer ELSE NULL

\* A chain that starts for somebody, or for nobody, does what is due.
IsDue(who) == IF who = NULL THEN stDue = "hand" ELSE stDue = "performer" /\ stPerformer = who

\* What a chain relies on at each of its steps, when no other overlapped it. A start by
\* hand finds the stage as it was left, the start of a chain finds it empty.
InStep == {c \in StageCalls :
    LET chain == stChain[c] IN
    /\ chain.at = "asked" => (chain.kept <=> chain.who = stPerformer)
    /\ chain.at \in {"stop", "found"} =>
         IF chain.who = NULL THEN stDue = "nothing"
                             ELSE stDue = "performer" /\ stPerformer = chain.who
    /\ chain.at = "found" => chain.slot \in DOMAIN stSlots /\ OpenSlots \subseteq {chain.slot}
    /\ chain.at = "start" =>
         IF chain.who = NULL THEN DueIsOpen
                             ELSE OpenSlots = {} /\ stDue = "performer" /\ stPerformer = chain.who
    /\ chain.at = "checked" => OpenSlots = {} /\ IsDue(chain.who)
    /\ chain.at = "created" => /\ OpenSlots = {chain.slot} /\ IsDue(chain.who)
                               /\ stSlots[chain.slot] = [artist |-> chain.who, status |-> "pending"]}

\* Unless the stage is muddled there is one chain, and one open recording, which runs
\* but for the moment in which the chain starts it.
OneChain ==
    ~stMuddled =>
      /\ \A c, d \in StageCalls : stChain[c] # NoChain /\ stChain[d] # NoChain => c = d
      /\ \A j, k \in OpenSlots : j = k
      /\ \A k \in OpenSlots : stSlots[k].status = "active"
                              \/ \E c \in StageCalls : stChain[c].at = "created"
      /\ StageCalls \subseteq InStep

StageInv == StageTypeOK /\ OneChain /\ PerformerIsRecorded

\* The recordings by their numbers, and what a change of one leaves.
LEMMA SlotsAreNumbered ==
    ASSUME StageTypeOK
    PROVE  /\ Len(stSlots) \in 0..MaxSlots /\ DOMAIN stSlots = 1..Len(stSlots)
           /\ \A k \in DOMAIN stSlots : stSlots[k] \in Slot
           /\ IsFiniteSet(OpenSlots) /\ OpenSlots \subseteq DOMAIN stSlots
<1>1. /\ Len(stSlots) \in 0..MaxSlots /\ DOMAIN stSlots = 1..Len(stSlots)
      /\ \A k \in DOMAIN stSlots : stSlots[k] \in Slot
  BY StageAssumption DEF StageTypeOK
<1>2. IsFiniteSet(DOMAIN stSlots)
  BY <1>1, FS_Interval
<1> QED BY <1>1, <1>2, FS_Subset DEF OpenSlots

\* A set of at most one element has no two.
LEMMA AtMostOne ==
    ASSUME NEW S, IsFiniteSet(S), Cardinality(S) =< 1, NEW x \in S, NEW y \in S
    PROVE  x = y
<1> SUFFICES ASSUME x # y PROVE FALSE
  OBVIOUS
<1>1. IsFiniteSet(S \ {x}) /\ Cardinality(S \ {x}) = Cardinality(S) - 1
  BY FS_RemoveElement
<1>2. Cardinality(S) \in Nat /\ Cardinality(S \ {x}) \in Nat
  BY <1>1, FS_CardinalityType
<1>3. S \ {x} = {}
  BY <1>1, <1>2, FS_EmptySet
<1> QED BY <1>3

\* A slot changes its status and keeps its artist; the others stay.
LEMMA SlotChanges ==
    ASSUME StageTypeOK, NEW k \in DOMAIN stSlots, NEW status \in SlotStates, SlotTo(k, status)
    PROVE  /\ stSlots' \in Seq(Slot) /\ Len(stSlots') = Len(stSlots)
           /\ DOMAIN stSlots' = DOMAIN stSlots
           /\ \A j \in DOMAIN stSlots : j # k => stSlots'[j] = stSlots[j]
           /\ stSlots'[k].status = status /\ stSlots'[k].artist = stSlots[k].artist
<1> DEFINE new == [stSlots[k] EXCEPT !.status = status]
<1>1. stSlots \in Seq(Slot) /\ stSlots' = [stSlots EXCEPT ![k] = new]
  BY DEF StageTypeOK, SlotTo
<1>2. new \in Slot /\ new.status = status /\ new.artist = stSlots[k].artist
  BY SlotsAreNumbered DEF Slot
<1> HIDE DEF new
<1> QED BY <1>1, <1>2

\* The slot of a chain changes its status, if the chain has one.
LEMMA SlotsTyped ==
    ASSUME StageTypeOK, NEW k, NEW status \in SlotStates, SlotTo(k, status)
    PROVE  stSlots' \in Seq(Slot) /\ Len(stSlots') = Len(stSlots)
<1>1. CASE k \in DOMAIN stSlots
  BY <1>1, SlotChanges
<1>2. CASE k \notin DOMAIN stSlots
  <2>1. stSlots' = stSlots
    BY <1>2 DEF SlotTo, StageTypeOK
  <2> QED BY <2>1 DEF StageTypeOK
<1> QED BY <1>1, <1>2

\* Where nothing but one slot is open and that slot is closed, nothing is.
LEMMA LastIsClosed ==
    ASSUME StageTypeOK, NEW k \in DOMAIN stSlots, OpenSlots \subseteq {k}, SlotTo(k, "closed")
    PROVE  OpenSlots' = {}
<1>1. /\ DOMAIN stSlots' = DOMAIN stSlots /\ stSlots'[k].status = "closed"
      /\ \A j \in DOMAIN stSlots : j # k => stSlots'[j] = stSlots[j]
  BY SlotChanges DEF SlotStates
<1> QED BY <1>1 DEF OpenSlots

ChainStates == {"idle", "asked", "stop", "found", "start", "checked", "created"}
StageChain == [at : ChainStates, slot : 0..MaxSlots, who : Performers \cup {NULL}, kept : BOOLEAN]

\* A chain goes on with whom it was about; the others stay.
LEMMA ChainGoes ==
    ASSUME StageTypeOK, NEW c \in StageCalls, NEW at \in ChainStates, NEW slot \in 0..MaxSlots,
           Go(c, at, slot)
    PROVE  /\ stChain' \in [StageCalls -> StageChain]
           /\ \A d \in StageCalls \ {c} : stChain'[d] = stChain[d]
           /\ stChain'[c].at = at /\ stChain'[c].slot = slot
           /\ stChain'[c].who = stChain[c].who /\ stChain'[c].kept = stChain[c].kept
<1> DEFINE new == [stChain[c] EXCEPT !.at = at, !.slot = slot]
<1>1. stChain \in [StageCalls -> StageChain]
  BY DEF StageTypeOK, StageChain, ChainStates
<1>2. new \in StageChain /\ new.at = at /\ new.slot = slot
      /\ new.who = stChain[c].who /\ new.kept = stChain[c].kept
  BY <1>1 DEF StageChain
<1>3. stChain' = [stChain EXCEPT ![c] = new]
  BY DEF Go
<1> HIDE DEF new
<1> QED BY <1>1, <1>2, <1>3

\* A chain ends; the others stay.
LEMMA ChainEnds ==
    ASSUME StageTypeOK, NEW c \in StageCalls, End(c)
    PROVE  /\ stChain' \in [StageCalls -> StageChain]
           /\ \A d \in StageCalls \ {c} : stChain'[d] = stChain[d]
           /\ stChain'[c] = NoChain
<1>1. stChain \in [StageCalls -> StageChain]
  BY DEF StageTypeOK, StageChain, ChainStates
<1>2. NoChain \in StageChain
  BY StageAssumption DEF NoChain, StageChain, ChainStates
<1> QED BY <1>1, <1>2 DEF End

\* A chain begins; the others stay.
LEMMA ChainBegins ==
    ASSUME StageTypeOK, NEW c \in StageCalls, NEW new \in StageChain,
           stChain' = [stChain EXCEPT ![c] = new]
    PROVE  /\ stChain' \in [StageCalls -> StageChain] /\ stChain'[c] = new
           /\ \A d \in StageCalls \ {c} : stChain'[d] = stChain[d]
<1>1. stChain \in [StageCalls -> StageChain]
  BY DEF StageTypeOK, StageChain, ChainStates
<1> QED BY <1>1

\* After a half, the other one, or the end.
LEMMA HalvesFollow ==
    ASSUME StageTypeOK, NEW c \in StageCalls, NEW half \in {"stop", "start"}, After(c, half)
    PROVE  /\ stChain' \in [StageCalls -> StageChain]
           /\ \A d \in StageCalls \ {c} : stChain'[d] = stChain[d]
           /\ \/ /\ half = "stop" /\ stChain[c].who # NULL
                 /\ stChain'[c].at = "start" /\ stChain'[c].who = stChain[c].who
              \/ (half = "start" \/ stChain[c].who = NULL) /\ stChain'[c] = NoChain
<1>1. CASE half = "stop" /\ stChain[c].who # NULL
  <2>1. Go(c, "start", 0)
    BY <1>1 DEF After, Halves
  <2> QED BY <1>1, <2>1, ChainGoes, StageAssumption DEF ChainStates
<1>2. CASE half = "start" \/ stChain[c].who = NULL
  <2>1. End(c)
    BY <1>2 DEF After, Halves
  <2> QED BY <1>2, <2>1, ChainEnds
<1> QED BY <1>1, <1>2

\* The chain of c is the only one after a step, and in step.
LEMMA OnlyChain ==
    ASSUME NEW c \in StageCalls,
           ~stMuddled' =>
             /\ \A d \in StageCalls \ {c} : stChain'[d] = NoChain
             /\ \A j, k \in OpenSlots' : j = k
             /\ stChain'[c].at = "created" \/ \A k \in OpenSlots' : stSlots'[k].status = "active"
             /\ c \in InStep'
    PROVE  OneChain'
<1> SUFFICES ASSUME ~stMuddled' PROVE OneChain'
  BY DEF OneChain
<1>1. \A d \in StageCalls : stChain'[d] # NoChain => d = c
  OBVIOUS
<1>2. ASSUME NEW d \in StageCalls \ {c} PROVE d \in InStep'
  BY <1>2 DEF InStep, NoChain
<1> QED BY <1>1, <1>2 DEF OneChain

\* Who has a chain is alone, and in step.
LEMMA OthersQuiet ==
    ASSUME OneChain, ~stMuddled, NEW c \in StageCalls, stChain[c] # NoChain
    PROVE  /\ \A d \in StageCalls \ {c} : stChain[d] = NoChain
           /\ \A j, k \in OpenSlots : j = k
           /\ stChain[c].at # "created" => \A k \in OpenSlots : stSlots[k].status = "active"
           /\ c \in InStep
<1>1. \A d \in StageCalls \ {c} : stChain[d] = NoChain
  BY DEF OneChain
<1>2. \A d \in StageCalls : stChain[d].at = "created" => d = c
  BY <1>1 DEF NoChain
<1> QED BY <1>1, <1>2 DEF OneChain

\* The initial states satisfy StageInv.
LEMMA StageInitial == StageInit => StageInv
<1> SUFFICES ASSUME StageInit PROVE StageTypeOK /\ OneChain /\ PerformerIsRecorded
  BY DEF StageInv
<1> USE StageAssumption DEF StageInit
<1>1. stSlots \in Seq(Slot) /\ Len(stSlots) = 0 /\ OpenSlots = {}
  BY DEF OpenSlots
<1>2. NoChain \in [at : {"idle", "asked", "stop", "found", "start", "checked", "created"},
                   slot : 0..MaxSlots, who : Performers \cup {NULL}, kept : BOOLEAN]
  BY DEF NoChain
<1>3. stChain \in [StageCalls ->
                     [at : {"idle", "asked", "stop", "found", "start", "checked", "created"},
                      slot : 0..MaxSlots, who : Performers \cup {NULL}, kept : BOOLEAN]]
  BY <1>2
<1>4. StageTypeOK
  <2>1. Len(stSlots) =< MaxSlots /\ stFaults \in 0..MaxStageFaults /\ stPerformer = NULL
    BY <1>1
  <2> QED BY <1>1, <1>3, <2>1 DEF StageTypeOK
<1>5. OneChain
  BY <1>1 DEF OneChain, InStep, NoChain
<1>6. PerformerIsRecorded
  BY <1>1 DEF PerformerIsRecorded
<1> QED BY <1>4, <1>5, <1>6

\* To stop alone keeps StageInv.
LEMMA StopAloneStep ==
    ASSUME StageTypeOK, OneChain, NEW c \in StageCalls, StopAlone(c)
    PROVE  StageTypeOK' /\ OneChain' /\ PerformerIsRecorded'
<1> DEFINE new == [NoChain EXCEPT !.at = "stop"]
<1>1. /\ stChain[c] = NoChain /\ stMuddled' = ~InOrder /\ stDue' = "nothing"
      /\ stChain' = [stChain EXCEPT ![c] = new]
      /\ UNCHANGED <<stPerformer, stSlots, stFaults>>
  BY DEF StopAlone
<1>2. new \in StageChain /\ new.at = "stop" /\ new.who = NULL
  <2>1. NoChain \in StageChain /\ NoChain.who = NULL
    BY StageAssumption DEF NoChain, StageChain, ChainStates
  <2>2. "stop" \in ChainStates
    BY DEF ChainStates
  <2> QED BY <2>1, <2>2 DEF StageChain
<1> HIDE DEF new
<1>3. /\ stChain' \in [StageCalls -> StageChain] /\ stChain'[c] = new
      /\ \A d \in StageCalls \ {c} : stChain'[d] = stChain[d]
  BY <1>1, <1>2, ChainBegins
<1>4. OpenSlots' = OpenSlots
  BY <1>1 DEF OpenSlots
<1>5. StageTypeOK'
  <2>1. stMuddled' \in BOOLEAN
    BY <1>1
  <2> QED BY <1>1, <1>3, <2>1 DEF StageTypeOK, StageChain, ChainStates
<1>6. OneChain'
  <2>1. ASSUME ~stMuddled'
        PROVE  /\ \A d \in StageCalls \ {c} : stChain'[d] = NoChain
               /\ \A j, k \in OpenSlots' : j = k
               /\ \A k \in OpenSlots' : stSlots'[k].status = "active"
               /\ c \in InStep'
    <3>1. InOrder
      BY <1>1, <2>1
    <3>2. \A d \in StageCalls \ {c} : stChain'[d] = NoChain
      BY <1>3, <3>1 DEF InOrder, AllQuiet
    <3>3. \A j, k \in OpenSlots : j = k
      BY <3>1, SlotsAreNumbered, AtMostOne DEF InOrder
    <3>4. c \in InStep'
      BY <1>1, <1>2, <1>3 DEF InStep
    <3> QED BY <1>1, <1>4, <3>1, <3>2, <3>3, <3>4 DEF InOrder
  <2> QED BY <2>1, OnlyChain
<1>7. PerformerIsRecorded'
  <2>1. stChain'[c] # NoChain
    BY <1>2, <1>3 DEF NoChain
  <2> QED BY <2>1 DEF PerformerIsRecorded, AllQuiet
<1> QED BY <1>5, <1>6, <1>7

\* To create a recording for artist keeps StageInv, if a failure is not marked or the
\* artist is who the chain is for.
LEMMA NewSlotStep ==
    ASSUME StageTypeOK, OneChain, NEW c \in StageCalls, NEW artist \in Performers \cup {NULL},
           NewSlot(c, artist), stFaults' \in 0..MaxStageFaults, stMuddled' \in BOOLEAN,
           stMuddled' \/ (~stMuddled /\ artist = stChain[c].who)
    PROVE  StageTypeOK' /\ OneChain' /\ PerformerIsRecorded'
<1> USE StageAssumption
<1> DEFINE new == [artist |-> artist, status |-> "pending"]
           n == Len(stSlots) + 1
<1>1. /\ stChain[c].at = "checked" /\ stChain[c] # NoChain /\ Len(stSlots) < MaxSlots
      /\ stSlots' = Append(stSlots, new) /\ Go(c, "created", n)
      /\ UNCHANGED <<stPerformer, stDue>>
  BY DEF NewSlot, NoChain
<1>2. n \in 1..MaxSlots
  BY <1>1, SlotsAreNumbered
<1>3. /\ stChain' \in [StageCalls -> StageChain]
      /\ \A d \in StageCalls \ {c} : stChain'[d] = stChain[d]
      /\ stChain'[c].at = "created" /\ stChain'[c].slot = n
      /\ stChain'[c].who = stChain[c].who /\ stChain'[c] # NoChain
  BY <1>1, <1>2, ChainGoes DEF ChainStates, NoChain
<1>4. /\ stSlots' \in Seq(Slot) /\ Len(stSlots') = n /\ DOMAIN stSlots' = 1..n
      /\ \A k \in DOMAIN stSlots : stSlots'[k] = stSlots[k]
      /\ stSlots'[n] = new
  <2>1. new \in Slot /\ stSlots \in Seq(Slot)
    BY DEF Slot, SlotStates, StageTypeOK
  <2> HIDE DEF new
  <2> QED BY <1>1, <2>1
<1>5. StageTypeOK'
  BY <1>1, <1>2, <1>3, <1>4 DEF StageTypeOK, StageChain, ChainStates
<1>6. ASSUME ~stMuddled'
      PROVE  /\ \A d \in StageCalls \ {c} : stChain[d] = NoChain
             /\ OpenSlots' = {n} /\ IsDue(stChain[c].who)
  <2>1. /\ \A d \in StageCalls \ {c} : stChain[d] = NoChain
        /\ OpenSlots = {} /\ IsDue(stChain[c].who)
    BY <1>1, <1>6, OthersQuiet DEF InStep
  <2>2. DOMAIN stSlots = 1..Len(stSlots) /\ Len(stSlots) \in Nat
    BY SlotsAreNumbered
  <2>3. OpenSlots' = {n}
    BY <1>4, <2>1, <2>2 DEF OpenSlots
  <2> QED BY <2>1, <2>3
<1>7. ~stMuddled' => c \in InStep'
  BY <1>1, <1>3, <1>4, <1>6 DEF InStep, IsDue
<1>8. OneChain'
  BY <1>3, <1>6, <1>7, OnlyChain
<1>9. PerformerIsRecorded'
  BY <1>3 DEF PerformerIsRecorded, AllQuiet
<1> QED BY <1>5, <1>8, <1>9

\* The end of a recording keeps StageInv.
LEMMA SlotEndsStep ==
    ASSUME StageTypeOK, OneChain, PerformerIsRecorded, NEW k \in DOMAIN stSlots, SlotEnds(k)
    PROVE  StageTypeOK' /\ OneChain' /\ PerformerIsRecorded'
<1> USE StageAssumption
<1>1. /\ stSlots[k].status # "closed" /\ SlotTo(k, "closed")
      /\ stMuddled' = (stMuddled \/ stSlots[k].status = "pending")
      /\ stDue' = IF Stopping THEN stDue ELSE "nothing"
      /\ UNCHANGED <<stPerformer, stChain, stFaults>>
  BY DEF SlotEnds
<1>2. StageTypeOK'
  BY <1>1, SlotsTyped DEF StageTypeOK, SlotStates
<1>3. ASSUME ~stMuddled'
      PROVE  ~stMuddled /\ stSlots[k].status = "active" /\ k \in OpenSlots /\ OpenSlots' = {}
  <2>1. ~stMuddled /\ stSlots[k].status = "active" /\ k \in OpenSlots
    BY <1>1, <1>3, SlotsAreNumbered DEF OpenSlots, Slot, SlotStates
  <2>2. OpenSlots \subseteq {k}
    BY <2>1 DEF OneChain
  <2> QED BY <1>1, <2>1, <2>2, LastIsClosed
<1>4. OneChain'
  <2> SUFFICES ASSUME ~stMuddled' PROVE StageCalls \subseteq InStep'
    BY <1>1, <1>3 DEF OneChain
  <2> SUFFICES ASSUME NEW c \in StageCalls, stChain[c] # NoChain PROVE c \in InStep'
    BY <1>1 DEF InStep, NoChain
  <2>1. c \in InStep /\ \A d \in StageCalls \ {c} : stChain[d] = NoChain
    BY <1>3, OthersQuiet
  <2>2. DOMAIN stSlots' = DOMAIN stSlots
    BY <1>1, SlotChanges DEF SlotStates
  <2>3. stChain[c].at # "created"
    BY <1>3, <2>1 DEF InStep
  <2>4. CASE stChain[c].at \in {"stop", "found"}
    <3>1. stDue' = stDue
      BY <1>1, <2>4 DEF Stopping
    <3> QED BY <1>1, <1>3, <2>1, <2>2, <2>4, <3>1 DEF InStep
  <2>5. CASE stChain[c].at \notin {"stop", "found"}
    <3>1. ~Stopping
      BY <2>1, <2>5 DEF Stopping, NoChain
    <3>2. stDue' = "nothing"
      BY <1>1, <3>1
    <3> QED BY <1>1, <1>3, <2>1, <2>3, <2>5, <3>2 DEF InStep, DueIsOpen
  <2> QED BY <2>4, <2>5
<1>5. PerformerIsRecorded'
  <2> SUFFICES ASSUME AllQuiet', ~stMuddled' PROVE stDue' = "nothing" /\ OpenSlots' = {}
    BY DEF PerformerIsRecorded
  <2>1. ~Stopping
    BY <1>1 DEF AllQuiet, Stopping, NoChain
  <2> QED BY <1>1, <1>3, <2>1
<1> QED BY <1>2, <1>4, <1>5

\* Every step of StageNext keeps StageInv.
LEMMA StageStep == StageInv /\ [StageNext]_stageVars => StageInv'
<1> SUFFICES ASSUME StageTypeOK, OneChain, PerformerIsRecorded, [StageNext]_stageVars
             PROVE  StageTypeOK' /\ OneChain' /\ PerformerIsRecorded'
  BY DEF StageInv
<1> USE StageAssumption
<1>0. stChain \in [StageCalls -> StageChain]
  BY DEF StageTypeOK, StageChain, ChainStates
<1>1. ASSUME NEW c \in StageCalls, NEW p \in Performers \cup {NULL}, AskPerformer(c, p)
      PROVE  StageTypeOK' /\ OneChain' /\ PerformerIsRecorded'
  <2> DEFINE new == [at |-> "asked", slot |-> 0, who |-> p, kept |-> p = stPerformer]
  <2>1. /\ stChain[c] = NoChain /\ stMuddled' = ~InOrder
        /\ stChain' = [stChain EXCEPT ![c] = new]
        /\ UNCHANGED <<stPerformer, stSlots, stFaults, stDue>>
    BY <1>1 DEF AskPerformer
  <2>2. new \in StageChain /\ new.at = "asked" /\ new.who = p /\ (new.kept <=> p = stPerformer)
    <3>1. 0 \in 0..MaxSlots /\ (p = stPerformer) \in BOOLEAN
      OBVIOUS
    <3> QED BY <3>1 DEF StageChain, ChainStates
  <2> HIDE DEF new
  <2>3. /\ stChain' \in [StageCalls -> StageChain] /\ stChain'[c] = new
        /\ \A d \in StageCalls \ {c} : stChain'[d] = stChain[d]
    BY <2>1, <2>2, ChainBegins
  <2>4. OpenSlots' = OpenSlots
    BY <2>1 DEF OpenSlots
  <2>5. StageTypeOK'
    <3>1. stMuddled' \in BOOLEAN
      BY <2>1
    <3> QED BY <2>1, <2>3, <3>1 DEF StageTypeOK, StageChain, ChainStates
  <2>6. OneChain'
    <3>1. ASSUME ~stMuddled'
          PROVE  /\ \A d \in StageCalls \ {c} : stChain'[d] = NoChain
                 /\ \A j, k \in OpenSlots' : j = k
                 /\ \A k \in OpenSlots' : stSlots'[k].status = "active"
                 /\ c \in InStep'
      <4>1. InOrder
        BY <2>1, <3>1
      <4>2. \A d \in StageCalls \ {c} : stChain'[d] = NoChain
        BY <2>3, <4>1 DEF InOrder, AllQuiet
      <4>3. \A j, k \in OpenSlots : j = k
        BY <4>1, SlotsAreNumbered, AtMostOne DEF InOrder
      <4>4. c \in InStep'
        BY <2>1, <2>2, <2>3 DEF InStep
      <4> QED BY <2>1, <2>4, <4>1, <4>2, <4>3, <4>4 DEF InOrder
    <3> QED BY <3>1, OnlyChain
  <2>7. PerformerIsRecorded'
    <3>1. stChain'[c] # NoChain
      BY <2>2, <2>3 DEF NoChain
    <3> QED BY <3>1 DEF PerformerIsRecorded, AllQuiet
  <2> QED BY <2>5, <2>6, <2>7
<1>2. ASSUME NEW c \in StageCalls, SetPerformer(c)
      PROVE  StageTypeOK' /\ OneChain' /\ PerformerIsRecorded'
  <2>1. /\ stChain[c].at = "asked" /\ UNCHANGED <<stSlots, stFaults, stMuddled>>
        /\ stPerformer' = IF stChain[c].kept THEN stPerformer ELSE stChain[c].who
        /\ stDue' = IF stChain[c].who = NULL THEN "nothing" ELSE "performer"
    BY <1>2 DEF SetPerformer
  <2>2. Go(c, "stop", 0)
    BY <1>2 DEF SetPerformer, Halves
  <2>3. /\ stChain' \in [StageCalls -> StageChain]
        /\ \A d \in StageCalls \ {c} : stChain'[d] = stChain[d]
        /\ stChain'[c].at = "stop" /\ stChain'[c].who = stChain[c].who
    BY <2>2, ChainGoes DEF ChainStates
  <2>4. OpenSlots' = OpenSlots /\ stChain[c] # NoChain /\ stChain'[c] # NoChain
    BY <2>1, <2>3 DEF OpenSlots, NoChain
  <2>5. stPerformer' \in Performers \cup {NULL}
    BY <1>0, <2>1 DEF StageTypeOK, StageChain
  <2>6. StageTypeOK'
    BY <2>1, <2>3, <2>5 DEF StageTypeOK, StageChain, ChainStates
  <2>7. OneChain'
    <3>1. ASSUME ~stMuddled'
          PROVE  /\ \A d \in StageCalls \ {c} : stChain'[d] = NoChain
                 /\ \A j, k \in OpenSlots' : j = k
                 /\ \A k \in OpenSlots' : stSlots'[k].status = "active"
                 /\ c \in InStep'
      <4>1. /\ \A d \in StageCalls \ {c} : stChain[d] = NoChain
            /\ \A j, k \in OpenSlots : j = k
            /\ \A k \in OpenSlots : stSlots[k].status = "active"
            /\ c \in InStep
        BY <2>1, <2>4, <3>1, OthersQuiet
      <4>2. stPerformer' = stChain[c].who
        BY <2>1, <4>1 DEF InStep
      <4>3. c \in InStep'
        BY <2>1, <2>3, <4>2 DEF InStep
      <4> QED BY <2>1, <2>3, <2>4, <4>1, <4>3
    <3> QED BY <3>1, OnlyChain
  <2>8. PerformerIsRecorded'
    BY <2>4 DEF PerformerIsRecorded, AllQuiet
  <2> QED BY <2>6, <2>7, <2>8
<1>3. ASSUME NEW c \in StageCalls, FinalizeStage(c) \/ StopByHand(c)
      PROVE  StageTypeOK' /\ OneChain' /\ PerformerIsRecorded'
  BY <1>3, StopAloneStep DEF FinalizeStage, StopByHand
<1>4. ASSUME NEW c \in StageCalls, StartByHand(c)
      PROVE  StageTypeOK' /\ OneChain' /\ PerformerIsRecorded'
  <2> DEFINE new == [NoChain EXCEPT !.at = "start"]
  <2>1. /\ stChain[c] = NoChain /\ stMuddled' = (stMuddled \/ ~AllQuiet)
        /\ stChain' = [stChain EXCEPT ![c] = new]
        /\ UNCHANGED <<stPerformer, stSlots, stFaults, stDue>>
    BY <1>4 DEF StartByHand
  <2>2. new \in StageChain /\ new.at = "start" /\ new.who = NULL
    <3>1. NoChain \in StageChain /\ NoChain.who = NULL
      BY DEF NoChain, StageChain, ChainStates
    <3>2. "start" \in ChainStates
      BY DEF ChainStates
    <3> QED BY <3>1, <3>2 DEF StageChain
  <2> HIDE DEF new
  <2>3. /\ stChain' \in [StageCalls -> StageChain] /\ stChain'[c] = new
        /\ \A d \in StageCalls \ {c} : stChain'[d] = stChain[d]
    BY <2>1, <2>2, ChainBegins
  <2>4. OpenSlots' = OpenSlots
    BY <2>1 DEF OpenSlots
  <2>5. StageTypeOK'
    <3>1. stMuddled' \in BOOLEAN
      BY <2>1 DEF StageTypeOK
    <3> QED BY <2>1, <2>3, <3>1 DEF StageTypeOK, StageChain, ChainStates
  <2>6. OneChain'
    <3>1. ASSUME ~stMuddled'
          PROVE  /\ \A d \in StageCalls \ {c} : stChain'[d] = NoChain
                 /\ \A j, k \in OpenSlots' : j = k
                 /\ \A k \in OpenSlots' : stSlots'[k].status = "active"
                 /\ c \in InStep'
      <4>1. ~stMuddled /\ AllQuiet
        BY <2>1, <3>1
      <4>2. \A d \in StageCalls \ {c} : stChain'[d] = NoChain
        BY <2>3, <4>1 DEF AllQuiet
      <4>3. /\ \A j, k \in OpenSlots : j = k
            /\ \A k \in OpenSlots : stSlots[k].status = "active"
        BY <4>1 DEF OneChain, AllQuiet, NoChain
      <4>4. DueIsOpen'
        BY <2>1, <2>4, <4>1 DEF PerformerIsRecorded, DueIsOpen
      <4>5. c \in InStep'
        BY <2>2, <2>3, <4>4 DEF InStep
      <4> QED BY <2>1, <2>4, <4>2, <4>3, <4>5
    <3> QED BY <3>1, OnlyChain
  <2>7. PerformerIsRecorded'
    <3>1. stChain'[c] # NoChain
      BY <2>2, <2>3 DEF NoChain
    <3> QED BY <3>1 DEF PerformerIsRecorded, AllQuiet
  <2> QED BY <2>5, <2>6, <2>7
<1>5. ASSUME NEW c \in StageCalls, FindSlot(c)
      PROVE  StageTypeOK' /\ OneChain' /\ PerformerIsRecorded'
  <2>1. /\ stChain[c].at = "stop" /\ stChain[c] # NoChain
        /\ UNCHANGED <<stPerformer, stSlots, stFaults, stMuddled, stDue>>
    BY <1>5 DEF FindSlot, NoChain
  <2>2. OpenSlots' = OpenSlots
    BY <2>1 DEF OpenSlots
  <2>3. ~stMuddled =>
          /\ \A d \in StageCalls \ {c} : stChain[d] = NoChain
          /\ \A j, k \in OpenSlots : j = k
          /\ \A k \in OpenSlots : stSlots[k].status = "active"
          /\ IF stChain[c].who = NULL THEN stDue = "nothing"
                                      ELSE stDue = "performer" /\ stPerformer = stChain[c].who
    BY <2>1, OthersQuiet DEF InStep
  <2>4. CASE \E k \in OpenSlots : (\A j \in OpenSlots : j =< k) /\ stSlots[k].status = "active"
    <3>1. PICK k \in OpenSlots : Go(c, "found", k)
      BY <1>5, <2>4 DEF FindSlot
    <3>2. k \in 0..MaxSlots /\ k \in DOMAIN stSlots
      BY SlotsAreNumbered
    <3>3. /\ stChain' \in [StageCalls -> StageChain]
          /\ \A d \in StageCalls \ {c} : stChain'[d] = stChain[d]
          /\ stChain'[c].at = "found" /\ stChain'[c].slot = k
          /\ stChain'[c].who = stChain[c].who /\ stChain'[c] # NoChain
      BY <3>1, <3>2, ChainGoes DEF ChainStates, NoChain
    <3>4. StageTypeOK'
      BY <2>1, <3>3 DEF StageTypeOK, StageChain, ChainStates
    <3>5. ~stMuddled => c \in InStep'
      BY <2>1, <2>2, <2>3, <3>2, <3>3 DEF InStep
    <3>6. OneChain'
      BY <2>1, <2>2, <2>3, <3>3, <3>5, OnlyChain
    <3>7. PerformerIsRecorded'
      BY <3>3 DEF PerformerIsRecorded, AllQuiet
    <3> QED BY <3>4, <3>6, <3>7
  <2>5. CASE ~\E k \in OpenSlots : (\A j \in OpenSlots : j =< k) /\ stSlots[k].status = "active"
    <3>1. After(c, "stop")
      BY <1>5, <2>5 DEF FindSlot
    <3>2. /\ stChain' \in [StageCalls -> StageChain]
          /\ \A d \in StageCalls \ {c} : stChain'[d] = stChain[d]
          /\ \/ /\ stChain[c].who # NULL
                /\ stChain'[c].at = "start" /\ stChain'[c].who = stChain[c].who
             \/ stChain[c].who = NULL /\ stChain'[c] = NoChain
      BY <3>1, HalvesFollow
    <3>3. StageTypeOK'
      BY <2>1, <3>2 DEF StageTypeOK, StageChain, ChainStates
    <3>4. ~stMuddled => OpenSlots = {}
      <4> SUFFICES ASSUME ~stMuddled, NEW k \in OpenSlots PROVE FALSE
        OBVIOUS
      <4>1. k \in Nat
        BY SlotsAreNumbered
      <4>2. (\A j \in OpenSlots : j =< k) /\ stSlots[k].status = "active"
        BY <2>3, <4>1
      <4> QED BY <2>5, <4>2
    <3>5. ~stMuddled => c \in InStep'
      BY <2>1, <2>2, <2>3, <3>2, <3>4 DEF InStep, NoChain
    <3>6. OneChain'
      BY <2>1, <2>2, <2>3, <3>2, <3>4, <3>5, OnlyChain
    <3>7. PerformerIsRecorded'
      BY <2>1, <2>2, <2>3, <3>2, <3>4 DEF PerformerIsRecorded, AllQuiet, NoChain
    <3> QED BY <3>3, <3>6, <3>7
  <2> QED BY <2>4, <2>5
<1>6. ASSUME NEW c \in StageCalls, StopSlot(c)
      PROVE  StageTypeOK' /\ OneChain' /\ PerformerIsRecorded'
  <2> DEFINE k == stChain[c].slot
  <2>1. /\ stChain[c].at = "found" /\ stChain[c] # NoChain
        /\ SlotTo(k, "closed") /\ After(c, "stop")
        /\ UNCHANGED <<stPerformer, stFaults, stMuddled, stDue>>
    BY <1>6 DEF StopSlot, NoChain
  <2>2. /\ stChain' \in [StageCalls -> StageChain]
        /\ \A d \in StageCalls \ {c} : stChain'[d] = stChain[d]
        /\ \/ /\ stChain[c].who # NULL
              /\ stChain'[c].at = "start" /\ stChain'[c].who = stChain[c].who
           \/ stChain[c].who = NULL /\ stChain'[c] = NoChain
    BY <2>1, HalvesFollow
  <2>3. StageTypeOK'
    BY <2>1, <2>2, SlotsTyped DEF StageTypeOK, StageChain, ChainStates, SlotStates
  <2>4. ASSUME ~stMuddled
        PROVE  /\ \A d \in StageCalls \ {c} : stChain[d] = NoChain
               /\ OpenSlots' = {}
               /\ IF stChain[c].who = NULL THEN stDue = "nothing"
                                      ELSE stDue = "performer" /\ stPerformer = stChain[c].who
    <3>1. (\A d \in StageCalls \ {c} : stChain[d] = NoChain) /\ c \in InStep
      BY <2>1, <2>4, OthersQuiet
    <3>2. k \in DOMAIN stSlots /\ OpenSlots \subseteq {k}
      BY <2>1, <3>1 DEF InStep
    <3> QED BY <2>1, <3>1, <3>2, LastIsClosed DEF InStep
  <2>5. ~stMuddled' => c \in InStep'
    BY <2>1, <2>2, <2>4 DEF InStep, NoChain
  <2>6. OneChain'
    BY <2>1, <2>2, <2>4, <2>5, OnlyChain
  <2>7. PerformerIsRecorded'
    BY <2>1, <2>2, <2>4 DEF PerformerIsRecorded, AllQuiet, NoChain
  <2> QED BY <2>3, <2>6, <2>7
<1>7. ASSUME NEW c \in StageCalls, StopFails(c)
      PROVE  StageTypeOK' /\ OneChain' /\ PerformerIsRecorded'
  <2>1. Fail /\ After(c, "stop") /\ UNCHANGED <<stPerformer, stSlots, stDue>>
    BY <1>7 DEF StopFails
  <2>2. stChain' \in [StageCalls -> StageChain] /\ stMuddled' = TRUE /\ stFaults' \in 0..MaxStageFaults
    BY <2>1, HalvesFollow DEF Fail, StageTypeOK
  <2>3. StageTypeOK'
    BY <2>1, <2>2 DEF StageTypeOK, StageChain, ChainStates
  <2>4. OneChain' /\ PerformerIsRecorded'
    BY <2>2 DEF OneChain, PerformerIsRecorded
  <2> QED BY <2>3, <2>4
<1>8. ASSUME NEW c \in StageCalls, StartIsOff(c)
      PROVE  StageTypeOK' /\ OneChain' /\ PerformerIsRecorded'
  <2>1. /\ stChain[c].at = "start" /\ stChain[c] # NoChain /\ After(c, "start")
        /\ stDue' = IF OpenSlots = {} THEN "nothing" ELSE stDue
        /\ UNCHANGED <<stPerformer, stSlots, stFaults, stMuddled>>
    BY <1>8 DEF StartIsOff, NoChain
  <2>2. stChain' \in [StageCalls -> StageChain] /\ stChain'[c] = NoChain
        /\ \A d \in StageCalls \ {c} : stChain'[d] = stChain[d]
    BY <2>1, HalvesFollow
  <2>3. OpenSlots' = OpenSlots
    BY <2>1 DEF OpenSlots
  <2>4. StageTypeOK'
    BY <2>1, <2>2 DEF StageTypeOK, StageChain, ChainStates
  <2>5. OneChain'
    <3>1. c \in InStep'
      BY <2>2 DEF InStep, NoChain
    <3>2. ~stMuddled' =>
            /\ \A d \in StageCalls \ {c} : stChain'[d] = NoChain
            /\ \A j, k \in OpenSlots' : j = k
            /\ \A k \in OpenSlots' : stSlots'[k].status = "active"
      BY <2>1, <2>2, <2>3, OthersQuiet
    <3> QED BY <3>1, <3>2, OnlyChain
  <2>6. PerformerIsRecorded'
    <3>1. ~stMuddled => OpenSlots = {} \/ DueIsOpen
      BY <2>1, OthersQuiet DEF InStep
    <3> QED BY <2>1, <2>3, <3>1 DEF PerformerIsRecorded, DueIsOpen
  <2> QED BY <2>4, <2>5, <2>6
<1>9. ASSUME NEW c \in StageCalls, CheckSlot(c)
      PROVE  StageTypeOK' /\ OneChain' /\ PerformerIsRecorded'
  <2>1. /\ stChain[c].at = "start" /\ stChain[c] # NoChain
        /\ UNCHANGED <<stPerformer, stSlots, stFaults, stMuddled>>
    BY <1>9 DEF CheckSlot, NoChain
  <2>2. OpenSlots' = OpenSlots
    BY <2>1 DEF OpenSlots
  <2>3. ~stMuddled => (\A d \in StageCalls \ {c} : stChain[d] = NoChain) /\ c \in InStep
    BY <2>1, OthersQuiet
  <2>4. CASE OpenSlots = {}
    <3>1. Go(c, "checked", 0) /\ stDue' = IF stChain[c].who = NULL THEN "hand" ELSE "performer"
      BY <1>9, <2>4 DEF CheckSlot
    <3>2. /\ stChain' \in [StageCalls -> StageChain]
          /\ \A d \in StageCalls \ {c} : stChain'[d] = stChain[d]
          /\ stChain'[c].at = "checked" /\ stChain'[c].who = stChain[c].who
          /\ stChain'[c] # NoChain
      BY <3>1, ChainGoes DEF ChainStates, NoChain
    <3>3. StageTypeOK'
      BY <2>1, <3>1, <3>2 DEF StageTypeOK, StageChain, ChainStates
    <3>4. ~stMuddled => c \in InStep'
      BY <2>1, <2>2, <2>3, <2>4, <3>1, <3>2 DEF InStep, IsDue
    <3>5. OneChain'
      BY <2>1, <2>2, <2>3, <2>4, <3>2, <3>4, OnlyChain
    <3>6. PerformerIsRecorded'
      BY <3>2 DEF PerformerIsRecorded, AllQuiet
    <3> QED BY <3>3, <3>5, <3>6
  <2>5. CASE OpenSlots # {}
    <3>1. After(c, "start") /\ UNCHANGED stDue
      BY <1>9, <2>5 DEF CheckSlot
    <3>2. stChain' \in [StageCalls -> StageChain] /\ stChain'[c] = NoChain
          /\ \A d \in StageCalls \ {c} : stChain'[d] = stChain[d]
      BY <3>1, HalvesFollow
    <3>3. StageTypeOK'
      BY <2>1, <3>1, <3>2 DEF StageTypeOK, StageChain, ChainStates
    <3>4. OneChain'
      <4>1. c \in InStep'
        BY <3>2 DEF InStep, NoChain
      <4>2. ~stMuddled' =>
              /\ \A d \in StageCalls \ {c} : stChain'[d] = NoChain
              /\ \A j, k \in OpenSlots' : j = k
              /\ \A k \in OpenSlots' : stSlots'[k].status = "active"
        BY <2>1, <2>2, <3>2, OthersQuiet
      <4> QED BY <4>1, <4>2, OnlyChain
    <3>5. ~stMuddled => DueIsOpen
      BY <2>1, <2>3, <2>5 DEF InStep
    <3>6. PerformerIsRecorded'
      BY <2>1, <2>2, <3>1, <3>5 DEF PerformerIsRecorded, DueIsOpen
    <3> QED BY <3>3, <3>4, <3>6
  <2> QED BY <2>4, <2>5
<1>10. ASSUME NEW c \in StageCalls, CreateSlot(c)
       PROVE  StageTypeOK' /\ OneChain' /\ PerformerIsRecorded'
  <2>1. NewSlot(c, stChain[c].who) /\ UNCHANGED <<stFaults, stMuddled>>
    BY <1>10 DEF CreateSlot
  <2>2. stChain[c].who \in Performers \cup {NULL}
    BY <1>0 DEF StageChain
  <2>3. stFaults' \in 0..MaxStageFaults /\ stMuddled' \in BOOLEAN /\ (stMuddled' \/ ~stMuddled)
    BY <2>1 DEF StageTypeOK
  <2> QED BY <2>1, <2>2, <2>3, NewSlotStep
<1>11. ASSUME NEW c \in StageCalls, CreateNameless(c)
       PROVE  StageTypeOK' /\ OneChain' /\ PerformerIsRecorded'
  <2>1. NewSlot(c, NULL) /\ stFaults' \in 0..MaxStageFaults /\ stMuddled' = TRUE
    BY <1>11 DEF CreateNameless, Fail, StageTypeOK
  <2> QED BY <2>1, NewSlotStep
<1>12. ASSUME NEW c \in StageCalls, LaunchSlot(c)
      PROVE  StageTypeOK' /\ OneChain' /\ PerformerIsRecorded'
  <2> DEFINE k == stChain[c].slot
  <2>1. /\ stChain[c].at = "created" /\ stChain[c] # NoChain
        /\ SlotTo(k, "active") /\ After(c, "start")
        /\ UNCHANGED <<stPerformer, stFaults, stMuddled, stDue>>
    BY <1>12 DEF LaunchSlot, NoChain
  <2>2. /\ stChain' \in [StageCalls -> StageChain] /\ stChain'[c] = NoChain
        /\ \A d \in StageCalls \ {c} : stChain'[d] = stChain[d]
    BY <2>1, HalvesFollow
  <2>3. StageTypeOK'
    BY <2>1, <2>2, SlotsTyped DEF StageTypeOK, StageChain, ChainStates, SlotStates
  <2>4. ASSUME ~stMuddled
        PROVE  /\ \A d \in StageCalls \ {c} : stChain[d] = NoChain
               /\ OpenSlots' = {k} /\ stSlots'[k].status = "active"
               /\ stSlots'[k].artist = stChain[c].who /\ IsDue(stChain[c].who)
    <3>1. (\A d \in StageCalls \ {c} : stChain[d] = NoChain) /\ c \in InStep
      BY <2>1, <2>4, OthersQuiet
    <3>2. OpenSlots = {k} /\ stSlots[k].artist = stChain[c].who /\ IsDue(stChain[c].who)
      BY <2>1, <3>1 DEF InStep
    <3>3. k \in DOMAIN stSlots
      BY <3>2, SlotsAreNumbered
    <3>4. /\ DOMAIN stSlots' = DOMAIN stSlots
          /\ \A j \in DOMAIN stSlots : j # k => stSlots'[j] = stSlots[j]
          /\ stSlots'[k].status = "active" /\ stSlots'[k].artist = stSlots[k].artist
      BY <2>1, <3>3, SlotChanges DEF SlotStates
    <3>5. OpenSlots' = {k}
      BY <3>2, <3>3, <3>4 DEF OpenSlots
    <3> QED BY <3>1, <3>2, <3>4, <3>5
  <2>5. ~stMuddled' => c \in InStep'
    BY <2>2 DEF InStep, NoChain
  <2>6. OneChain'
    BY <2>1, <2>2, <2>4, <2>5, OnlyChain
  <2>7. PerformerIsRecorded'
    BY <2>1, <2>4 DEF PerformerIsRecorded, IsDue
  <2> QED BY <2>3, <2>6, <2>7
<1>13. ASSUME NEW c \in StageCalls, StartFails(c)
      PROVE  StageTypeOK' /\ OneChain' /\ PerformerIsRecorded'
  <2>1. /\ Fail /\ After(c, "start") /\ UNCHANGED <<stPerformer, stDue>>
        /\ stSlots' = [k \in DOMAIN stSlots |->
                     IF stSlots[k].status = "pending"
                       THEN [stSlots[k] EXCEPT !.status = "closed"] ELSE stSlots[k]]
    BY <1>13 DEF StartFails
  <2>2. stChain' \in [StageCalls -> StageChain] /\ stMuddled' = TRUE /\ stFaults' \in 0..MaxStageFaults
    BY <2>1, HalvesFollow DEF Fail, StageTypeOK
  <2>3. stSlots' \in Seq(Slot) /\ Len(stSlots') = Len(stSlots)
    <3>1. \A k \in DOMAIN stSlots : stSlots'[k] \in Slot
      BY <2>1, SlotsAreNumbered DEF Slot, SlotStates
    <3>2. DOMAIN stSlots' = 1..Len(stSlots) /\ Len(stSlots) \in Nat
      BY <2>1, SlotsAreNumbered
    <3>3. stSlots' \in [1..Len(stSlots) -> Slot]
      BY <2>1, <3>1, <3>2
    <3> QED BY <3>2, <3>3
  <2>4. StageTypeOK'
    BY <2>1, <2>2, <2>3 DEF StageTypeOK, StageChain, ChainStates
  <2>5. OneChain' /\ PerformerIsRecorded'
    BY <2>2 DEF OneChain, PerformerIsRecorded
  <2> QED BY <2>4, <2>5
<1>14. ASSUME NEW k \in DOMAIN stSlots, SlotEnds(k)
       PROVE  StageTypeOK' /\ OneChain' /\ PerformerIsRecorded'
  BY <1>14, SlotEndsStep
<1>15. CASE StageCrash
  <2>1. /\ UNCHANGED <<stPerformer, stSlots, stDue>> /\ stMuddled' = TRUE
        /\ stFaults' \in 0..MaxStageFaults /\ stChain' = [c \in StageCalls |-> NoChain]
    BY <1>15 DEF StageCrash, Fail, StageTypeOK
  <2>2. NoChain \in StageChain
    BY DEF NoChain, StageChain, ChainStates
  <2>3. stChain' \in [StageCalls -> StageChain]
    BY <2>1, <2>2
  <2>4. StageTypeOK'
    BY <2>1, <2>3 DEF StageTypeOK, StageChain, ChainStates
  <2>5. OneChain' /\ PerformerIsRecorded'
    BY <2>1 DEF OneChain, PerformerIsRecorded
  <2> QED BY <2>4, <2>5
<1>16. CASE UNCHANGED stageVars
  <2>1. StageTypeOK'
    BY <1>16 DEF stageVars, StageTypeOK
  <2>2. OneChain'
    BY <1>16 DEF stageVars, OneChain, InStep, IsDue, DueIsOpen, OpenSlots
  <2>3. PerformerIsRecorded'
    BY <1>16 DEF stageVars, PerformerIsRecorded, OpenSlots, AllQuiet
  <2> QED BY <2>1, <2>2, <2>3
<1> QED BY <1>1, <1>2, <1>3, <1>4, <1>5, <1>6, <1>7, <1>8, <1>9, <1>10, <1>11, <1>12, <1>13,
           <1>14, <1>15, <1>16 DEF StageNext

\* What is recorded is what was last asked for, allowed and not over, when no start or
\* stop overlapped another, failed or was given up: for every number of performers, of
\* recordings and of requests.
THEOREM StageIsRecorded == StageSpec => [](StageTypeOK /\ PerformerIsRecorded)
<1>1. StageInit => StageInv
  BY StageInitial
<1>2. StageInv /\ [StageNext]_stageVars => StageInv'
  BY StageStep
<1>3. StageInv => StageTypeOK /\ PerformerIsRecorded
  BY DEF StageInv
<1> QED BY <1>1, <1>2, <1>3, PTL DEF StageSpec

-----------------------------------------------------------------------------
(* Reminders.                                                              *)

\* Who was told has a row, and the ticket in hand is of one who was not told.
RowsComeFirst ==
    /\ rmJob.at \in {"checked", "recorded"} => rmJob.now \in Tickets
    /\ \A u \in Viewers \ rmRemoved :
         /\ rmTold[u] =< 1
         /\ rmTold[u] = 1 => u \in rmSent
         /\ rmJob.at \in {"checked", "recorded"} /\ Holder[rmJob.now] = u =>
              rmTold[u] = 0 /\ (rmJob.at = "recorded" => u \in rmSent)

ReminderInv == ReminderTypeOK /\ RowsComeFirst

\* The initial states satisfy ReminderInv.
LEMMA ReminderInitial == ReminderInit => ReminderInv
BY DEF ReminderInit, ReminderInv, ReminderTypeOK, RowsComeFirst, NoRun

\* Every step of ReminderNext keeps ReminderInv.
LEMMA ReminderStep == ReminderInv /\ [ReminderNext]_reminderVars => ReminderInv'
<1> SUFFICES ASSUME ReminderTypeOK, RowsComeFirst, [ReminderNext]_reminderVars
             PROVE  ReminderTypeOK' /\ RowsComeFirst'
  BY DEF ReminderInv
<1> USE ReminderAssumption DEF ReminderTypeOK, RowsComeFirst, NoRun
<1>1. ASSUME NEW u \in Viewers, SetReminder(u) PROVE ReminderTypeOK' /\ RowsComeFirst'
  BY <1>1 DEF SetReminder
<1>2. ASSUME NEW u \in Viewers, RemoveReminder(u) PROVE ReminderTypeOK' /\ RowsComeFirst'
  BY <1>2 DEF RemoveReminder
<1>3. ASSUME NEW t \in Tickets, CheckTicket(t) PROVE ReminderTypeOK' /\ RowsComeFirst'
  <2>1. CASE Holder[t] \in rmSent
    BY <1>3, <2>1 DEF CheckTicket
  <2>2. CASE Holder[t] \notin rmSent
    <3>1. /\ rmJob'.at = "checked" /\ rmJob'.now = t
          /\ UNCHANGED <<rmSent, rmOwn, rmTold, rmToldComp, rmSoon, rmRemoved>>
      BY <1>3, <2>2 DEF CheckTicket
    <3>2. ReminderTypeOK'
      BY <1>3, <2>2 DEF CheckTicket
    <3>3. RowsComeFirst'
      BY <2>2, <3>1
    <3> QED BY <3>2, <3>3
  <2> QED BY <2>1, <2>2
<1>4. ASSUME NEW t \in Tickets, NotifyCompetition(t) PROVE ReminderTypeOK' /\ RowsComeFirst'
  <2>1. rmToldComp' \in [Viewers -> 0..2]
    BY <1>4 DEF NotifyCompetition, Told
  <2>2. /\ rmJob' = [rmJob EXCEPT !.left = @ \ {t}] /\ rmJob.at = "competition"
        /\ UNCHANGED <<rmSent, rmOwn, rmTold, rmSoon, rmRemoved>>
    BY <1>4 DEF NotifyCompetition
  <2> QED BY <2>1, <2>2
<1>5. CASE JobStarts
  BY <1>5 DEF JobStarts
<1>6. CASE FirstStep
  <2>1. rmSent' = rmSent \cup {Holder[rmJob.now]} /\ UNCHANGED rmTold
    BY <1>6 DEF FirstStep, Perform, Steps, WriteRow
  <2> QED BY <1>6, <2>1 DEF FirstStep
<1>7. CASE SecondStep
  <2>1. rmTold' = Told(rmTold, Holder[rmJob.now]) /\ UNCHANGED rmSent
    BY <1>7 DEF SecondStep, Perform, Steps, Notify
  <2> QED BY <1>7, <2>1 DEF SecondStep, Told
<1>8. CASE ConcertDone
  BY <1>8 DEF ConcertDone
<1>9. CASE JobEnds \/ JobFails
  BY <1>9 DEF JobEnds, JobFails
<1>10. CASE EventsStart
  BY <1>10 DEF EventsStart
<1>11. CASE UNCHANGED reminderVars
  BY <1>11 DEF reminderVars
<1> QED BY <1>1, <1>2, <1>3, <1>4, <1>5, <1>6, <1>7, <1>8, <1>9, <1>10, <1>11 DEF ReminderNext

\* A holder is told once at most, wherever a run of the job breaks off: for every
\* number of tickets, and whoever holds them.
THEOREM RemindersTellOnce == ReminderSpec => [](ReminderTypeOK /\ ToldOnce)
<1>1. ReminderInit => ReminderInv
  BY ReminderInitial
<1>2. ReminderInv /\ [ReminderNext]_reminderVars => ReminderInv'
  BY ReminderStep
<1>3. ReminderInv => ReminderTypeOK /\ ToldOnce
  BY DEF ReminderInv, RowsComeFirst, ReminderTypeOK, ToldOnce
<1> QED BY <1>1, <1>2, <1>3, PTL DEF ReminderSpec

-----------------------------------------------------------------------------
(* Seasons and their winners.                                              *)

\* A call has in hand the row it has told; a row in the hands of two is in swTwice; a
\* row in hand is not stamped, but by another call that has it too, or by an admin.
CallsInHand ==
    /\ \A a \in Announcers : swCall[a].told # NULL => swCall[a].told \in swCall[a].left
    /\ \A a, b \in Announcers : a # b => swCall[a].left \cap swCall[b].left \subseteq swTwice
    /\ \A a \in Announcers : swCall[a].left \cap swStamped \subseteq swTwice \cup swPatched
    /\ swPaid \subseteq Material

SeasonInv == SeasonTypeOK /\ CallsInHand /\ WinnersServed

CallInHand == [left : SUBSET Winners, told : Winners \cup {NULL}]

\* The initial states satisfy SeasonInv.
LEMMA SeasonInitial == SeasonInit => SeasonInv
<1> SUFFICES ASSUME SeasonInit PROVE SeasonTypeOK /\ CallsInHand /\ WinnersServed
  BY DEF SeasonInv
<1>1. NoCall \in CallInHand /\ NoCall.left = {} /\ NoCall.told = NULL
  BY DEF NoCall, CallInHand
<1>2. SeasonTypeOK
  <2>1. swCall \in [Announcers -> CallInHand]
    BY <1>1 DEF SeasonInit
  <2> QED BY <2>1 DEF SeasonInit, SeasonTypeOK, CallInHand
<1>3. CallsInHand
  BY <1>1 DEF SeasonInit, CallsInHand
<1>4. WinnersServed
  BY <1>1, SeasonAssumption DEF SeasonInit, WinnersServed, ToldOnly
<1> QED BY <1>2, <1>3, <1>4

\* What was told and stamped stays right when no call's row in hand changes.
LEMMA ServedStill ==
    ASSUME WinnersServed, UNCHANGED <<swTold, swCall>>,
           swTwice \subseteq swTwice', swPatched \subseteq swPatched',
           \A w \in Winners \ swPatched' :
             /\ w \in swStamped' <=> w \in swStamped
             /\ w \in swPaid' => swReward'[w] = "received"
    PROVE  WinnersServed'
BY DEF WinnersServed, ToldOnly

\* Every step of SeasonNext keeps SeasonInv.
LEMMA SeasonStep == SeasonInv /\ [SeasonNext]_seasonVars => SeasonInv'
<1> SUFFICES ASSUME SeasonTypeOK, CallsInHand, WinnersServed, [SeasonNext]_seasonVars
             PROVE  SeasonTypeOK' /\ CallsInHand' /\ WinnersServed'
  BY DEF SeasonInv
<1>a. /\ swMade \subseteq Winners /\ swStamped \subseteq Winners /\ swPaid \subseteq Winners
      /\ swTwice \subseteq Winners /\ swPatched \subseteq Winners
      /\ swTold \in [Winners -> 0..2] /\ swCall \in [Announcers -> CallInHand]
      /\ swReward \in [Winners -> {"pending", "distributed", "received"}]
  BY DEF SeasonTypeOK, CallInHand
<1>b. ASSUME swMade' \subseteq Winners, swStamped' \subseteq Winners, swPaid' \subseteq Winners,
             swTwice' \subseteq Winners, swPatched' \subseteq Winners,
             swTold' \in [Winners -> 0..2], swCall' \in [Announcers -> CallInHand],
             swReward' \in [Winners -> {"pending", "distributed", "received"}]
      PROVE  SeasonTypeOK'
  BY <1>b DEF SeasonTypeOK, CallInHand
<1>c. NULL \notin Winners
  BY SeasonAssumption
<1>d. \A a \in Announcers : swCall[a].left \subseteq Winners /\ swCall[a].told \in Winners \cup {NULL}
  BY <1>a DEF CallInHand
<1>e. NoCall \in CallInHand /\ NoCall.left = {} /\ NoCall.told = NULL
  BY DEF NoCall, CallInHand
<1>1. ASSUME NEW w \in Winners, CreateWinner(w)
      PROVE  SeasonTypeOK' /\ CallsInHand' /\ WinnersServed'
  <2>1. /\ swMade' = swMade \cup {w}
        /\ UNCHANGED <<swStamped, swTold, swCall, swReward, swPaid, swTwice, swPatched>>
    BY <1>1 DEF CreateWinner
  <2>2. SeasonTypeOK'
    BY <1>a, <1>b, <2>1
  <2>3. CallsInHand'
    BY <2>1 DEF CallsInHand
  <2>4. WinnersServed'
    BY <2>1 DEF WinnersServed, ToldOnly
  <2> QED BY <2>2, <2>3, <2>4
<1>2. ASSUME NEW w \in Winners, DistributeReward(w) \/ MarkReceived(w)
      PROVE  SeasonTypeOK' /\ CallsInHand' /\ WinnersServed'
  <2>1. /\ \E status \in {"distributed", "received"} :
             /\ swReward' = [swReward EXCEPT ![w] = status]
             /\ swPaid' = swPaid \/ swPaid' = swPaid \cup {w}
             /\ status # "received" => swPaid' = swPaid /\ w \notin Material
        /\ UNCHANGED <<swMade, swStamped, swTold, swCall, swTwice, swPatched>>
    BY <1>2 DEF DistributeReward, MarkReceived
  <2>2. SeasonTypeOK'
    BY <1>a, <1>b, <2>1
  <2>3. CallsInHand'
    BY <1>2, <2>1 DEF CallsInHand, DistributeReward, MarkReceived
  <2>4. \A v \in Winners \ swPatched' : v \in swPaid' => swReward'[v] = "received"
    BY <1>a, <2>1 DEF WinnersServed, CallsInHand
  <2>5. WinnersServed'
    BY <2>1, <2>4, ServedStill
  <2> QED BY <2>2, <2>3, <2>5
<1>3. ASSUME NEW w \in Winners, PatchWinner(w)
      PROVE  SeasonTypeOK' /\ CallsInHand' /\ WinnersServed'
  <2>1. /\ swStamped' \subseteq swStamped \cup {w} /\ swStamped \subseteq swStamped' \cup {w}
        /\ \A v \in Winners \ {w} : swReward'[v] = swReward[v]
        /\ swReward' \in [Winners -> {"pending", "distributed", "received"}]
        /\ swPatched' = swPatched \cup {w}
        /\ UNCHANGED <<swMade, swTold, swCall, swPaid, swTwice>>
    BY <1>3, <1>a DEF PatchWinner
  <2>2. SeasonTypeOK'
    BY <1>a, <1>b, <2>1
  <2>3. CallsInHand'
    BY <2>1 DEF CallsInHand
  <2>4. \A v \in Winners \ swPatched' : v \in swPaid' => swReward'[v] = "received"
    BY <2>1 DEF WinnersServed
  <2>5. WinnersServed'
    BY <2>1, <2>4, ServedStill
  <2> QED BY <2>2, <2>3, <2>5
<1>4. ASSUME NEW a \in Announcers, FindWinners(a)
      PROVE  SeasonTypeOK' /\ CallsInHand' /\ WinnersServed'
  <2> DEFINE new == [left |-> NotYetTold, told |-> NULL]
  <2>1. /\ swCall[a] = NoCall /\ swCall' = [swCall EXCEPT ![a] = new]
        /\ swTwice' = swTwice \cup {w \in NotYetTold : InHand(w)}
        /\ UNCHANGED <<swMade, swStamped, swTold, swReward, swPaid, swPatched>>
    BY <1>4 DEF FindWinners
  <2>2. /\ new \in CallInHand /\ new.left \cap swStamped = {} /\ new.left = NotYetTold
        /\ new.told = NULL /\ NotYetTold \subseteq Winners
    BY <1>a DEF CallInHand, NotYetTold
  <2> HIDE DEF new
  <2>3. /\ swCall' \in [Announcers -> CallInHand] /\ swCall'[a] = new
        /\ \A b \in Announcers \ {a} : swCall'[b] = swCall[b]
    BY <1>a, <2>1, <2>2
  <2>4. SeasonTypeOK'
    BY <1>a, <1>b, <2>1, <2>2, <2>3
  <2>5. \A b \in Announcers \ {a} : NotYetTold \cap swCall[b].left \subseteq swTwice'
    BY <2>1 DEF InHand
  <2>6. CallsInHand'
    <3>1. \A b \in Announcers : swCall'[b].told # NULL => swCall'[b].told \in swCall'[b].left
      BY <2>2, <2>3 DEF CallsInHand
    <3>2. \A b, c \in Announcers : b # c => swCall'[b].left \cap swCall'[c].left \subseteq swTwice'
      BY <2>1, <2>2, <2>3, <2>5 DEF CallsInHand
    <3>3. \A b \in Announcers : swCall'[b].left \cap swStamped' \subseteq swTwice' \cup swPatched'
      BY <2>1, <2>2, <2>3 DEF CallsInHand
    <3>4. swPaid' \subseteq Material
      BY <2>1 DEF CallsInHand
    <3> QED BY <3>1, <3>2, <3>3, <3>4 DEF CallsInHand
  <2>7. \A w \in Winners : ToldOnly(w)' <=> ToldOnly(w)
    <3>1. \A b \in Announcers : swCall'[b].told = swCall[b].told
      BY <1>e, <2>1, <2>2, <2>3
    <3> QED BY <3>1 DEF ToldOnly
  <2>8. WinnersServed'
    BY <2>1, <2>7 DEF WinnersServed
  <2> QED BY <2>4, <2>6, <2>8
<1>5. ASSUME NEW a \in Announcers, NEW w \in Winners, TellWinner(a, w)
      PROVE  SeasonTypeOK' /\ CallsInHand' /\ WinnersServed'
  <2> DEFINE new == [swCall[a] EXCEPT !.told = w]
  <2>1. /\ w \in swCall[a].left /\ swCall[a].told = NULL
        /\ swTold' = [swTold EXCEPT ![w] = IF @ = 2 THEN 2 ELSE @ + 1]
        /\ swCall' = [swCall EXCEPT ![a] = new]
        /\ UNCHANGED <<swMade, swStamped, swReward, swPaid, swTwice, swPatched>>
    BY <1>5 DEF TellWinner
  <2>2. new \in CallInHand /\ new.left = swCall[a].left /\ new.told = w
    BY <1>a DEF CallInHand
  <2> HIDE DEF new
  <2>3. /\ swCall' \in [Announcers -> CallInHand] /\ swCall'[a] = new
        /\ \A b \in Announcers \ {a} : swCall'[b] = swCall[b]
    BY <1>a, <2>1, <2>2
  <2>4. /\ swTold' \in [Winners -> 0..2] /\ \A v \in Winners \ {w} : swTold'[v] = swTold[v]
        /\ swTold[w] = 0 => swTold'[w] = 1
    BY <1>a, <2>1
  <2>5. SeasonTypeOK'
    BY <1>a, <1>b, <2>1, <2>3, <2>4
  <2>6. CallsInHand'
    <3>1. \A b \in Announcers : swCall'[b].left = swCall[b].left
      BY <2>2, <2>3
    <3>2. \A b \in Announcers : swCall'[b].told # NULL => swCall'[b].told \in swCall'[b].left
      BY <2>1, <2>2, <2>3 DEF CallsInHand
    <3> QED BY <2>1, <3>1, <3>2 DEF CallsInHand
  <2>7. w \notin swTwice \cup swPatched => w \notin swStamped /\ ~ToldOnly(w)
    BY <1>c, <2>1 DEF CallsInHand, ToldOnly
  <2>8. ToldOnly(w)' /\ \A v \in Winners \ {w} : ToldOnly(v)' <=> ToldOnly(v)
    BY <1>c, <2>1, <2>2, <2>3 DEF ToldOnly
  <2>9. WinnersServed'
    BY <2>1, <2>4, <2>7, <2>8 DEF WinnersServed
  <2> QED BY <2>5, <2>6, <2>9
<1>6. ASSUME NEW a \in Announcers, StampWinner(a)
      PROVE  SeasonTypeOK' /\ CallsInHand' /\ WinnersServed'
  <2> DEFINE w == swCall[a].told
             new == [left |-> swCall[a].left \ {w}, told |-> NULL]
  <2>1. /\ w # NULL /\ swStamped' = swStamped \cup {w}
        /\ swCall' = [swCall EXCEPT ![a] = new]
        /\ UNCHANGED <<swMade, swTold, swReward, swPaid, swTwice, swPatched>>
    BY <1>6 DEF StampWinner
  <2>2. w \in Winners /\ w \in swCall[a].left
    BY <1>d, <2>1 DEF CallsInHand
  <2>3. new \in CallInHand /\ new.left = swCall[a].left \ {w} /\ new.told = NULL
    BY <1>d DEF CallInHand
  <2> HIDE DEF new
  <2>4. /\ swCall' \in [Announcers -> CallInHand] /\ swCall'[a] = new
        /\ \A b \in Announcers \ {a} : swCall'[b] = swCall[b]
    BY <1>a, <2>1, <2>3
  <2>5. SeasonTypeOK'
    BY <1>a, <1>b, <2>1, <2>2, <2>4
  <2>6. CallsInHand'
    <3>1. \A b \in Announcers : swCall'[b].told # NULL => swCall'[b].told \in swCall'[b].left
      BY <2>3, <2>4 DEF CallsInHand
    <3>2. \A b, c \in Announcers : b # c => swCall'[b].left \cap swCall'[c].left \subseteq swTwice'
      BY <2>1, <2>3, <2>4 DEF CallsInHand
    <3>3. \A b \in Announcers : swCall'[b].left \cap swStamped' \subseteq swTwice' \cup swPatched'
      BY <2>1, <2>2, <2>3, <2>4 DEF CallsInHand
    <3>4. swPaid' \subseteq Material
      BY <2>1 DEF CallsInHand
    <3> QED BY <3>1, <3>2, <3>3, <3>4 DEF CallsInHand
  <2>7. \A v \in Winners \ {w} : ToldOnly(v)' <=> ToldOnly(v)
    BY <1>c, <2>3, <2>4 DEF ToldOnly
  <2>8. ToldOnly(w)
    BY DEF ToldOnly
  <2>9. WinnersServed'
    <3> HIDE DEF w
    <3> QED BY <2>1, <2>7, <2>8 DEF WinnersServed
  <2> QED BY <2>5, <2>6, <2>9
<1>7. ASSUME NEW a \in Announcers, CallBreaksOff(a)
      PROVE  SeasonTypeOK' /\ CallsInHand' /\ WinnersServed'
  <2>1. /\ swCall' = [swCall EXCEPT ![a] = NoCall]
        /\ swTwice' = swTwice \cup {w \in Winners : w = swCall[a].told}
        /\ UNCHANGED <<swMade, swStamped, swTold, swReward, swPaid, swPatched>>
    BY <1>7 DEF CallBreaksOff
  <2>2. /\ swCall' \in [Announcers -> CallInHand] /\ swCall'[a] = NoCall
        /\ \A b \in Announcers \ {a} : swCall'[b] = swCall[b]
    BY <1>a, <1>e, <2>1
  <2>3. SeasonTypeOK'
    BY <1>a, <1>b, <2>1, <2>2
  <2>4. CallsInHand'
    BY <1>e, <2>1, <2>2 DEF CallsInHand
  <2>5. \A v \in Winners \ swTwice' : ToldOnly(v)' <=> ToldOnly(v)
    BY <1>c, <1>e, <2>1, <2>2 DEF ToldOnly
  <2>6. WinnersServed'
    BY <2>1, <2>5 DEF WinnersServed
  <2> QED BY <2>3, <2>4, <2>6
<1>8. CASE UNCHANGED seasonVars
  <2>1. UNCHANGED <<swMade, swStamped, swTold, swCall, swReward, swPaid, swTwice, swPatched>>
    BY <1>8 DEF seasonVars
  <2>2. SeasonTypeOK'
    BY <1>a, <1>b, <2>1
  <2>3. CallsInHand'
    BY <2>1 DEF CallsInHand
  <2>4. WinnersServed'
    BY <2>1 DEF WinnersServed, ToldOnly
  <2> QED BY <2>2, <2>3, <2>4
<1> QED BY <1>1, <1>2, <1>3, <1>4, <1>5, <1>6, <1>7, <1>8 DEF SeasonNext

\* A winner who is stamped was told once, and one who was credited reads received,
\* unless calls overlapped, broke off, or an admin wrote the stamp.
THEOREM WinnersAreServed == SeasonSpec => [](SeasonTypeOK /\ WinnersServed)
<1>1. SeasonInit => SeasonInv
  BY SeasonInitial
<1>2. SeasonInv /\ [SeasonNext]_seasonVars => SeasonInv'
  BY SeasonStep
<1>3. SeasonInv => SeasonTypeOK /\ WinnersServed
  BY DEF SeasonInv
<1> QED BY <1>1, <1>2, <1>3, PTL DEF SeasonSpec

-----------------------------------------------------------------------------
(* Badges.                                                                 *)

\* The badges of the n best of a run.
BadgesOf(s, n, run) == {[donor |-> s[k], rank |-> k, run |-> run] : k \in 1..n}

\* The badges are the best ones of a run; while it awards, of this one and so far.
BestOfARun ==
    /\ \E s \in Tops, run \in Nat, n \in Nat : n =< Len(s) /\ bgRows = BadgesOf(s, n, run)
    /\ bgAt = "awarding" =>
         bgNext - 1 =< Len(bgTop) /\ bgRows = BadgesOf(bgTop, bgNext - 1, bgRun)
    /\ bgAt # "awarding" => bgNext = 1
    /\ bgAt # "idle" => bgRun # 0

BadgeInv == BadgeTypeOK /\ BestOfARun

\* A top is a sequence of donors, each once.
LEMMA TopsAreInjective ==
    ASSUME NEW s \in Tops
    PROVE  /\ Len(s) \in Nat /\ DOMAIN s = 1..Len(s)
           /\ \A k \in 1..Len(s) : s[k] \in Donors
           /\ \A j, k \in 1..Len(s) : s[j] = s[k] => j = k
<1>1. PICK n \in 0..Cardinality(Donors) :
        s \in [1..n -> Donors] /\ \A j, k \in 1..n : s[j] = s[k] => j = k
  BY DEF Tops
<1>2. n \in Nat
  BY <1>1, SeasonAssumption, FS_CardinalityType
<1>3. Len(s) = n
  BY <1>1, <1>2
<1> QED BY <1>1, <1>2, <1>3

\* Nobody is a top too.
LEMMA NobodyIsTop == <<>> \in Tops
<1>1. Cardinality(Donors) \in Nat
  BY SeasonAssumption, FS_CardinalityType
<1>2. 0 \in 0..Cardinality(Donors)
  BY <1>1
<1>3. <<>> \in [1..0 -> Donors]
  OBVIOUS
<1>4. \A j, k \in 1..0 : <<>>[j] = <<>>[k] => j = k
  OBVIOUS
<1> QED BY <1>2, <1>3, <1>4 DEF Tops

\* They have one run, a donor and a rank each, and every rank up to n.
LEMMA BestAreOneRun ==
    ASSUME NEW s \in Tops, NEW run \in Nat, NEW n \in Nat, n =< Len(s),
           bgRows = BadgesOf(s, n, run)
    PROVE  BadgesAreOneRun
<1> DEFINE row(k) == [donor |-> s[k], rank |-> k, run |-> run]
           f == [k \in 1..n |-> row(k)]
<1>1. \A j, k \in 1..n : s[j] = s[k] => j = k
  BY TopsAreInjective
<1>2. bgRows = {row(k) : k \in 1..n}
  BY DEF BadgesOf
<1>3. \A k : row(k).donor = s[k] /\ row(k).rank = k /\ row(k).run = run
  OBVIOUS
<1> HIDE DEF row
<1>4. \A x, y \in bgRows : x.run = y.run /\ (x.donor = y.donor \/ x.rank = y.rank => x = y)
  BY <1>1, <1>2, <1>3
<1>5. {x.rank : x \in bgRows} = 1..n
  BY <1>2, <1>3
<1>6. f \in Bijection(1..n, bgRows)
  <2>1. f \in [1..n -> bgRows]
    BY <1>2
  <2>2. \A j, k \in 1..n : f[j] = f[k] => j = k
    BY <1>3
  <2>3. \A x \in bgRows : \E k \in 1..n : f[k] = x
    <3>1. \A k \in 1..n : f[k] = row(k)
      OBVIOUS
    <3>2. \A x \in bgRows : \E k \in 1..n : x = row(k)
      BY <1>2
    <3> HIDE DEF f
    <3> QED BY <3>1, <3>2
  <2> HIDE DEF f
  <2> QED BY <2>1, <2>2, <2>3 DEF Bijection, Injection, Surjection, IsInjective
<1>7. Cardinality(bgRows) = n
  <2>1. IsFiniteSet(1..n) /\ Cardinality(1..n) = IF 1 > n THEN 0 ELSE n - 1 + 1
    BY FS_Interval
  <2>2. Cardinality(1..n) = n
    BY <2>1
  <2> HIDE DEF f
  <2>3. ExistsBijection(1..n, bgRows)
    BY <1>6 DEF ExistsBijection
  <2> QED BY <2>1, <2>2, <2>3, FS_Bijection
<1> QED BY <1>4, <1>5, <1>7 DEF BadgesAreOneRun

\* The best of a run are one run of ranks.
LEMMA BadgeSafe == BadgeInv => BadgesAreOneRun
BY BestAreOneRun DEF BadgeInv, BestOfARun

\* The initial states satisfy BadgeInv.
LEMMA BadgeInitial == BadgeInit => BadgeInv
<1> SUFFICES ASSUME BadgeInit PROVE BadgeInv
  OBVIOUS
<1>1. BadgeTypeOK
  BY NobodyIsTop, SeasonAssumption DEF BadgeInit, BadgeTypeOK
<1>2. bgRows = BadgesOf(<<>>, 0, 0)
  BY DEF BadgeInit, BadgesOf
<1>3. 0 =< Len(<<>>)
  OBVIOUS
<1> QED BY <1>1, <1>2, <1>3, NobodyIsTop DEF BadgeInit, BadgeInv, BestOfARun

\* Every step of BadgeNext keeps BadgeInv.
LEMMA BadgeStep == BadgeInv /\ [BadgeNext]_badgeVars => BadgeInv'
<1> SUFFICES ASSUME BadgeTypeOK, BestOfARun, [BadgeNext]_badgeVars
             PROVE  BadgeTypeOK' /\ BestOfARun'
  BY DEF BadgeInv
<1>a. /\ bgSpent \in [Donors -> 0..MaxSpent] /\ bgRows \subseteq Badge
      /\ bgRun \in 0..MaxRuns /\ bgTop \in Tops
      /\ bgAt \in {"idle", "ranked", "awarding"} /\ bgNext \in 1..TopRank + 1
  BY DEF BadgeTypeOK
<1>b. TopRank \in Nat \ {0} /\ MaxSpent \in Nat /\ MaxRuns \in Nat
  BY SeasonAssumption
<1>c. /\ \E s \in Tops, run \in Nat, n \in Nat : n =< Len(s) /\ bgRows = BadgesOf(s, n, run)
      /\ bgAt = "awarding" =>
           bgNext - 1 =< Len(bgTop) /\ bgRows = BadgesOf(bgTop, bgNext - 1, bgRun)
      /\ bgAt # "awarding" => bgNext = 1
      /\ bgAt # "idle" => bgRun # 0
  BY DEF BestOfARun
<1>1. ASSUME NEW d \in Donors, Spend(d) PROVE BadgeTypeOK' /\ BestOfARun'
  <2>1. /\ bgSpent[d] < MaxSpent /\ bgSpent' = [bgSpent EXCEPT ![d] = @ + 1]
        /\ UNCHANGED <<bgRows, bgRun, bgTop, bgAt, bgNext>>
    BY <1>1 DEF Spend
  <2>2. bgSpent' \in [Donors -> 0..MaxSpent]
    BY <1>a, <1>b, <2>1
  <2>3. BadgeTypeOK'
    BY <1>a, <2>1, <2>2 DEF BadgeTypeOK
  <2>4. BestOfARun'
    BY <2>1 DEF BestOfARun, BadgesOf
  <2> QED BY <2>3, <2>4
<1>2. CASE RankDonors
  <2>1. /\ bgAt = "idle" /\ bgRun < MaxRuns /\ bgRun' = bgRun + 1 /\ bgTop' \in Tops
        /\ bgAt' \in {"idle", "ranked"} /\ UNCHANGED <<bgSpent, bgRows, bgNext>>
    BY <1>2 DEF RankDonors
  <2>2. bgRun' \in 0..MaxRuns /\ bgRun' # 0
    BY <1>a, <1>b, <2>1
  <2>3. BadgeTypeOK'
    BY <1>a, <2>1, <2>2 DEF BadgeTypeOK
  <2>4. BestOfARun'
    BY <1>c, <2>1, <2>2 DEF BestOfARun, BadgesOf
  <2> QED BY <2>3, <2>4
<1>3. CASE Clear
  <2>1. /\ bgAt = "ranked" /\ bgRows' = {} /\ bgAt' = "awarding"
        /\ UNCHANGED <<bgSpent, bgRun, bgTop, bgNext>>
    BY <1>3 DEF Clear, DestroyBadges
  <2>2. BadgeTypeOK'
    BY <1>a, <2>1 DEF BadgeTypeOK
  <2>3. bgNext = 1 /\ bgRows' = BadgesOf(bgTop, 0, bgRun) /\ 0 =< Len(bgTop) /\ bgRun \in Nat
    <3>1. BadgesOf(bgTop, 0, bgRun) = {}
      BY DEF BadgesOf
    <3> QED BY <1>a, <1>b, <1>c, <2>1, <3>1, TopsAreInjective
  <2>4. bgNext - 1 = 0
    BY <2>3
  <2>5. BestOfARun'
    BY <1>a, <1>c, <2>1, <2>3, <2>4 DEF BestOfARun
  <2> QED BY <2>2, <2>5
<1>4. CASE Award
  <2> DEFINE row(k) == [donor |-> bgTop[k], rank |-> k, run |-> bgRun]
  <2>1. /\ bgAt = "awarding" /\ bgNext \in DOMAIN bgTop /\ bgNext =< TopRank
        /\ bgRows' = bgRows \cup {row(bgNext)} /\ bgNext' = bgNext + 1
        /\ UNCHANGED <<bgSpent, bgRun, bgTop, bgAt>>
    BY <1>4 DEF Award, EarnsBadge
  <2>2. /\ bgNext \in 1..Len(bgTop) /\ bgTop[bgNext] \in Donors /\ Len(bgTop) \in Nat
        /\ bgNext \in 1..TopRank /\ bgRun \in 1..MaxRuns /\ bgNext \in Nat /\ bgRun \in Nat
    BY <1>a, <1>b, <1>c, <2>1, TopsAreInjective
  <2>3. row(bgNext) \in Badge
    BY <2>2 DEF Badge
  <2>4. BadgeTypeOK'
    <3>1. bgNext' \in 1..TopRank + 1
      BY <1>b, <2>1, <2>2
    <3> HIDE DEF row
    <3> QED BY <1>a, <2>1, <2>3, <3>1 DEF BadgeTypeOK
  <2>5. bgRows' = BadgesOf(bgTop, bgNext, bgRun)
    <3>1. bgRows = {row(k) : k \in 1..(bgNext - 1)}
      BY <1>c, <2>1 DEF BadgesOf
    <3>2. 1..bgNext = 1..(bgNext - 1) \cup {bgNext}
      BY <2>2
    <3>3. BadgesOf(bgTop, bgNext, bgRun) = {row(k) : k \in 1..bgNext}
      BY DEF BadgesOf
    <3> HIDE DEF row
    <3> QED BY <2>1, <3>1, <3>2, <3>3
  <2>6. bgNext' - 1 = bgNext /\ bgNext =< Len(bgTop)
    BY <2>1, <2>2
  <2> HIDE DEF row
  <2>7. BestOfARun'
    BY <1>a, <1>c, <2>1, <2>2, <2>5, <2>6 DEF BestOfARun
  <2> QED BY <2>4, <2>7
<1>5. CASE RunEnds \/ RunBreaks
  <2>1. /\ bgAt' = "idle" /\ bgTop' = <<>> /\ bgNext' = 1 /\ UNCHANGED <<bgSpent, bgRows, bgRun>>
    BY <1>5 DEF RunEnds, RunBreaks, Stop
  <2>2. 1 \in 1..TopRank + 1
    BY <1>b
  <2>3. BadgeTypeOK'
    BY <1>a, <2>1, <2>2, NobodyIsTop DEF BadgeTypeOK
  <2>4. BestOfARun'
    BY <1>c, <2>1 DEF BestOfARun
  <2> QED BY <2>3, <2>4
<1>6. CASE UNCHANGED badgeVars
  <2>1. UNCHANGED <<bgSpent, bgRows, bgRun, bgTop, bgAt, bgNext>>
    BY <1>6 DEF badgeVars
  <2> QED BY <1>a, <1>c, <2>1 DEF BadgeTypeOK, BestOfARun
<1> QED BY <1>1, <1>2, <1>3, <1>4, <1>5, <1>6 DEF BadgeNext

\* No donor has two badges of a month and no rank is given twice or skipped, however
\* many donors there are, and wherever runs broke off.
THEOREM BadgesOfOneRun == BadgeSpec => [](BadgeTypeOK /\ BadgesAreOneRun)
<1>1. BadgeInit => BadgeInv
  BY BadgeInitial
<1>2. BadgeInv /\ [BadgeNext]_badgeVars => BadgeInv'
  BY BadgeStep
<1>3. BadgeInv => BadgeTypeOK /\ BadgesAreOneRun
  BY BadgeSafe DEF BadgeInv
<1> QED BY <1>1, <1>2, <1>3, PTL DEF BadgeSpec

-----------------------------------------------------------------------------
(* Approval of concerts.                                                   *)

EditInHand == [read : Approvals, content : BOOLEAN, status : Statuses \cup {NULL}, admin : BOOLEAN]
ReviewInHand == [saw : {"this", "older", NULL}, read : Approvals \cup {NULL}, approve : BOOLEAN]

\* An edit that is to go live read an approval; who has read a concert has seen it, and
\* there is one.
HandsRead ==
    /\ \A e \in ConcertEdits : caEdit[e] # NoConcertEdit =>
         /\ caConcert # NULL
         /\ caEdit[e].status = "live" => caEdit[e].read = "approved"
    /\ \A a \in ConcertAdmins :
         /\ caReview[a].saw # NULL => caConcert # NULL
         /\ caReview[a].read # NULL => caReview[a].saw # NULL

ApprovalInv == ApprovalTypeOK /\ HandsRead /\ Vetted

\* The initial states satisfy ApprovalInv.
LEMMA ApprovalInitial == ApprovalInit => ApprovalInv
<1> SUFFICES ASSUME ApprovalInit PROVE ApprovalTypeOK /\ HandsRead /\ Vetted
  BY DEF ApprovalInv
<1>1. NoReview \in ReviewInHand /\ NoReview.saw = NULL /\ NoReview.read = NULL
  BY DEF NoReview, ReviewInHand
<1>2. ApprovalTypeOK
  <2>1. caReview \in [ConcertAdmins -> ReviewInHand]
    BY <1>1 DEF ApprovalInit
  <2> QED BY <2>1 DEF ApprovalInit, ApprovalTypeOK, ReviewInHand
<1>3. HandsRead
  BY <1>1 DEF ApprovalInit, HandsRead
<1>4. Vetted
  BY DEF ApprovalInit, Vetted
<1> QED BY <1>2, <1>3, <1>4

\* Every step of ApprovalNext keeps ApprovalInv.
LEMMA ApprovalStep == ApprovalInv /\ [ApprovalNext]_approvalVars => ApprovalInv'
<1> SUFFICES ASSUME ApprovalTypeOK, HandsRead, Vetted, [ApprovalNext]_approvalVars
             PROVE  ApprovalTypeOK' /\ HandsRead' /\ Vetted'
  BY DEF ApprovalInv
<1>a. /\ caEdit \in [ConcertEdits -> {NoConcertEdit} \cup EditInHand]
      /\ caReview \in [ConcertAdmins -> ReviewInHand]
      /\ caConcert \in ConcertRow \cup {NULL}
      /\ caVetted \in BOOLEAN /\ caOnAir \in BOOLEAN /\ caRaced \in BOOLEAN
  BY DEF ApprovalTypeOK, EditInHand, ReviewInHand
<1>b. ASSUME caEdit' \in [ConcertEdits -> {NoConcertEdit} \cup EditInHand],
             caReview' \in [ConcertAdmins -> ReviewInHand],
             caConcert' \in ConcertRow \cup {NULL},
             caVetted' \in BOOLEAN, caOnAir' \in BOOLEAN, caRaced' \in BOOLEAN
      PROVE  ApprovalTypeOK'
  BY <1>b DEF ApprovalTypeOK, EditInHand, ReviewInHand
<1>c. \A row \in ConcertRow : row.approval \in Approvals /\ row.status \in Statuses /\ row # NULL
  BY ApprovalAssumption DEF ConcertRow, Approvals
<1>1. ASSUME NEW required \in BOOLEAN, CreateArtistConcert(required)
      PROVE  ApprovalTypeOK' /\ HandsRead' /\ Vetted'
  <2> DEFINE new == [status |-> "upcoming", approval |-> IF required THEN "pending" ELSE "approved"]
  <2>1. /\ caConcert = NULL /\ caConcert' = new /\ caVetted' = ~required
        /\ UNCHANGED <<caEdit, caReview, caOnAir, caRaced>>
    BY <1>1 DEF CreateArtistConcert
  <2>2. /\ new \in ConcertRow /\ new.status = "upcoming"
        /\ new.approval = "approved" => ~required
    BY ApprovalAssumption DEF ConcertRow, Approvals
  <2> HIDE DEF new
  <2>3. ApprovalTypeOK'
    BY <1>a, <1>b, <2>1, <2>2
  <2>4. HandsRead'
    BY <1>c, <2>1, <2>2 DEF HandsRead
  <2>5. Vetted'
    BY <2>1, <2>2 DEF Vetted
  <2> QED BY <2>3, <2>4, <2>5
<1>2. ASSUME NEW e \in ConcertEdits, EditReads(e)
      PROVE  ApprovalTypeOK' /\ HandsRead' /\ Vetted'
  <2>1. PICK patch \in Patches, admin \in BOOLEAN :
          /\ MayGoLive(caConcert, patch)
          /\ caEdit' = [caEdit EXCEPT ![e] =
               [read |-> caConcert.approval, content |-> patch.content, admin |-> admin,
                status |-> IF patch.status = caConcert.status THEN NULL ELSE patch.status]]
    BY <1>2 DEF EditReads
  <2>2. caConcert # NULL /\ UNCHANGED <<caConcert, caReview, caVetted, caOnAir, caRaced>>
    BY <1>2 DEF EditReads
  <2> DEFINE new == [read |-> caConcert.approval, content |-> patch.content, admin |-> admin,
                     status |-> IF patch.status = caConcert.status THEN NULL ELSE patch.status]
  <2>3. /\ new \in EditInHand
        /\ new.status = "live" => new.read = "approved"
    <3>1. caConcert.approval \in Approvals /\ patch.content \in BOOLEAN
          /\ patch.status \in Statuses \cup {NULL}
      BY <1>a, <1>c, <2>2 DEF Patches
    <3>2. new \in EditInHand
      BY <3>1 DEF EditInHand
    <3>3. new.status = "live" => new.read = "approved"
      <4>1. new.status = "live" => patch.status = "live"
        BY ApprovalAssumption
      <4> QED BY <2>1, <4>1 DEF MayGoLive
    <3> QED BY <3>2, <3>3
  <2>4. caEdit' = [caEdit EXCEPT ![e] = new]
    BY <2>1
  <2> HIDE DEF new
  <2>5. ApprovalTypeOK'
    BY <1>a, <1>b, <2>2, <2>3, <2>4
  <2>6. HandsRead'
    BY <1>a, <2>2, <2>3, <2>4 DEF HandsRead
  <2>7. Vetted'
    BY <2>2 DEF Vetted
  <2> QED BY <2>5, <2>6, <2>7
<1>3. ASSUME NEW e \in ConcertEdits, EditSaves(e)
      PROVE  ApprovalTypeOK' /\ HandsRead' /\ Vetted'
  <2> DEFINE edit == caEdit[e]
             raced == caConcert.approval # edit.read
             approval == Over(caConcert.approval, edit.read, ApprovalAfter(edit))
             status == Over(caConcert.status, NULL, edit.status)
             new == [approval |-> approval, status |-> status]
  <2>1. /\ edit # NoConcertEdit /\ caConcert' = new
        /\ caEdit' = [caEdit EXCEPT ![e] = NoConcertEdit]
    BY <1>3 DEF EditSaves
  <2>2. /\ edit.content => /\ caReview' = SeenBefore /\ caVetted' = edit.admin
                           /\ caOnAir' = (caConcert'.status = "live") /\ caRaced' = raced
        /\ ~edit.content => /\ caRaced' = (caRaced \/ raced)
                            /\ UNCHANGED <<caReview, caVetted, caOnAir>>
    BY <1>3 DEF EditSaves
  <2>3. /\ edit \in EditInHand /\ edit.read \in Approvals /\ edit.content \in BOOLEAN
        /\ edit.status \in Statuses \cup {NULL} /\ edit.admin \in BOOLEAN
    BY <1>a, <2>1 DEF EditInHand
  <2>4. /\ caConcert \in ConcertRow /\ caConcert # NULL
        /\ edit.status = "live" => edit.read = "approved"
    BY <1>a, <2>1 DEF HandsRead
  <2> HIDE DEF edit
  <2>5. approval \in Approvals /\ status \in Statuses
    BY <1>c, <2>3, <2>4 DEF Over, ApprovalAfter, Approvals
  <2>6. new \in ConcertRow /\ new.approval = approval /\ new.status = status
    BY <2>5 DEF ConcertRow
  <2>7. status = "live" => caConcert.status = "live" \/ edit.read = "approved"
    BY <2>4 DEF Over
  <2>8. /\ ~raced /\ ~edit.content => approval = caConcert.approval
        /\ ~raced /\ edit.content /\ ~edit.admin => approval # "approved"
    BY DEF Over, ApprovalAfter
  <2> HIDE DEF approval, status, raced
  <2>9. caReview' \in [ConcertAdmins -> ReviewInHand]
        /\ \A a \in ConcertAdmins :
             /\ caReview'[a].saw # NULL <=> caReview[a].saw # NULL
             /\ caReview'[a].read = caReview[a].read
    <3>1. /\ SeenBefore \in [ConcertAdmins -> ReviewInHand]
          /\ \A a \in ConcertAdmins :
               /\ SeenBefore[a].saw # NULL <=> caReview[a].saw # NULL
               /\ SeenBefore[a].read = caReview[a].read
      <4>1. ASSUME NEW a \in ConcertAdmins
            PROVE  LET seen == [caReview[a] EXCEPT !.saw = IF @ = NULL THEN NULL ELSE "older"] IN
                   /\ seen \in ReviewInHand /\ seen.read = caReview[a].read
                   /\ seen.saw # NULL <=> caReview[a].saw # NULL
        BY <1>a, ApprovalAssumption DEF ReviewInHand
      <4> QED BY <4>1 DEF SeenBefore
    <3> QED BY <1>a, <2>2, <3>1
  <2>10. ApprovalTypeOK'
    <3>1. caEdit' \in [ConcertEdits -> {NoConcertEdit} \cup EditInHand]
      BY <1>a, <2>1
    <3>2. caVetted' \in BOOLEAN /\ caOnAir' \in BOOLEAN /\ caRaced' \in BOOLEAN
      BY <1>a, <2>2, <2>3 DEF raced
    <3> QED BY <1>b, <2>1, <2>6, <2>9, <3>1, <3>2
  <2>11. HandsRead'
    <3>1. \A d \in ConcertEdits : caEdit'[d] # NoConcertEdit => caEdit'[d] = caEdit[d]
      BY <1>a, <2>1
    <3>2. caConcert' # NULL
      BY <1>c, <2>1, <2>6
    <3> QED BY <2>9, <3>1, <3>2 DEF HandsRead
  <2>12. Vetted'
    <3>1. approval = "approved" => caVetted' \/ caRaced'
      <4>1. CASE edit.content
        BY <2>2, <2>8, <4>1
      <4>2. CASE ~edit.content
        <5>1. CASE raced
          BY <2>2, <4>2, <5>1
        <5>2. CASE ~raced
          <6>1. approval = caConcert.approval
            BY <2>8, <4>2, <5>2
          <6>2. caConcert.approval = "approved" => caVetted \/ caRaced
            BY <2>4 DEF Vetted
          <6>3. caVetted' = caVetted /\ (caRaced => caRaced')
            BY <2>2, <4>2
          <6> QED BY <6>1, <6>2, <6>3
        <5> QED BY <5>1, <5>2
      <4> QED BY <4>1, <4>2
    <3>2. status = "live" => caVetted' \/ caRaced' \/ caOnAir'
      <4>1. CASE edit.content
        BY <2>1, <2>2, <2>6, <4>1
      <4>2. CASE ~edit.content
        <5>1. caRaced' = (caRaced \/ raced) /\ caVetted' = caVetted /\ caOnAir' = caOnAir
          BY <2>2, <4>2
        <5>2. ~raced /\ edit.read = "approved" => caConcert.approval = "approved"
          BY DEF raced
        <5> QED BY <2>4, <2>7, <5>1, <5>2 DEF Vetted
      <4> QED BY <4>1, <4>2
    <3> QED BY <2>1, <2>6, <3>1, <3>2 DEF Vetted
  <2> QED BY <2>10, <2>11, <2>12
<1>4. ASSUME NEW e \in ConcertEdits, EditFails(e)
      PROVE  ApprovalTypeOK' /\ HandsRead' /\ Vetted'
  <2>1. /\ caEdit' = [caEdit EXCEPT ![e] = NoConcertEdit]
        /\ UNCHANGED <<caConcert, caReview, caVetted, caOnAir, caRaced>>
    BY <1>4 DEF EditFails
  <2>2. ApprovalTypeOK'
    BY <1>a, <1>b, <2>1
  <2>3. HandsRead'
    BY <1>a, <2>1 DEF HandsRead
  <2>4. Vetted'
    BY <2>1 DEF Vetted
  <2> QED BY <2>2, <2>3, <2>4
<1>5. ASSUME NEW a \in ConcertAdmins, Look(a)
      PROVE  ApprovalTypeOK' /\ HandsRead' /\ Vetted'
  <2> DEFINE new == [caReview[a] EXCEPT !.saw = "this"]
  <2>1. /\ caReview[a] = NoReview /\ caConcert # NULL
        /\ caReview' = [caReview EXCEPT ![a] = new]
        /\ UNCHANGED <<caConcert, caEdit, caVetted, caOnAir, caRaced>>
    BY <1>5 DEF Look
  <2>2. new \in ReviewInHand /\ new.read = NULL
    <3>1. caReview[a] \in ReviewInHand
      BY <1>a
    <3>2. caReview[a].read = NULL
      BY <2>1 DEF NoReview
    <3> QED BY <3>1, <3>2 DEF ReviewInHand
  <2> HIDE DEF new
  <2>3. ApprovalTypeOK'
    BY <1>a, <1>b, <2>1, <2>2
  <2>4. HandsRead'
    BY <1>a, <2>1, <2>2 DEF HandsRead
  <2>5. Vetted'
    BY <2>1 DEF Vetted
  <2> QED BY <2>3, <2>4, <2>5
<1>6. ASSUME NEW a \in ConcertAdmins, NEW approve \in BOOLEAN, ReviewReads(a, approve)
      PROVE  ApprovalTypeOK' /\ HandsRead' /\ Vetted'
  <2> DEFINE new == [caReview[a] EXCEPT !.read = caConcert.approval, !.approve = approve]
  <2>1. /\ caReview[a].saw # NULL
        /\ UNCHANGED <<caConcert, caEdit, caVetted, caOnAir, caRaced>>
    BY <1>6 DEF ReviewReads
  <2>2. caReview' = [caReview EXCEPT ![a] = new]
    BY <1>6, <1>a DEF ReviewReads, ReviewInHand
  <2>3. caConcert \in ConcertRow /\ caConcert # NULL
    BY <1>a, <2>1 DEF HandsRead
  <2>4. new \in ReviewInHand /\ new.saw = caReview[a].saw
    BY <1>a, <1>c, <2>3 DEF ReviewInHand
  <2> HIDE DEF new
  <2>5. ApprovalTypeOK'
    BY <1>a, <1>b, <2>1, <2>2, <2>4
  <2>6. HandsRead'
    BY <1>a, <2>1, <2>2, <2>3, <2>4 DEF HandsRead
  <2>7. Vetted'
    BY <2>1 DEF Vetted
  <2> QED BY <2>5, <2>6, <2>7
<1>7. ASSUME NEW a \in ConcertAdmins, ReviewSaves(a)
      PROVE  ApprovalTypeOK' /\ HandsRead' /\ Vetted'
  <2> DEFINE review == caReview[a]
             verdict == IF review.approve THEN "approved" ELSE "rejected"
             approval == Over(caConcert.approval, review.read, verdict)
             new == [caConcert EXCEPT !.approval = approval]
  <2>1. /\ review.read # NULL /\ caConcert' = new
        /\ caVetted' = (caVetted \/ (review.approve /\ review.saw = "this"))
        /\ caRaced' = (caRaced \/ (review.approve /\ review.saw = "older"))
        /\ caReview' = [caReview EXCEPT ![a] = NoReview]
        /\ UNCHANGED <<caEdit, caOnAir>>
    BY <1>7 DEF ReviewSaves
  <2>2. /\ review \in ReviewInHand /\ review.saw \in {"this", "older", NULL} /\ review.saw # NULL
        /\ review.approve \in BOOLEAN
    BY <1>a, <2>1 DEF ReviewInHand, HandsRead
  <2>3. caConcert \in ConcertRow /\ caConcert # NULL
    BY <1>a, <2>2 DEF HandsRead
  <2> HIDE DEF review
  <2>4. approval \in Approvals /\ (approval = "approved" => review.approve \/ caConcert.approval = "approved")
    BY <1>c, <2>2, <2>3 DEF Over, Approvals
  <2>5. new \in ConcertRow /\ new.approval = approval /\ new.status = caConcert.status
    BY <2>3, <2>4 DEF ConcertRow
  <2>6. NoReview \in ReviewInHand /\ NoReview.saw = NULL /\ NoReview.read = NULL
    BY DEF NoReview, ReviewInHand
  <2> HIDE DEF approval, new
  <2>7. ApprovalTypeOK'
    <3>1. caVetted' \in BOOLEAN /\ caRaced' \in BOOLEAN
      BY <1>a, <2>1, <2>2
    <3> QED BY <1>a, <1>b, <2>1, <2>5, <2>6, <3>1
  <2>8. HandsRead'
    BY <1>a, <1>c, <2>1, <2>5, <2>6 DEF HandsRead
  <2>9. Vetted'
    <3>1. review.approve => caVetted' \/ caRaced'
      BY <2>1, <2>2
    <3> QED BY <2>1, <2>3, <2>4, <2>5, <3>1 DEF Vetted
  <2> QED BY <2>7, <2>8, <2>9
<1>8. ASSUME NEW a \in ConcertAdmins, ReviewEnds(a)
      PROVE  ApprovalTypeOK' /\ HandsRead' /\ Vetted'
  <2>1. /\ caReview' = [caReview EXCEPT ![a] = NoReview]
        /\ UNCHANGED <<caConcert, caEdit, caVetted, caOnAir, caRaced>>
    BY <1>8 DEF ReviewEnds
  <2>2. NoReview \in ReviewInHand /\ NoReview.saw = NULL /\ NoReview.read = NULL
    BY DEF NoReview, ReviewInHand
  <2>3. ApprovalTypeOK'
    BY <1>a, <1>b, <2>1, <2>2
  <2>4. HandsRead'
    BY <1>a, <2>1, <2>2 DEF HandsRead
  <2>5. Vetted'
    BY <2>1 DEF Vetted
  <2> QED BY <2>3, <2>4, <2>5
<1>9. CASE UNCHANGED approvalVars
  <2>1. UNCHANGED <<caConcert, caEdit, caReview, caVetted, caOnAir, caRaced>>
    BY <1>9 DEF approvalVars
  <2>2. ApprovalTypeOK'
    BY <1>a, <1>b, <2>1
  <2>3. HandsRead'
    BY <2>1 DEF HandsRead
  <2>4. Vetted'
    BY <2>1 DEF Vetted
  <2> QED BY <2>2, <2>3, <2>4
<1> QED BY <1>1, <1>2, <1>3, <1>4, <1>5, <1>6, <1>7, <1>8, <1>9 DEF ApprovalNext

\* What the audience sees of a concert an admin has seen, for every number of edits
\* and reviews that overlap.
THEOREM ConcertsAreVetted == ApprovalSpec => [](ApprovalTypeOK /\ Vetted)
<1>1. ApprovalInit => ApprovalInv
  BY ApprovalInitial
<1>2. ApprovalInv /\ [ApprovalNext]_approvalVars => ApprovalInv'
  BY ApprovalStep
<1>3. ApprovalInv => ApprovalTypeOK /\ Vetted
  BY DEF ApprovalInv
<1> QED BY <1>1, <1>2, <1>3, PTL DEF ApprovalSpec

-----------------------------------------------------------------------------
(* Reports and their verdicts.                                             *)

ReviewHand == [at : {"read", "saved"}, report : UserReports, row : ReportRow, to : Verdicts]

\* The verdict of r that is shown is in the log, or in a moderator's hand.
ShownVerdict(r) == [report |-> r, by |-> rpReport[r].by, status |-> rpReport[r].status]
MadeBy(m) == [report |-> rpHand[m].report, by |-> m, status |-> rpHand[m].to]
Accounted ==
    {r \in UserReports :
       rpReport[r] # NULL /\ rpReport[r].status # "pending" =>
         \/ ShownVerdict(r) \in rpLog
         \/ \E m \in Moderators : rpHand[m].at = "saved" /\ ShownVerdict(r) = MadeBy(m)}

\* The property, as a set of reports that are accounted for.
LEMMA AccountedIsLogged ==
    VerdictsAreLogged <=> UserReports \ (rpMixed \cup rpUnlogged) \subseteq Accounted
BY DEF VerdictsAreLogged, Accounted, ShownVerdict, MadeBy

RowsThere == {m \in Moderators : rpHand[m].at = "idle" \/ rpReport[rpHand[m].report] \in ReportRow}

ReportInv ==
    /\ ReportTypeOK
    /\ Moderators \subseteq RowsThere
    /\ UserReports \ (rpMixed \cup rpUnlogged) \subseteq Accounted

\* The initial states satisfy ReportInv.
LEMMA ReportInitial == ReportInit => ReportInv
<1> SUFFICES ASSUME ReportInit PROVE ReportInv
  OBVIOUS
<1>1. ReportTypeOK
  BY DEF ReportInit, ReportTypeOK
<1>2. UserReports \subseteq Accounted
  BY DEF ReportInit, Accounted
<1>3. Moderators \subseteq RowsThere
  BY DEF ReportInit, RowsThere, Idle
<1> QED BY <1>1, <1>2, <1>3 DEF ReportInv

\* A report whose row stays is accounted for while nobody who saved lets go of it.
LEMMA AccountedKept ==
    ASSUME NEW r \in Accounted, rpReport'[r] = rpReport[r], rpLog \subseteq rpLog',
           \A m \in Moderators : rpHand[m].at = "saved" /\ rpHand[m].report = r =>
             \/ rpHand'[m] = rpHand[m]
             \/ MadeBy(m) \in rpLog'
    PROVE  r \in Accounted'
<1> SUFFICES ASSUME rpReport[r] # NULL, rpReport[r].status # "pending"
             PROVE  \/ ShownVerdict(r) \in rpLog'
                    \/ \E m \in Moderators : rpHand'[m].at = "saved" /\
                         ShownVerdict(r) = [report |-> rpHand'[m].report, by |-> m, status |-> rpHand'[m].to]
  BY DEF Accounted, ShownVerdict, MadeBy
<1>1. CASE ShownVerdict(r) \in rpLog
  BY <1>1
<1>2. ASSUME NEW m \in Moderators, rpHand[m].at = "saved", ShownVerdict(r) = MadeBy(m)
      PROVE  \/ ShownVerdict(r) \in rpLog'
             \/ \E n \in Moderators : rpHand'[n].at = "saved" /\
                  ShownVerdict(r) = [report |-> rpHand'[n].report, by |-> n, status |-> rpHand'[n].to]
  <2>1. rpHand[m].report = r
    BY <1>2 DEF ShownVerdict, MadeBy
  <2>2. CASE rpHand'[m] = rpHand[m]
    BY <1>2, <2>2 DEF MadeBy
  <2>3. CASE MadeBy(m) \in rpLog'
    BY <1>2, <2>3
  <2> QED BY <1>2, <2>1, <2>2, <2>3
<1> QED BY <1>1, <1>2 DEF Accounted

\* Every step of ReportNext keeps ReportInv.
LEMMA ReportStep == ReportInv /\ [ReportNext]_reportVars => ReportInv'
<1> SUFFICES ASSUME ReportInv, [ReportNext]_reportVars PROVE ReportInv'
  OBVIOUS
<1>a. /\ rpReport \in [UserReports -> ReportRow \cup {NULL}]
      /\ rpHand \in [Moderators -> {Idle} \cup ReviewHand]
      /\ rpLog \subseteq ReviewMade
      /\ rpUnlogged \subseteq UserReports /\ rpMixed \subseteq UserReports
  BY DEF ReportInv, ReportTypeOK, ReviewHand
<1>b. UserReports \ (rpMixed \cup rpUnlogged) \subseteq Accounted
  BY DEF ReportInv
<1>c. ASSUME rpReport' \in [UserReports -> ReportRow \cup {NULL}],
             rpHand' \in [Moderators -> {Idle} \cup ReviewHand],
             rpLog' \subseteq ReviewMade,
             rpUnlogged' \subseteq UserReports, rpMixed' \subseteq UserReports,
             UserReports \ (rpMixed' \cup rpUnlogged') \subseteq Accounted',
             \A m \in Moderators : rpHand'[m].at = "idle" \/ rpReport'[rpHand'[m].report] \in ReportRow
      PROVE  ReportInv'
  BY <1>c DEF ReportInv, ReportTypeOK, ReviewHand, RowsThere
<1>d. \A m \in Moderators : rpHand[m].at # "idle" =>
        /\ rpHand[m] \in ReviewHand /\ rpHand[m].report \in UserReports
        /\ rpHand[m].row \in ReportRow /\ rpHand[m].to \in Verdicts
  BY <1>a DEF Idle, ReviewHand
<1>e. Idle.at = "idle"
  BY DEF Idle
<1>f. \A m \in Moderators : rpHand[m].at = "idle" \/ rpReport[rpHand[m].report] \in ReportRow
  BY DEF ReportInv, RowsThere
<1>1. ASSUME NEW r \in UserReports, FileReport(r) PROVE ReportInv'
  <2> DEFINE new == [status |-> "pending", by |-> NULL]
  <2>1. /\ rpReport[r] = NULL /\ rpReport' = [rpReport EXCEPT ![r] = new]
        /\ UNCHANGED <<rpHand, rpLog, rpUnlogged, rpMixed>>
    BY <1>1 DEF FileReport
  <2>2. new \in ReportRow /\ new.status = "pending"
    BY DEF ReportRow
  <2> HIDE DEF new
  <2>3. rpReport' \in [UserReports -> ReportRow \cup {NULL}] /\ rpReport'[r] = new
        /\ \A q \in UserReports \ {r} : rpReport'[q] = rpReport[q]
    BY <1>a, <2>1, <2>2
  <2>4. r \in Accounted'
    BY <2>2, <2>3 DEF Accounted
  <2>5. \A q \in UserReports \ ({r} \cup rpMixed \cup rpUnlogged) : q \in Accounted'
    BY <1>b, <2>1, <2>3, AccountedKept
  <2>6. \A m \in Moderators : rpHand'[m].at = "idle" \/ rpReport'[rpHand'[m].report] \in ReportRow
    BY <1>d, <1>f, <2>1, <2>2, <2>3
  <2> QED BY <1>a, <1>c, <2>1, <2>3, <2>4, <2>5, <2>6
<1>2. ASSUME NEW m \in Moderators, NEW r \in UserReports, NEW to \in Verdicts, ReadReport(m, r, to)
      PROVE  ReportInv'
  <2> DEFINE new == [at |-> "read", report |-> r, row |-> rpReport[r], to |-> to]
  <2>1. /\ rpHand[m] = Idle /\ rpReport[r] # NULL
        /\ rpHand' = [rpHand EXCEPT ![m] = new]
        /\ UNCHANGED <<rpReport, rpLog, rpUnlogged, rpMixed>>
    BY <1>2 DEF ReadReport
  <2>2. new \in ReviewHand
    BY <1>a, <2>1 DEF ReviewHand
  <2> HIDE DEF new
  <2>3. /\ rpHand' \in [Moderators -> {Idle} \cup ReviewHand]
        /\ \A n \in Moderators : rpHand[n].at = "saved" => rpHand'[n] = rpHand[n]
    BY <1>a, <1>e, <2>1, <2>2
  <2>4. \A q \in UserReports \ (rpMixed \cup rpUnlogged) : q \in Accounted'
    BY <1>b, <2>1, <2>3, AccountedKept
  <2>5. /\ rpHand'[m].report = r /\ rpReport[r] \in ReportRow
        /\ \A n \in Moderators \ {m} : rpHand'[n] = rpHand[n]
    <3>1. rpHand'[m] = new /\ \A n \in Moderators \ {m} : rpHand'[n] = rpHand[n]
      BY <1>a, <2>1
    <3>2. new.report = r
      BY DEF new
    <3>3. rpReport[r] \in ReportRow
      BY <1>a, <2>1
    <3> QED BY <3>1, <3>2, <3>3
  <2>6. \A n \in Moderators : rpHand'[n].at = "idle" \/ rpReport'[rpHand'[n].report] \in ReportRow
    BY <1>f, <2>1, <2>5
  <2> QED BY <1>a, <1>c, <2>1, <2>3, <2>4, <2>6
<1>3. ASSUME NEW m \in Moderators, SaveReport(m) PROVE ReportInv'
  <2> DEFINE r == rpHand[m].report
             new == Reviewed(m, rpReport[r])
             saved == [rpHand[m] EXCEPT !.at = "saved"]
  <2>1. /\ rpHand[m].at = "read" /\ rpReport' = [rpReport EXCEPT ![r] = new]
        /\ rpMixed' = IF rpReport[r] = rpHand[m].row THEN rpMixed \ {r} ELSE rpMixed \cup {r}
        /\ rpUnlogged' = rpUnlogged \ {r}
        /\ rpHand' = [rpHand EXCEPT ![m] = saved]
        /\ rpLog' = rpLog
    BY <1>3 DEF SaveReport
  <2>2. /\ rpHand[m] \in ReviewHand /\ r \in UserReports /\ rpHand[m].row \in ReportRow
        /\ rpHand[m].to \in Verdicts
    BY <1>d, <2>1
  <2>3. /\ saved \in ReviewHand /\ saved.at = "saved" /\ saved.report = r /\ saved.to = rpHand[m].to
    BY <2>2 DEF ReviewHand
  <2>4. rpReport[r] = rpHand[m].row =>
          /\ new \in ReportRow /\ new.status = rpHand[m].to /\ new.by = m
    BY <2>2 DEF Reviewed, ReportRow
  <2> HIDE DEF saved, new
  <2>5. new \in ReportRow
    <3>1. \A row \in ReportRow : Reviewed(m, row) \in ReportRow
      BY <2>2 DEF Reviewed, ReportRow
    <3>2. rpReport[r] \in ReportRow
      BY <1>f, <2>1
    <3> QED BY <3>1, <3>2 DEF new
  <2>6. /\ rpHand' \in [Moderators -> {Idle} \cup ReviewHand] /\ rpHand'[m] = saved
        /\ \A n \in Moderators \ {m} : rpHand'[n] = rpHand[n]
    BY <1>a, <2>1, <2>3
  <2>7. /\ rpReport' \in [UserReports -> ReportRow \cup {NULL}] /\ rpReport'[r] = new
        /\ \A q \in UserReports \ {r} : rpReport'[q] = rpReport[q]
    BY <1>a, <2>1, <2>2, <2>5
  <2>8. ASSUME r \notin rpMixed' PROVE r \in Accounted'
    <3>1. rpReport[r] = rpHand[m].row
      BY <2>1, <2>8
    <3>2. [report |-> r, by |-> rpReport'[r].by, status |-> rpReport'[r].status]
            = [report |-> rpHand'[m].report, by |-> m, status |-> rpHand'[m].to]
      BY <2>3, <2>4, <2>6, <2>7, <3>1
    <3> QED BY <2>2, <2>3, <2>6, <3>2 DEF Accounted, ShownVerdict, MadeBy
  <2>9. \A q \in UserReports \ ({r} \cup rpMixed' \cup rpUnlogged') : q \in Accounted'
    <3> TAKE q \in UserReports \ ({r} \cup rpMixed' \cup rpUnlogged')
    <3>1. q \in Accounted
      BY <1>b, <2>1
    <3> QED BY <2>1, <2>6, <2>7, <3>1, AccountedKept
  <2>10. rpMixed' \subseteq UserReports /\ rpUnlogged' \subseteq UserReports
    BY <1>a, <2>1, <2>2
  <2>11. \A n \in Moderators : rpHand'[n].at = "idle" \/ rpReport'[rpHand'[n].report] \in ReportRow
    <3>1. rpHand'[m].report = r
      BY <2>3, <2>6
    <3>2. \A n \in Moderators \ {m} : rpReport'[rpHand[n].report] \in ReportRow \/ rpHand[n].at = "idle"
      BY <1>d, <1>f, <2>5, <2>7
    <3> QED BY <2>5, <2>6, <2>7, <3>1, <3>2
  <2> HIDE DEF r
  <2> QED BY <1>a, <1>c, <2>1, <2>6, <2>7, <2>8, <2>9, <2>10, <2>11
<1>4. ASSUME NEW m \in Moderators, LogReview(m) PROVE ReportInv'
  <2> DEFINE made == [report |-> rpHand[m].report, by |-> m, status |-> rpHand[m].to]
  <2>1. /\ rpHand[m].at = "saved" /\ rpHand' = [rpHand EXCEPT ![m] = Idle]
        /\ rpReport' = rpReport /\ rpMixed' = rpMixed
        /\ \/ rpLog' = rpLog \cup {made} /\ rpUnlogged' = rpUnlogged
           \/ rpUnlogged' = rpUnlogged \cup {rpHand[m].report} /\ rpLog' = rpLog
    BY <1>4 DEF LogReview
  <2>2. /\ made \in ReviewMade /\ made = MadeBy(m) /\ rpHand[m].report \in UserReports
    BY <1>d, <2>1 DEF ReviewMade, MadeBy
  <2> HIDE DEF made
  <2>3. /\ rpHand' \in [Moderators -> {Idle} \cup ReviewHand]
        /\ \A n \in Moderators \ {m} : rpHand'[n] = rpHand[n]
    BY <1>a, <2>1
  <2>4. /\ rpLog' \subseteq ReviewMade /\ rpLog \subseteq rpLog'
        /\ rpUnlogged' \subseteq UserReports /\ rpUnlogged \subseteq rpUnlogged'
        /\ MadeBy(m) \in rpLog' \/ rpHand[m].report \in rpUnlogged'
    BY <1>a, <2>1, <2>2
  <2>5. \A q \in UserReports \ (rpMixed' \cup rpUnlogged') : q \in Accounted'
    <3> TAKE q \in UserReports \ (rpMixed' \cup rpUnlogged')
    <3>1. q \in Accounted
      BY <1>b, <2>1, <2>4
    <3> QED BY <2>1, <2>3, <2>4, <3>1, AccountedKept
  <2>6. \A n \in Moderators : rpHand'[n].at = "idle" \/ rpReport'[rpHand'[n].report] \in ReportRow
    BY <1>a, <1>e, <1>f, <2>1
  <2> QED BY <1>a, <1>c, <2>1, <2>3, <2>4, <2>5, <2>6
<1>5. ASSUME NEW m \in Moderators, ReviewOfReportFails(m) PROVE ReportInv'
  <2>1. /\ rpHand[m].at = "read" /\ rpHand' = [rpHand EXCEPT ![m] = Idle]
        /\ UNCHANGED <<rpReport, rpLog, rpUnlogged, rpMixed>>
    BY <1>5 DEF ReviewOfReportFails
  <2>2. /\ rpHand' \in [Moderators -> {Idle} \cup ReviewHand]
        /\ \A n \in Moderators : rpHand[n].at = "saved" => rpHand'[n] = rpHand[n]
    BY <1>a, <2>1
  <2>3. \A q \in UserReports \ (rpMixed \cup rpUnlogged) : q \in Accounted'
    BY <1>b, <2>1, <2>2, AccountedKept
  <2>4. \A n \in Moderators : rpHand'[n].at = "idle" \/ rpReport'[rpHand'[n].report] \in ReportRow
    BY <1>a, <1>e, <1>f, <2>1
  <2> QED BY <1>a, <1>c, <2>1, <2>2, <2>3, <2>4
<1>6. CASE UNCHANGED reportVars
  <2>1. UNCHANGED <<rpReport, rpHand, rpLog, rpUnlogged, rpMixed>>
    BY <1>6 DEF reportVars
  <2>2. \A q \in UserReports \ (rpMixed \cup rpUnlogged) : q \in Accounted'
    BY <1>b, <2>1, AccountedKept
  <2>3. \A m \in Moderators : rpHand'[m].at = "idle" \/ rpReport'[rpHand'[m].report] \in ReportRow
    BY <1>f, <2>1
  <2> QED BY <1>a, <1>c, <2>1, <2>2, <2>3
<1> QED BY <1>1, <1>2, <1>3, <1>4, <1>5, <1>6 DEF ReportNext

\* The verdict a report shows is in the log, or about to be written there, unless
\* moderators overlapped or one broke off in between.
THEOREM VerdictsOfLog == ReportSpec => [](ReportTypeOK /\ VerdictsAreLogged)
<1>1. ReportInit => ReportInv
  BY ReportInitial
<1>2. ReportInv /\ [ReportNext]_reportVars => ReportInv'
  BY ReportStep
<1>3. ReportInv => ReportTypeOK /\ VerdictsAreLogged
  BY AccountedIsLogged DEF ReportInv
<1> QED BY <1>1, <1>2, <1>3, PTL DEF ReportSpec

-----------------------------------------------------------------------------
(* Lists, read page by page.                                               *)

\* Nothing that was got comes after the cursor, and nothing that stayed is left before it.
CursorInv ==
    Keyset /\ ~lsPaged =>
      /\ ~lsAgain
      /\ lsAt = "start" => lsSeen = {}
      /\ lsAt = "middle" =>
           /\ \A r \in lsSeen : ~Beyond(r)
           /\ \A r \in lsStayed \ lsSeen : Beyond(r)
      /\ lsAt = "end" => lsStayed \subseteq lsSeen
ListInv == ListTypeOK /\ CursorInv

\* Rows have naturals to be sorted by.
LEMMA Values ==
    ASSUME NEW list \in Lists, NEW r \in Rows
    PROVE  Column[list.sort][r] \in Nat /\ Id[r] \in Nat
BY ListingAssumption DEF Lists, Columns, Newest, listLives, listBlogs, listMine, listAll,
   listCompetitions, listMyCompetitions, listVideos, listNotifications, listReplays,
   listReports, listSponsorRequests, listCreatorRequests, listArtists, listLogs,
   listMessages, listDuels, listConcerts, listArtistConcerts, listMyReplays,
   listPlatformBans

\* The initial states satisfy ListTypeOK.
LEMMA ListInitial == ListInit => ListTypeOK
<1>1. listLives \in Lists
  BY DEF Lists
<1>2. [t |-> 0, i |-> 0] \in [t : Nat, i : Nat]
  OBVIOUS
<1> QED BY <1>1, <1>2 DEF ListInit, ListTypeOK

\* Every step of ListNext keeps ListTypeOK.
LEMMA ListTyped == ListTypeOK /\ [ListNext]_listVars => ListTypeOK'
<1> SUFFICES ASSUME ListTypeOK, [ListNext]_listVars PROVE ListTypeOK'
  OBVIOUS
<1>1. ASSUME NEW r \in Rows, RowComes(r) \/ RowGoes(r) PROVE ListTypeOK'
  BY <1>1 DEF RowComes, RowGoes, ListTypeOK
<1>2. ASSUME NEW list \in Lists, NEW paged \in BOOLEAN, Opens(list, paged) PROVE ListTypeOK'
  BY <1>2 DEF Opens, ListTypeOK
<1>3. ASSUME NEW page \in SUBSET Matching, ReadsPage(page) PROVE ListTypeOK'
  <2>1. page \subseteq Rows /\ page \subseteq lsTable
    BY DEF Matching, ListTypeOK
  <2>2. lsCursor' \in [t : Nat, i : Nat]
    <3>1. CASE ~IsFull(page)
      BY <1>3, <3>1 DEF ReadsPage, ListTypeOK
    <3>2. CASE IsFull(page)
      <4>1. PICK r \in page : lsCursor' = [t |-> Column["created_at"][r], i |-> Id[r]]
        BY <1>3, <3>2 DEF ReadsPage
      <4>2. Column["created_at"][r] \in Nat /\ Id[r] \in Nat
        BY <2>1, ListingAssumption DEF Columns
      <4> QED BY <4>1, <4>2
    <3> QED BY <3>1, <3>2
  <2>3. lsAt' \in {"end", "middle"}
    BY <1>3 DEF ReadsPage
  <2> QED BY <1>3, <2>1, <2>2, <2>3 DEF ReadsPage, Gets, ListTypeOK
<1>4. ASSUME NEW page \in SUBSET Matching, CursorFails(page) PROVE ListTypeOK'
  BY <1>4 DEF CursorFails, ListTypeOK
<1>5. ASSUME ReadsOffset PROVE ListTypeOK'
  <2>1. lsSkip' \in Nat
    BY <1>5, ListingAssumption DEF ReadsOffset, ListTypeOK
  <2> QED BY <1>5, <2>1 DEF ReadsOffset, Gets, ListTypeOK
<1>6. ASSUME UNCHANGED listVars PROVE ListTypeOK'
  BY <1>6 DEF listVars, ListTypeOK
<1> QED BY <1>1, <1>2, <1>3, <1>4, <1>5, <1>6 DEF ListNext

-----------------------------------------------------------------------------
\* A page is a finite set, so one that is not full is shorter than a full one.
LEMMA PagesAreFinite ==
    ASSUME ListTypeOK, NEW page \in SUBSET Matching
    PROVE  Cardinality(page) \in Nat
<1>1. page \subseteq Rows
  BY DEF Matching, ListTypeOK
<1> QED BY <1>1, ListingAssumption, FS_Subset, FS_CardinalityType

\* The initial states satisfy CursorInv.
LEMMA CursorInitial == ListInit => CursorInv
BY DEF ListInit, CursorInv

\* The cursor of a page is the last place on it.
LEMMA PageKeepsCursor ==
    ASSUME ListInv, NEW page \in SUBSET Matching, ReadsPage(page)
    PROVE  CursorInv'
<1> SUFFICES ASSUME Keyset' /\ ~lsPaged' PROVE
      /\ ~lsAgain'
      /\ lsAt' = "start" => lsSeen' = {}
      /\ lsAt' = "middle" => /\ \A r \in lsSeen' : ~Beyond(r)'
                             /\ \A r \in lsStayed' \ lsSeen' : Beyond(r)'
      /\ lsAt' = "end" => lsStayed' \subseteq lsSeen'
  BY DEF CursorInv
<1>1. /\ lsList' = lsList /\ lsStayed' = lsStayed /\ lsSeen' = lsSeen \cup page
      /\ lsAgain' = (lsAgain \/ lsSeen \cap page # {}) /\ lsPaged' = lsPaged
      /\ lsAt \in {"start", "middle"} /\ lsAt' \in {"end", "middle"}
  BY DEF ReadsPage, Gets
<1>2. lsList.sort = "created_at" /\ lsList.cursor = "where" /\ Keyset /\ ~lsPaged
  BY <1>1 DEF Keyset
<1>3. page \subseteq Rows /\ lsSeen \subseteq Rows /\ lsStayed \subseteq lsTable
      /\ lsTable \subseteq Rows
  BY DEF ListInv, ListTypeOK, Matching
<1>4. /\ ~lsAgain
      /\ lsAt = "start" => lsSeen = {}
      /\ lsAt = "middle" => /\ \A r \in lsSeen : ~Beyond(r)
                            /\ \A r \in lsStayed \ lsSeen : Beyond(r)
  BY <1>2 DEF ListInv, CursorInv
<1>5. ~lsAgain'
  BY <1>1, <1>2, <1>4 DEF Matching
<1>6. lsStayed \ lsSeen \subseteq Matching
  BY <1>1, <1>2, <1>3, <1>4 DEF Matching
<1>7. CASE ~IsFull(page)
  <2>1. page = Matching /\ lsAt' = "end"
    BY <1>7, PagesAreFinite, ListingAssumption DEF ReadsPage, IsPage, IsFull, ListInv
  <2> QED BY <1>1, <1>5, <1>6, <2>1
<1>8. CASE IsFull(page)
  <2>1. PICK r \in page : /\ IsLast(r, page)
                          /\ lsCursor' = [t |-> Column["created_at"][r], i |-> Id[r]]
    BY <1>8 DEF ReadsPage
  <2>2. lsAt' = "middle"
    BY <1>8 DEF ReadsPage
  <2>3. /\ r \in Rows /\ Value(r) \in Nat /\ Id[r] \in Nat
        /\ \A s \in Rows : Value(s) \in Nat /\ Id[s] \in Nat
    BY <1>3, Values DEF ListInv, ListTypeOK, Value
  <2>4. /\ lsCursor'.t = Value(r) /\ lsCursor'.i = Id[r]
        /\ \A s : Value(s)' = Value(s)
    BY <1>1, <1>2, <2>1 DEF Value
  <2>5. lsCursor.t \in Nat /\ lsCursor.i \in Nat
    BY DEF ListInv, ListTypeOK
  <2>6. ASSUME NEW s \in lsSeen' PROVE ~Beyond(s)'
    <3>1. CASE s \in page
      <4>1. s = r \/ Before(s, r)
        BY <2>1, <3>1 DEF IsLast
      <4>2. s \in Rows
        BY <1>3, <3>1
      <4> QED BY <2>3, <2>4, <4>1, <4>2 DEF Beyond, Before
    <3>2. CASE s \in lsSeen
      <4>1. ~Beyond(s) /\ Beyond(r) /\ s \in Rows
        BY <1>1, <1>2, <1>3, <1>4, <3>2 DEF Matching
      <4> QED BY <2>3, <2>4, <2>5, <4>1 DEF Beyond
    <3> QED BY <1>1, <2>6, <3>1, <3>2
  <2>7. ASSUME NEW s \in lsStayed' \ lsSeen' PROVE Beyond(s)'
    <3>1. s \in Matching \ page /\ s \in Rows
      BY <1>1, <1>3, <1>6, <2>7
    <3>2. Before(r, s)
      BY <3>1 DEF ReadsPage, IsPage
    <3> QED BY <2>3, <2>4, <3>1, <3>2 DEF Beyond, Before
  <2> QED BY <1>5, <2>2, <2>6, <2>7
<1> QED BY <1>7, <1>8

\* Every step of ListNext keeps CursorInv.
LEMMA CursorKept == ListInv /\ [ListNext]_listVars => CursorInv'
<1> SUFFICES ASSUME ListInv, [ListNext]_listVars PROVE CursorInv'
  OBVIOUS
<1>1. ASSUME NEW r \in Rows, RowComes(r) \/ RowGoes(r) PROVE CursorInv'
  BY <1>1 DEF RowComes, RowGoes, ListInv, CursorInv, Keyset, Beyond, Value
<1>2. ASSUME NEW list \in Lists, NEW paged \in BOOLEAN, Opens(list, paged) PROVE CursorInv'
  BY <1>2 DEF Opens, CursorInv
<1>3. ASSUME NEW page \in SUBSET Matching, ReadsPage(page) PROVE CursorInv'
  BY <1>3, PageKeepsCursor
<1>4. ASSUME NEW page \in SUBSET Matching, CursorFails(page) PROVE CursorInv'
  BY <1>4 DEF CursorFails, CursorInv, Keyset
<1>5. ASSUME ReadsOffset PROVE CursorInv'
  BY <1>5 DEF ReadsOffset, Gets, CursorInv
<1>6. ASSUME UNCHANGED listVars PROVE CursorInv'
  BY <1>6 DEF listVars, ListInv, CursorInv, Keyset, Beyond, Value
<1> QED BY <1>1, <1>2, <1>3, <1>4, <1>5, <1>6 DEF ListNext

\* Rows are in a line: of two one comes before the other, and their places are the
\* numbers from nought to the last.
LEMMA RowsInLine ==
    ASSUME ListTypeOK
    PROVE  /\ \A r, s \in Rows : r # s => Before(r, s) \/ Before(s, r)
           /\ \A r \in Rows : ~Before(r, r)
           /\ \A r, s, t \in Rows : Before(r, s) /\ Before(s, t) => Before(r, t)
<1>1. \A r \in Rows : Value(r) \in Nat /\ Id[r] \in Nat
  BY Values DEF ListTypeOK, Value
<1>2. \A r, s \in Rows : Id[r] = Id[s] => r = s
  BY ListingAssumption
<1> QED BY <1>1, <1>2 DEF Before

\* The places of the list are numbers.
LEMMA PlacesAreNumbers ==
    ASSUME ListTypeOK
    PROVE  /\ IsFiniteSet(lsTable) /\ Cardinality(lsTable) \in Nat
           /\ \A r \in lsTable : Place(r) \in Nat /\ Place(r) < Cardinality(lsTable)
           /\ \A r, s \in lsTable : Place(r) = Place(s) => r = s
           /\ \A k \in 0..(Cardinality(lsTable) - 1) : \E r \in lsTable : Place(r) = k
<1> DEFINE n == Cardinality(lsTable)
           Ahead(r) == {s \in lsTable : Before(s, r)}
<1>1. lsTable \subseteq Rows /\ IsFiniteSet(lsTable) /\ n \in Nat
  <2>1. lsTable \subseteq Rows
    BY DEF ListTypeOK
  <2> QED BY <2>1, ListingAssumption, FS_Subset, FS_CardinalityType
<1>2. \A r : Place(r) = Cardinality(Ahead(r)) /\ IsFiniteSet(Ahead(r)) /\ Place(r) \in Nat
  <2> TAKE r
  <2>1. Ahead(r) \subseteq lsTable
    OBVIOUS
  <2>2. IsFiniteSet(Ahead(r)) /\ Cardinality(Ahead(r)) \in Nat
    BY <1>1, <2>1, FS_Subset, FS_CardinalityType
  <2> QED BY <2>2 DEF Place
<1>3. ASSUME NEW r \in lsTable PROVE Place(r) < n
  <2>1. r \notin Ahead(r) /\ Ahead(r) \subseteq lsTable
    BY <1>1, RowsInLine
  <2>2. Cardinality(Ahead(r)) <= n /\ Cardinality(Ahead(r)) # n
    BY <1>1, <1>3, <2>1, FS_Subset
  <2> QED BY <1>1, <1>2, <2>2
<1>4. ASSUME NEW r \in lsTable, NEW s \in lsTable, Before(r, s)
      PROVE  Place(r) < Place(s)
  <2>1. Ahead(r) \subseteq Ahead(s) /\ r \in Ahead(s) /\ r \notin Ahead(r)
    BY <1>1, <1>4, RowsInLine
  <2>2. Cardinality(Ahead(r)) <= Cardinality(Ahead(s)) /\ Cardinality(Ahead(r)) # Cardinality(Ahead(s))
    BY <1>2, <2>1, FS_Subset
  <2> QED BY <1>2, <2>2
<1>5. \A r, s \in lsTable : Place(r) = Place(s) => r = s
  <2> SUFFICES ASSUME NEW r \in lsTable, NEW s \in lsTable, r # s PROVE Place(r) # Place(s)
    OBVIOUS
  <2>1. Before(r, s) \/ Before(s, r)
    BY <1>1, RowsInLine
  <2>2. Place(r) < Place(s) \/ Place(s) < Place(r)
    BY <1>4, <2>1
  <2>3. Place(r) \in Nat /\ Place(s) \in Nat
    BY <1>2
  <2> QED BY <2>2, <2>3
<1> DEFINE f == [r \in lsTable |-> Place(r)]
<1>6. f \in Injection(lsTable, 0..(n - 1))
  <2>1. \A r \in lsTable : Place(r) \in 0..(n - 1)
    <3>1. \A r \in lsTable : Place(r) \in Nat /\ Place(r) < n
      BY <1>2, <1>3
    <3> HIDE DEF n
    <3> QED BY <1>1, <3>1
  <2> HIDE DEF n
  <2>2. f \in [lsTable -> 0..(n - 1)]
    BY <2>1
  <2> QED BY <1>5, <2>2 DEF Injection, IsInjective
<1>7. IsFiniteSet(0..(n - 1)) /\ Cardinality(0..(n - 1)) = n
  <2>1. IsFiniteSet(0..(n - 1)) /\ Cardinality(0..(n - 1)) = IF 0 > n - 1 THEN 0 ELSE n - 1 - 0 + 1
    BY <1>1, FS_Interval
  <2> QED BY <1>1, <2>1
<1>8. f \in Surjection(lsTable, 0..(n - 1))
  BY <1>6, <1>7, FS_Injection
<1>9. \A k \in 0..(n - 1) : \E r \in lsTable : Place(r) = k
  <2>1. \A k \in 0..(n - 1) : \E r \in lsTable : f[r] = k
    <3> HIDE DEF f, n
    <3> QED BY <1>8 DEF Surjection
  <2> QED BY <2>1
<1> QED BY <1>1, <1>2, <1>3, <1>5, <1>9

\* A page at an offset that is not full holds the last row.
LEMMA ShortPageIsLast ==
    ASSUME ListTypeOK,
           ~IsFull({r \in lsTable : Place(r) \in lsSkip .. lsSkip + Limit - 1})
    PROVE  \A r \in lsTable : Place(r) < lsSkip + Limit
<1> DEFINE places == lsSkip .. lsSkip + Limit - 1
           page == {r \in lsTable : Place(r) \in places}
           n == Cardinality(lsTable)
<1>1. lsSkip \in Nat /\ Limit \in Nat \ {0}
  BY ListingAssumption DEF ListTypeOK
<1> SUFFICES ASSUME NEW r \in lsTable, ~(Place(r) < lsSkip + Limit) PROVE IsFull(page)
  OBVIOUS
<1>2. /\ n \in Nat /\ Place(r) \in Nat /\ Place(r) < n
      /\ \A k \in 0..(n - 1) : \E s \in lsTable : Place(s) = k
      /\ \A s, t \in lsTable : Place(s) = Place(t) => s = t
  BY PlacesAreNumbers
<1>3. places \subseteq 0..(n - 1)
  BY <1>1, <1>2
<1>4. IsFiniteSet(places) /\ Cardinality(places) = Limit
  <2>1. /\ IsFiniteSet(places)
        /\ Cardinality(places) = IF lsSkip > lsSkip + Limit - 1 THEN 0 ELSE (lsSkip + Limit - 1) - lsSkip + 1
    BY <1>1, FS_Interval
  <2> QED BY <1>1, <2>1
<1> DEFINE h == [s \in page |-> Place(s)]
<1> HIDE DEF places
<1>5. h \in Injection(page, places)
  BY <1>2 DEF Injection, IsInjective
<1>6. h \in Surjection(page, places)
  <2>1. \A k \in places : \E s \in page : h[s] = k
    BY <1>2, <1>3
  <2>2. h \in [page -> places]
    OBVIOUS
  <2> HIDE DEF h, page
  <2> QED BY <2>1, <2>2 DEF Surjection
<1>7. Cardinality(page) = Limit
  BY <1>4, <1>5, <1>6, FS_Injection
<1> QED BY <1>7 DEF IsFull

\* While nothing comes or goes, a reader by page numbers has got the rows before his
\* offset, each once.
PagesInv ==
    lsPaged /\ ~lsMoved =>
      /\ ~lsAgain
      /\ lsAt \in {"start", "middle"} => lsSeen = {r \in lsTable : Place(r) < lsSkip}
      /\ lsAt = "end" => lsTable \subseteq lsSeen

\* Every step of ListNext keeps PagesInv.
LEMMA PagesKept == ListTypeOK /\ PagesInv /\ [ListNext]_listVars => PagesInv'
<1> SUFFICES ASSUME ListTypeOK, PagesInv, [ListNext]_listVars PROVE PagesInv'
  OBVIOUS
<1>1. ASSUME NEW r \in Rows, RowComes(r) \/ RowGoes(r) PROVE PagesInv'
  BY <1>1 DEF RowComes, RowGoes, PagesInv
<1>2. ASSUME NEW list \in Lists, NEW paged \in BOOLEAN, Opens(list, paged) PROVE PagesInv'
  <2>1. /\ lsTable' = lsTable /\ lsAt' = "start" /\ lsSkip' = 0 /\ lsSeen' = {} /\ lsAgain' = FALSE
        /\ lsTable' \subseteq Rows
    BY <1>2 DEF Opens, ListTypeOK
  <2>2. \A r : Place(r)' \in Nat
    <3> TAKE r
    <3>1. {s \in lsTable' : Before(s, r)'} \subseteq Rows
      BY <2>1
    <3>2. Cardinality({s \in lsTable' : Before(s, r)'}) \in Nat
      BY <3>1, ListingAssumption, FS_Subset, FS_CardinalityType
    <3> QED BY <3>2 DEF Place
  <2>3. \A r : ~(Place(r)' < 0)
    BY <2>2
  <2> QED BY <2>1, <2>3 DEF PagesInv
<1>3. ASSUME NEW page \in SUBSET Matching, ReadsPage(page) \/ CursorFails(page) PROVE PagesInv'
  BY <1>3 DEF ReadsPage, CursorFails, Gets, PagesInv
<1>4. ASSUME ReadsOffset PROVE PagesInv'
  <2> DEFINE page == {r \in lsTable : Place(r) \in lsSkip .. lsSkip + Limit - 1}
  <2>1. /\ lsPaged /\ lsAt \in {"start", "middle"}
        /\ lsSeen' = lsSeen \cup page /\ lsAgain' = (lsAgain \/ lsSeen \cap page # {})
        /\ lsAt' = (IF IsFull(page) THEN "middle" ELSE "end")
        /\ lsSkip' = lsSkip + Limit
        /\ UNCHANGED <<lsTable, lsList, lsPaged, lsStayed, lsMoved>>
    BY <1>4 DEF ReadsOffset, Gets
  <2> SUFFICES ASSUME ~lsMoved PROVE PagesInv'
    BY <2>1 DEF PagesInv
  <2>2. ~lsAgain /\ lsSeen = {r \in lsTable : Place(r) < lsSkip}
    BY <2>1 DEF PagesInv
  <2>3. lsSkip \in Nat /\ Limit \in Nat \ {0} /\ \A r \in lsTable : Place(r) \in Nat
    BY ListingAssumption, PlacesAreNumbers DEF ListTypeOK
  <2>4. lsSeen \cap page = {}
    BY <2>2, <2>3
  <2>5. lsSeen \cup page = {r \in lsTable : Place(r) < lsSkip + Limit}
    BY <2>2, <2>3
  <2>6. \A r : Place(r)' = Place(r)
    BY <2>1 DEF Place, Before, Value
  <2>7. ~IsFull(page) => lsTable \subseteq lsSeen \cup page
    BY <2>5, ShortPageIsLast
  <2> HIDE DEF page
  <2> QED BY <2>1, <2>2, <2>4, <2>5, <2>6, <2>7 DEF PagesInv
<1>5. ASSUME UNCHANGED listVars PROVE PagesInv'
  BY <1>5 DEF listVars, PagesInv, Place, Before, Value
<1> QED BY <1>1, <1>2, <1>3, <1>4, <1>5 DEF ListNext

\* The initial states satisfy PagesInv.
LEMMA PagesInitial == ListInit => PagesInv
BY DEF ListInit, PagesInv

\* Keyset pages list every row that stays exactly once, whatever comes and goes.
THEOREM CursorPagesAreComplete == ListSpec => [](ListTypeOK /\ ReadByCursor)
<1>1. ListInit => ListInv
  BY ListInitial, CursorInitial DEF ListInv
<1>2. ListInv /\ [ListNext]_listVars => ListInv'
  BY ListTyped, CursorKept DEF ListInv
<1>3. ListInv => ListTypeOK /\ ReadByCursor
  BY DEF ListInv, CursorInv, ReadByCursor
<1> QED BY <1>1, <1>2, <1>3, PTL DEF ListSpec

\* Page numbers list every row exactly once while nothing comes or goes: the rows of
\* a table, of whatever size the pages are, are all at places from nought on.
THEOREM PagesAreComplete == ListSpec => []ReadByPages
<1>1. ListInit => ListTypeOK /\ PagesInv
  BY ListInitial, PagesInitial
<1>2. ListTypeOK /\ PagesInv /\ [ListNext]_listVars => (ListTypeOK /\ PagesInv)'
  BY ListTyped, PagesKept
<1>3. ListTypeOK /\ PagesInv => ReadByPages
  BY DEF ListTypeOK, PagesInv, ReadByPages
<1> QED BY <1>1, <1>2, <1>3, PTL DEF ListSpec

-----------------------------------------------------------------------------
(* Likes.                                                                  *)

\* Before there is something, nothing is done to it.
NothingToLike == lkKind = NULL => Toggling = {} /\ Likes = {} /\ lkItem.count = 0 /\ lkEdit = NULL

\* A user has one like, and while he has none his one toggle has found none.
OneLike(u) ==
    /\ \A m \in LikesOf(u) : \A n \in LikesOf(u) : m = n
    /\ u \notin lkTwice =>
         /\ \A t \in Toggling : \A s \in Toggling :
              lkToggle[t].user = u /\ lkToggle[s].user = u => t = s
         /\ \A t \in Toggling : lkToggle[t].user = u /\ lkToggle[t].at = "found"
              /\ lkToggle[t].found = NULL => LikesOf(u) = {}
LikesAreOne == \A u \in Likers : ~(lkKind = "video" /\ u \in lkTwice) => OneLike(u)

\* A toggle that is alone has read what is there, and counted it.
AloneIsRight ==
    \A t \in Toggling : lkToggle[t].alone =>
      /\ Toggling = {t}
      /\ lkToggle[t].read = lkItem.count
      /\ lkToggle[t].at = "counted" => lkToggle[t].likes = Cardinality(Likes)

\* The number is right, unless a toggle has changed the likes and not saved it, or
\* the last one that did was not alone.
Changed == {t \in Toggling : lkToggle[t].at \in {"changed", "counted"}}
NumberIsRight ==
    ~lkDrift /\ lkKind # "replay" /\ Changed = {} => lkItem.count = Cardinality(Likes)

LikeInv ==
    /\ LikeTypeOK /\ lkItem.views = lkSeen
    /\ NothingToLike /\ LikesAreOne /\ AloneIsRight /\ NumberIsRight

\* There are finitely many likes.
LEMMA LikesAreFinite == /\ IsFiniteSet(Likes) /\ Cardinality(Likes) \in Nat
                        /\ \A u : IsFiniteSet(LikesOf(u)) /\ Cardinality(LikesOf(u)) \in Nat
<1>1. IsFiniteSet(LikeRows)
  BY AudienceAssumption, FS_Interval DEF LikeRows
<1>2. Likes \subseteq LikeRows /\ \A u : LikesOf(u) \subseteq LikeRows
  BY DEF Likes, LikesOf
<1> QED BY <1>1, <1>2, FS_Subset, FS_CardinalityType

\* The invariant says the property.
LEMMA LikeSafe == LikeInv => LikesAddUp
<1> SUFFICES ASSUME LikeInv PROVE LikesAddUp
  OBVIOUS
<1>1. ASSUME NEW u \in Likers, Cardinality(LikesOf(u)) > 1 PROVE lkKind = "video" /\ u \in lkTwice
  <2> SUFFICES ASSUME OneLike(u) PROVE FALSE
    BY DEF LikeInv, LikesAreOne
  <2>1. CASE LikesOf(u) = {}
    BY <1>1, <2>1, FS_EmptySet
  <2>2. CASE LikesOf(u) # {}
    <3>1. PICK r : LikesOf(u) = {r}
      BY <2>2 DEF OneLike
    <3>2. Cardinality({r}) = 1
      BY FS_Singleton
    <3> QED BY <1>1, <3>1, <3>2
  <2> QED BY <2>1, <2>2
<1>2. ASSUME Toggling = {}, ~lkDrift PROVE Shown = Cardinality(Likes)
  <2>1. Changed = {}
    BY <1>2 DEF Changed
  <2>2. lkKind # "replay" => lkItem.count = Cardinality(Likes)
    BY <1>2, <2>1 DEF LikeInv, NumberIsRight
  <2> QED BY <2>2 DEF Shown
<1> QED BY <1>1, <1>2 DEF LikesAddUp, LikeInv

\* The initial states satisfy LikeInv.
LEMMA LikeInitial == LikeInit => LikeInv
<1> SUFFICES ASSUME LikeInit PROVE LikeInv
  OBVIOUS
<1>1. Likes = {} /\ Toggling = {} /\ \A u \in Likers : LikesOf(u) = {}
  BY LikeAssumption DEF LikeInit, Likes, Toggling, LikesOf
<1>2. LikeTypeOK
  <2>1. lkItem \in Item
    BY DEF LikeInit, Item
  <2>2. lkSeen \in 0..MaxViews
    BY AudienceAssumption DEF LikeInit
  <2> QED BY <2>1, <2>2 DEF LikeInit, LikeTypeOK
<1>3. lkItem.views = lkSeen /\ NothingToLike /\ LikesAreOne /\ AloneIsRight
  BY <1>1 DEF LikeInit, NothingToLike, LikesAreOne, OneLike, AloneIsRight
<1>4. NumberIsRight
  BY <1>1, FS_EmptySet DEF LikeInit, NumberIsRight
<1> QED BY <1>2, <1>3, <1>4 DEF LikeInv

\* Nothing happens to likes and toggles.
LEMMA LikesStay ==
    ASSUME LikeInv, UNCHANGED <<lkKind, lkRows, lkToggle, lkTwice, lkDrift>>,
           lkItem' \in Item, lkItem'.count = lkItem.count, lkItem'.views = lkSeen',
           lkSeen' \in 0..MaxViews, lkEdit' \in Item \cup {NULL}, lkKind = NULL => lkEdit' = NULL
    PROVE  LikeInv'
<1>1. LikeTypeOK'
  BY DEF LikeInv, LikeTypeOK
<1>2. Likes' = Likes /\ Toggling' = Toggling /\ Changed' = Changed /\ \A u : LikesOf(u)' = LikesOf(u)
  BY DEF Likes, Toggling, Changed, LikesOf
<1>3. NothingToLike' /\ AloneIsRight' /\ NumberIsRight'
  BY <1>2 DEF LikeInv, NothingToLike, AloneIsRight, NumberIsRight
<1>4. LikesAreOne'
  BY <1>2 DEF LikeInv, LikesAreOne, OneLike
<1> QED BY <1>1, <1>3, <1>4 DEF LikeInv

\* Something to like appears.
LEMMA AppearsStep ==
    ASSUME LikeInv, NEW kind \in {"comment", "video", "replay"}, Appears(kind)
    PROVE  LikeInv'
<1>1. /\ lkKind = NULL /\ lkKind' = kind /\ kind # NULL
      /\ UNCHANGED <<lkItem, lkRows, lkToggle, lkEdit, lkSeen, lkTwice, lkDrift>>
  BY LikeAssumption DEF Appears
<1>2. /\ Toggling = {} /\ Likes = {} /\ lkItem.count = 0
  BY <1>1 DEF LikeInv, NothingToLike
<1>3. Likes' = {} /\ Toggling' = {} /\ \A u \in Likers : LikesOf(u)' = {}
  BY <1>1, <1>2, LikeAssumption DEF Likes, Toggling, LikesOf
<1>4. LikeTypeOK' /\ NothingToLike'
  BY <1>1 DEF LikeInv, LikeTypeOK, NothingToLike
<1>5. LikesAreOne' /\ AloneIsRight'
  BY <1>3 DEF LikesAreOne, OneLike, AloneIsRight
<1>6. NumberIsRight'
  BY <1>1, <1>2, <1>3, FS_EmptySet DEF NumberIsRight
<1> QED BY <1>1, <1>4, <1>5, <1>6 DEF LikeInv

\* A toggle reads the item; another that is on its way is alone no more.
LEMMA ReadItemStep ==
    ASSUME LikeInv, NEW t \in Togglers, NEW u \in Likers, ReadItem(t, u)
    PROVE  LikeInv'
<1>t. LikeTypeOK /\ NothingToLike /\ LikesAreOne /\ AloneIsRight /\ NumberIsRight
      /\ lkItem.views = lkSeen
  BY DEF LikeInv
<1> DEFINE new == [user |-> u, at |-> "begun", read |-> lkItem.count, found |-> NULL,
                   likes |-> 0, alone |-> Toggling = {}]
<1>1. /\ lkKind # NULL /\ lkToggle[t] = NULL
      /\ lkToggle' = [s \in Togglers |->
            IF s = t THEN new
            ELSE IF s \in Toggling THEN [lkToggle[s] EXCEPT !.alone = FALSE] ELSE NULL]
      /\ lkTwice' = IF \E s \in Toggling : lkToggle[s].user = u
                    THEN lkTwice \cup {u} ELSE lkTwice
      /\ UNCHANGED <<lkKind, lkItem, lkRows, lkEdit, lkSeen, lkDrift>>
  BY DEF ReadItem
<1>2. lkItem.count \in Nat
  BY <1>t DEF LikeTypeOK, Item
<1>3. /\ new \in Toggle /\ new.user = u /\ new.at = "begun" /\ new.read = lkItem.count
      /\ new.alone = (Toggling = {})
  BY <1>2 DEF Toggle
<1>4. new # NULL
  BY <1>3, LikeAssumption
<1> HIDE DEF new
<1>5. ASSUME NEW s \in Toggling
      PROVE  /\ s \in Togglers /\ s # t /\ lkToggle'[s] \in Toggle /\ ~lkToggle'[s].alone
             /\ lkToggle'[s].user = lkToggle[s].user /\ lkToggle'[s].at = lkToggle[s].at
             /\ lkToggle'[s].found = lkToggle[s].found
  <2>1. s \in Togglers /\ s # t
    BY <1>1 DEF Toggling
  <2>2. lkToggle[s] \in Toggle /\ lkToggle'[s] = [lkToggle[s] EXCEPT !.alone = FALSE]
    BY <1>1, <1>t, <2>1 DEF Toggling, LikeTypeOK
  <2> QED BY <2>1, <2>2 DEF Toggle
<1>6. Toggling' = Toggling \cup {t} /\ lkToggle'[t] = new /\ t \notin Toggling
  <2>1. \A s \in Togglers \ {t} : s \notin Toggling => lkToggle'[s] = NULL
    BY <1>1
  <2>2. \A s \in Toggling : lkToggle'[s] # NULL
    BY <1>5, LikeAssumption
  <2>3. lkToggle'[t] = new
    BY <1>1
  <2> QED BY <1>1, <1>4, <2>1, <2>2, <2>3 DEF Toggling
<1>7. Likes' = Likes /\ \A v : LikesOf(v)' = LikesOf(v)
  BY <1>1 DEF Likes, LikesOf
<1>8. LikeTypeOK'
  <2>1. lkToggle' \in [Togglers -> Toggle \cup {NULL}]
    BY <1>1, <1>3, <1>5
  <2> QED BY <1>1, <1>t, <2>1 DEF LikeTypeOK
<1>9. NothingToLike'
  BY <1>1 DEF NothingToLike
<1>10. LikesAreOne'
  <2> SUFFICES ASSUME NEW v \in Likers, ~(lkKind = "video" /\ v \in lkTwice') PROVE OneLike(v)'
    BY <1>1 DEF LikesAreOne
  <2>1. OneLike(v) /\ lkTwice \subseteq lkTwice'
    BY <1>1, <1>t DEF LikesAreOne
  <2>2. ASSUME v \notin lkTwice', NEW s \in Toggling', NEW r \in Toggling',
               lkToggle'[s].user = v, lkToggle'[r].user = v
        PROVE  s = r
    <3>1. u = v => \A q \in Toggling : lkToggle[q].user # v
      BY <1>1, <2>2
    <3> QED BY <1>3, <1>5, <1>6, <2>1, <2>2, <3>1 DEF OneLike
  <2>3. ASSUME v \notin lkTwice', NEW s \in Toggling', lkToggle'[s].user = v,
               lkToggle'[s].at = "found", lkToggle'[s].found = NULL
        PROVE  LikesOf(v) = {}
    BY <1>3, <1>5, <1>6, <2>1, <2>3 DEF OneLike
  <2> QED BY <1>7, <2>1, <2>2, <2>3 DEF OneLike
<1>11. AloneIsRight'
  <2> SUFFICES ASSUME NEW s \in Toggling', lkToggle'[s].alone
               PROVE  /\ Toggling' = {s} /\ lkToggle'[s].read = lkItem.count
                      /\ lkToggle'[s].at # "counted"
    BY <1>1 DEF AloneIsRight
  <2>1. s = t
    BY <1>5, <1>6
  <2> QED BY <1>3, <1>6, <2>1
<1>12. NumberIsRight'
  <2>1. Changed' = Changed
    <3>1. \A s \in Toggling' : s \in Changed' <=> s \in Changed
      BY <1>3, <1>5, <1>6 DEF Changed
    <3> QED BY <1>6, <3>1 DEF Changed
  <2> QED BY <1>1, <1>7, <1>t, <2>1 DEF NumberIsRight
<1> QED BY <1>1, <1>8, <1>9, <1>10, <1>11, <1>12, <1>t DEF LikeInv

\* A toggle goes on; others do not.
LEMMA OneToggles ==
    ASSUME LikeTypeOK, NEW t \in Toggling, NEW new, lkToggle' = [lkToggle EXCEPT ![t] = new]
    PROVE  /\ lkToggle'[t] = new /\ t \in Togglers /\ lkToggle[t] \in Toggle
           /\ \A s \in Toggling \ {t} : lkToggle'[s] = lkToggle[s]
           /\ Toggling' = IF new = NULL THEN Toggling \ {t} ELSE Toggling
           /\ new \in Toggle \cup {NULL} => lkToggle' \in [Togglers -> Toggle \cup {NULL}]
<1>1. t \in Togglers /\ lkToggle[t] \in Toggle
  BY DEF Toggling, LikeTypeOK
<1>2. lkToggle'[t] = new /\ \A s \in Togglers \ {t} : lkToggle'[s] = lkToggle[s]
  BY <1>1 DEF LikeTypeOK
<1>3. Toggling' = IF new = NULL THEN Toggling \ {t} ELSE Toggling
  BY <1>1, <1>2 DEF Toggling
<1>4. new \in Toggle \cup {NULL} => lkToggle' \in [Togglers -> Toggle \cup {NULL}]
  BY <1>1 DEF LikeTypeOK
<1>5. \A s \in Toggling : s \in Togglers
  BY DEF Toggling
<1> QED BY <1>1, <1>2, <1>3, <1>4, <1>5

\* A toggle looks for the like of its user.
LEMMA FindLikeStep ==
    ASSUME LikeInv, NEW t \in Togglers, FindLike(t)
    PROVE  LikeInv'
<1>t. LikeTypeOK /\ NothingToLike /\ LikesAreOne /\ AloneIsRight /\ NumberIsRight
      /\ lkItem.views = lkSeen
  BY DEF LikeInv
<1>1. /\ t \in Toggling /\ lkToggle[t].at = "begun"
      /\ UNCHANGED <<lkKind, lkItem, lkRows, lkEdit, lkSeen, lkTwice, lkDrift>>
  BY DEF FindLike
<1> DEFINE mine == LikesOf(lkToggle[t].user)
<1>2. PICK n \in IF mine = {} THEN {NULL} ELSE mine :
        lkToggle' = [To(t, "found") EXCEPT ![t].found = n]
  BY DEF FindLike
<1> DEFINE new == [lkToggle[t] EXCEPT !.at = "found", !.found = n]
<1>3. lkToggle[t] \in Toggle
  BY <1>1, <1>t DEF Toggling, LikeTypeOK
<1>4. lkToggle' = [lkToggle EXCEPT ![t] = new]
  BY <1>2, <1>3, <1>t DEF To, LikeTypeOK
<1>5. n \in LikeRows \cup {NULL} /\ (n = NULL => mine = {})
  BY <1>2, LikeAssumption DEF LikesOf
<1>6. /\ new \in Toggle /\ new.user = lkToggle[t].user /\ new.at = "found" /\ new.found = n
      /\ new.read = lkToggle[t].read /\ new.alone = lkToggle[t].alone
  BY <1>3, <1>5 DEF Toggle
<1> HIDE DEF new, mine
<1>7. /\ new # NULL /\ lkToggle'[t] = new /\ Toggling' = Toggling
      /\ \A s \in Toggling \ {t} : lkToggle'[s] = lkToggle[s]
      /\ lkToggle' \in [Togglers -> Toggle \cup {NULL}]
  BY <1>1, <1>4, <1>6, <1>t, OneToggles, LikeAssumption
<1>8. Likes' = Likes /\ \A v : LikesOf(v)' = LikesOf(v)
  BY <1>1 DEF Likes, LikesOf
<1>9. LikeTypeOK' /\ NothingToLike'
  BY <1>1, <1>7, <1>8, <1>t DEF LikeTypeOK, NothingToLike
<1>10. LikesAreOne'
  <2> SUFFICES ASSUME NEW v \in Likers, ~(lkKind = "video" /\ v \in lkTwice) PROVE OneLike(v)'
    BY <1>1 DEF LikesAreOne
  <2>1. OneLike(v)
    BY <1>t DEF LikesAreOne
  <2>2. \A s \in Toggling : lkToggle'[s].user = lkToggle[s].user
    BY <1>6, <1>7
  <2>3. ASSUME v \notin lkTwice, NEW s \in Toggling, lkToggle'[s].user = v,
               lkToggle'[s].at = "found", lkToggle'[s].found = NULL
        PROVE  LikesOf(v) = {}
    <3>1. CASE s = t
      BY <1>5, <1>6, <1>7, <2>3, <3>1 DEF mine
    <3>2. CASE s # t
      BY <1>7, <2>1, <2>3, <3>2 DEF OneLike
    <3> QED BY <3>1, <3>2
  <2> QED BY <1>1, <1>7, <1>8, <2>1, <2>2, <2>3 DEF OneLike
<1>11. AloneIsRight'
  BY <1>1, <1>6, <1>7, <1>8, <1>t DEF AloneIsRight
<1>12. NumberIsRight'
  <2>1. Changed' = Changed
    BY <1>1, <1>6, <1>7 DEF Changed
  <2> QED BY <1>1, <1>8, <1>t, <2>1 DEF NumberIsRight
<1> QED BY <1>1, <1>9, <1>10, <1>11, <1>12, <1>t DEF LikeInv

\* A toggle made its like, or took it back.
LEMMA LikeIsChanged ==
    ASSUME LikeInv, NEW t \in Toggling, NEW new \in Toggle, NEW u \in Likers,
           u = lkToggle[t].user, lkToggle[t].at = "found", new.user = u, new.at = "changed",
           new.read = lkToggle[t].read, new.alone = lkToggle[t].alone,
           lkToggle' = [lkToggle EXCEPT ![t] = new],
           lkRows' \in [LikeRows -> Likers \cup {NULL}],
           \A v \in Likers \ {u} : LikesOf(v)' = LikesOf(v),
           \/ LikesOf(u)' \subseteq LikesOf(u)
           \/ /\ lkToggle[t].found = NULL /\ (lkKind = "video" \/ LikesOf(u) = {})
              /\ \E n : LikesOf(u)' = LikesOf(u) \cup {n},
           UNCHANGED <<lkKind, lkItem, lkEdit, lkSeen, lkTwice, lkDrift>>
    PROVE  LikeInv'
<1>t. LikeTypeOK /\ NothingToLike /\ LikesAreOne /\ AloneIsRight /\ NumberIsRight
      /\ lkItem.views = lkSeen
  BY DEF LikeInv
<1>1. /\ new # NULL /\ lkToggle'[t] = new /\ Toggling' = Toggling
      /\ \A s \in Toggling \ {t} : lkToggle'[s] = lkToggle[s]
      /\ lkToggle' \in [Togglers -> Toggle \cup {NULL}]
  BY <1>t, OneToggles, LikeAssumption
<1>2. LikeTypeOK' /\ NothingToLike'
  BY <1>1, <1>t DEF LikeTypeOK, NothingToLike
<1>3. LikesAreOne'
  <2> SUFFICES ASSUME NEW v \in Likers, ~(lkKind = "video" /\ v \in lkTwice) PROVE OneLike(v)'
    BY DEF LikesAreOne
  <2>1. OneLike(v)
    BY <1>t DEF LikesAreOne
  <2>2. \A s \in Toggling : lkToggle'[s].user = lkToggle[s].user
    BY <1>1
  <2>3. \A m \in LikesOf(v)' : \A n \in LikesOf(v)' : m = n
    <3>1. CASE v # u
      BY <2>1, <3>1 DEF OneLike
    <3>2. CASE v = u /\ LikesOf(u)' \subseteq LikesOf(u)
      BY <2>1, <3>2 DEF OneLike
    <3>3. CASE v = u /\ ~(LikesOf(u)' \subseteq LikesOf(u))
      <4>1. LikesOf(u) = {}
        BY <2>1, <3>3 DEF OneLike
      <4> QED BY <3>3, <4>1
    <3> QED BY <3>1, <3>2, <3>3
  <2>4. ASSUME v \notin lkTwice, NEW s \in Toggling, lkToggle'[s].user = v,
               lkToggle'[s].at = "found", lkToggle'[s].found = NULL
        PROVE  LikesOf(v)' = {}
    <3>1. s # t
      BY <1>1, <2>4
    <3>2. v # u
      BY <1>1, <2>1, <2>2, <2>4, <3>1 DEF OneLike
    <3> QED BY <1>1, <2>1, <2>4, <3>1, <3>2 DEF OneLike
  <2> QED BY <1>1, <2>1, <2>2, <2>3, <2>4 DEF OneLike
<1>4. AloneIsRight'
  <2> SUFFICES ASSUME NEW s \in Toggling, lkToggle'[s].alone
               PROVE  /\ Toggling = {s} /\ lkToggle'[s].read = lkItem.count
                      /\ lkToggle'[s].at # "counted"
    BY <1>1 DEF AloneIsRight
  <2>1. lkToggle[s].alone /\ lkToggle'[s].read = lkToggle[s].read
    BY <1>1
  <2>2. Toggling = {s} /\ lkToggle[s].read = lkItem.count
    BY <1>t, <2>1 DEF AloneIsRight
  <2> QED BY <1>1, <2>1, <2>2
<1>5. NumberIsRight'
  <2>1. t \in Changed'
    BY <1>1 DEF Changed
  <2> QED BY <2>1 DEF NumberIsRight
<1> QED BY <1>2, <1>3, <1>4, <1>5, <1>t DEF LikeInv

\* A toggle ends.
LEMMA ToggleEnds ==
    ASSUME LikeInv, NEW t \in Toggling, lkToggle' = [lkToggle EXCEPT ![t] = NULL],
           lkDrift' \in BOOLEAN, lkItem' \in Item, lkItem'.views = lkItem.views,
           UNCHANGED <<lkKind, lkRows, lkEdit, lkSeen, lkTwice>>,
           ~lkDrift' /\ lkKind # "replay" /\ Changed \ {t} = {} =>
             lkItem'.count = Cardinality(Likes)
    PROVE  LikeInv'
<1>t. LikeTypeOK /\ NothingToLike /\ LikesAreOne /\ AloneIsRight /\ lkItem.views = lkSeen
  BY DEF LikeInv
<1>1. /\ lkToggle'[t] = NULL /\ Toggling' = Toggling \ {t}
      /\ \A s \in Toggling \ {t} : lkToggle'[s] = lkToggle[s]
      /\ lkToggle' \in [Togglers -> Toggle \cup {NULL}]
  BY <1>t, OneToggles
<1>2. Likes' = Likes /\ \A v : LikesOf(v)' = LikesOf(v)
  BY DEF Likes, LikesOf
<1>3. lkKind # NULL
  BY <1>t DEF NothingToLike
<1>4. LikeTypeOK' /\ NothingToLike'
  BY <1>1, <1>3, <1>t DEF LikeTypeOK, NothingToLike
<1>5. LikesAreOne'
  BY <1>1, <1>2, <1>t DEF LikesAreOne, OneLike
<1>6. AloneIsRight'
  <2> SUFFICES ASSUME NEW s \in Toggling \ {t}, lkToggle[s].alone PROVE FALSE
    BY <1>1 DEF AloneIsRight
  <2> QED BY <1>t DEF AloneIsRight
<1>7. NumberIsRight'
  <2>1. Changed' = Changed \ {t}
    BY <1>1 DEF Changed
  <2> QED BY <1>2, <2>1 DEF NumberIsRight
<1> QED BY <1>4, <1>5, <1>6, <1>7, <1>t DEF LikeInv

\* A toggle makes a like or takes one back.
LEMMA ChangeLikeStep ==
    ASSUME LikeInv, NEW t \in Togglers, ChangeLike(t)
    PROVE  LikeInv'
<1>t. LikeTypeOK /\ NumberIsRight
  BY DEF LikeInv
<1>1. /\ t \in Toggling /\ lkToggle[t].at = "found"
      /\ UNCHANGED <<lkKind, lkItem, lkEdit, lkSeen, lkTwice, lkDrift>>
  BY DEF ChangeLike
<1>2. lkToggle[t] \in Toggle
  BY <1>1, <1>t DEF Toggling, LikeTypeOK
<1>3. PICK u \in Likers : u = lkToggle[t].user
  BY <1>2 DEF Toggle
<1>4. u # NULL
  BY LikeAssumption
<1> DEFINE f == lkToggle[t].found
<1>5. \/ /\ f # NULL
         /\ lkRows' = [lkRows EXCEPT ![f] = IF @ = u THEN NULL ELSE @]
         /\ lkToggle' = [To(t, "changed") EXCEPT ![t].found = NULL]
      \/ /\ f = NULL
         /\ lkKind = "video" \/ LikesOf(u) = {}
         /\ \E n \in NewRow : lkRows' = [lkRows EXCEPT ![n] = u]
         /\ lkToggle' = To(t, "changed")
      \/ /\ lkToggle' = [lkToggle EXCEPT ![t] = NULL]
         /\ UNCHANGED lkRows
  BY <1>3 DEF ChangeLike
<1>6. f = NULL \/ f \in LikeRows
  BY <1>2 DEF Toggle
<1>7. ASSUME f # NULL, lkRows' = [lkRows EXCEPT ![f] = IF @ = u THEN NULL ELSE @],
             lkToggle' = [To(t, "changed") EXCEPT ![t].found = NULL]
      PROVE  LikeInv'
  <2> DEFINE new == [lkToggle[t] EXCEPT !.at = "changed", !.found = NULL]
  <2>1. /\ new \in Toggle /\ new.user = u /\ new.at = "changed" /\ new.read = lkToggle[t].read
        /\ new.alone = lkToggle[t].alone
    BY <1>2, <1>3 DEF Toggle
  <2>2. lkToggle' = [lkToggle EXCEPT ![t] = new]
    BY <1>2, <1>7, <1>t DEF To, LikeTypeOK
  <2>3. /\ lkRows' \in [LikeRows -> Likers \cup {NULL}]
        /\ lkRows'[f] = IF lkRows[f] = u THEN NULL ELSE lkRows[f]
        /\ \A n \in LikeRows \ {f} : lkRows'[n] = lkRows[n]
    BY <1>6, <1>7, <1>t DEF LikeTypeOK
  <2>4. /\ LikesOf(u)' \subseteq LikesOf(u)
        /\ \A v \in Likers \ {u} : LikesOf(v)' = LikesOf(v)
    BY <1>4, <2>3, LikeAssumption DEF LikesOf
  <2> HIDE DEF new
  <2> QED BY <1>1, <1>3, <2>1, <2>2, <2>3, <2>4, LikeIsChanged
<1>8. ASSUME f = NULL, lkKind = "video" \/ LikesOf(u) = {},
             NEW n \in NewRow, lkRows' = [lkRows EXCEPT ![n] = u],
             lkToggle' = To(t, "changed")
      PROVE  LikeInv'
  <2> DEFINE new == [lkToggle[t] EXCEPT !.at = "changed"]
  <2>1. /\ new \in Toggle /\ new.user = u /\ new.at = "changed" /\ new.read = lkToggle[t].read
        /\ new.alone = lkToggle[t].alone
    BY <1>2, <1>3 DEF Toggle
  <2>2. lkToggle' = [lkToggle EXCEPT ![t] = new]
    BY <1>2, <1>8, <1>t DEF To, LikeTypeOK
  <2>3. n \in LikeRows /\ lkRows[n] = NULL
    BY <1>8 DEF NewRow, Likes
  <2>4. /\ lkRows' \in [LikeRows -> Likers \cup {NULL}] /\ lkRows'[n] = u
        /\ \A m \in LikeRows \ {n} : lkRows'[m] = lkRows[m]
    BY <1>8, <1>t, <2>3 DEF LikeTypeOK
  <2>5. /\ LikesOf(u)' = LikesOf(u) \cup {n}
        /\ \A v \in Likers \ {u} : LikesOf(v)' = LikesOf(v)
    BY <2>3, <2>4, LikeAssumption DEF LikesOf
  <2> HIDE DEF new
  <2>6. /\ lkToggle[t].found = NULL /\ (lkKind = "video" \/ LikesOf(u) = {})
        /\ \E m : LikesOf(u)' = LikesOf(u) \cup {m}
    BY <1>8, <2>5
  <2> QED BY <1>1, <1>3, <2>1, <2>2, <2>4, <2>5, <2>6, LikeIsChanged
<1>9. ASSUME lkToggle' = [lkToggle EXCEPT ![t] = NULL], UNCHANGED lkRows
      PROVE  LikeInv'
  <2>1. Changed \ {t} = Changed
    BY <1>1 DEF Changed
  <2>2. lkItem' \in Item /\ lkDrift' \in BOOLEAN
    BY <1>1, <1>t DEF LikeTypeOK
  <2>3. ~lkDrift' /\ lkKind # "replay" /\ Changed \ {t} = {} => lkItem'.count = Cardinality(Likes)
    BY <1>1, <1>t, <2>1 DEF NumberIsRight
  <2> QED BY <1>1, <1>9, <2>2, <2>3, ToggleEnds
<1> QED BY <1>5, <1>7, <1>8, <1>9

\* A toggle counts the likes.
LEMMA CountLikesStep ==
    ASSUME LikeInv, NEW t \in Togglers, CountLikes(t)
    PROVE  LikeInv'
<1>t. LikeTypeOK /\ NothingToLike /\ LikesAreOne /\ AloneIsRight /\ NumberIsRight
      /\ lkItem.views = lkSeen
  BY DEF LikeInv
<1> DEFINE new == [lkToggle[t] EXCEPT !.at = "counted", !.likes = Cardinality(Likes)]
<1>1. /\ t \in Toggling /\ lkToggle[t].at = "changed"
      /\ lkToggle' = [To(t, "counted") EXCEPT ![t].likes = Cardinality(Likes)]
      /\ UNCHANGED <<lkKind, lkItem, lkRows, lkEdit, lkSeen, lkTwice, lkDrift>>
  BY DEF CountLikes, Counted
<1>2. lkToggle[t] \in Toggle
  BY <1>1, <1>t DEF Toggling, LikeTypeOK
<1>3. lkToggle' = [lkToggle EXCEPT ![t] = new]
  BY <1>1, <1>2, <1>t DEF To, LikeTypeOK
<1>4. Cardinality(Likes) \in Nat
  BY LikesAreFinite
<1>5. /\ new \in Toggle /\ new.user = lkToggle[t].user /\ new.at = "counted"
      /\ new.read = lkToggle[t].read /\ new.alone = lkToggle[t].alone
      /\ new.likes = Cardinality(Likes)
  BY <1>2, <1>4 DEF Toggle
<1> HIDE DEF new
<1>6. /\ new # NULL /\ lkToggle'[t] = new /\ Toggling' = Toggling
      /\ \A s \in Toggling \ {t} : lkToggle'[s] = lkToggle[s]
      /\ lkToggle' \in [Togglers -> Toggle \cup {NULL}]
  BY <1>1, <1>3, <1>5, <1>t, OneToggles, LikeAssumption
<1>7. Likes' = Likes /\ \A v : LikesOf(v)' = LikesOf(v)
  BY <1>1 DEF Likes, LikesOf
<1>8. LikeTypeOK' /\ NothingToLike'
  BY <1>1, <1>6, <1>7, <1>t DEF LikeTypeOK, NothingToLike
<1>9. LikesAreOne'
  <2> SUFFICES ASSUME NEW v \in Likers, ~(lkKind = "video" /\ v \in lkTwice) PROVE OneLike(v)'
    BY <1>1 DEF LikesAreOne
  <2>1. OneLike(v)
    BY <1>t DEF LikesAreOne
  <2>2. \A s \in Toggling : lkToggle'[s].user = lkToggle[s].user
    BY <1>5, <1>6
  <2>3. \A s \in Toggling : lkToggle'[s].at = "found" => lkToggle'[s] = lkToggle[s]
    BY <1>5, <1>6
  <2>4. ASSUME v \notin lkTwice, NEW s \in Toggling, lkToggle'[s].user = v,
               lkToggle'[s].at = "found", lkToggle'[s].found = NULL
        PROVE  LikesOf(v) = {}
    BY <2>1, <2>2, <2>3, <2>4 DEF OneLike
  <2> QED BY <1>1, <1>6, <1>7, <2>1, <2>2, <2>4 DEF OneLike
<1>10. AloneIsRight'
  <2> SUFFICES ASSUME NEW s \in Toggling, lkToggle'[s].alone
               PROVE  /\ Toggling = {s} /\ lkToggle'[s].read = lkItem.count
                      /\ lkToggle'[s].at = "counted" => lkToggle'[s].likes = Cardinality(Likes)
    BY <1>1, <1>6, <1>7 DEF AloneIsRight
  <2> QED BY <1>5, <1>6, <1>t DEF AloneIsRight
<1>11. NumberIsRight'
  <2>1. t \in Changed'
    BY <1>1, <1>5, <1>6 DEF Changed
  <2> QED BY <2>1 DEF NumberIsRight
<1> QED BY <1>1, <1>8, <1>9, <1>10, <1>11, <1>t DEF LikeInv

\* A toggle saves the number: if it was alone, the right one.
LEMMA SaveCountStep ==
    ASSUME LikeInv, NEW t \in Togglers, SaveCount(t)
    PROVE  LikeInv'
<1>t. LikeTypeOK /\ AloneIsRight /\ NumberIsRight
  BY DEF LikeInv
<1> DEFINE it == lkToggle[t]
<1>1. /\ t \in Toggling /\ it.at = "counted"
      /\ lkItem' = IF lkKind = "replay" \/ it.likes = it.read THEN lkItem
                   ELSE [lkItem EXCEPT !.count = it.likes]
      /\ lkDrift' = ~it.alone
      /\ lkToggle' = [lkToggle EXCEPT ![t] = NULL]
      /\ UNCHANGED <<lkKind, lkRows, lkEdit, lkSeen, lkTwice>>
  BY DEF SaveCount
<1>2. it \in Toggle
  BY <1>1, <1>t DEF Toggling, LikeTypeOK
<1>3. it.likes \in Nat /\ it.alone \in BOOLEAN /\ lkItem \in Item
  BY <1>2, <1>t DEF Toggle, LikeTypeOK
<1> HIDE DEF it
<1>4. lkItem' \in Item /\ lkItem'.views = lkItem.views /\ lkDrift' \in BOOLEAN
  BY <1>1, <1>3 DEF Item
<1>5. ASSUME ~lkDrift', lkKind # "replay" PROVE lkItem'.count = Cardinality(Likes)
  <2>1. it.read = lkItem.count /\ it.likes = Cardinality(Likes)
    BY <1>1, <1>5, <1>t DEF AloneIsRight, it
  <2> QED BY <1>1, <1>3, <1>5, <2>1 DEF Item
<1> QED BY <1>1, <1>4, <1>5, ToggleEnds

\* A toggle breaks off.
LEMMA ToggleBreaksOffStep ==
    ASSUME LikeInv, NEW t \in Togglers, ToggleBreaksOff(t)
    PROVE  LikeInv'
<1>t. LikeTypeOK /\ NumberIsRight
  BY DEF LikeInv
<1>1. /\ t \in Toggling
      /\ lkDrift' = (lkDrift \/ lkToggle[t].at \in {"changed", "counted"})
      /\ lkToggle' = [lkToggle EXCEPT ![t] = NULL]
      /\ UNCHANGED <<lkKind, lkItem, lkRows, lkEdit, lkSeen, lkTwice>>
  BY DEF ToggleBreaksOff
<1>2. lkDrift' \in BOOLEAN /\ lkItem' \in Item
  BY <1>1, <1>t DEF LikeTypeOK
<1>3. ~lkDrift' => ~lkDrift /\ Changed \ {t} = Changed
  BY <1>1, <1>t DEF Changed, LikeTypeOK
<1>4. ~lkDrift' /\ lkKind # "replay" /\ Changed \ {t} = {} => lkItem'.count = Cardinality(Likes)
  BY <1>1, <1>3, <1>t DEF NumberIsRight
<1> QED BY <1>1, <1>2, <1>4, ToggleEnds

\* Every step of LikeNext keeps LikeInv.
LEMMA LikeStep == LikeInv /\ [LikeNext]_likeVars => LikeInv'
<1> SUFFICES ASSUME LikeInv, [LikeNext]_likeVars PROVE LikeInv'
  OBVIOUS
<1>t. LikeTypeOK /\ lkItem.views = lkSeen /\ NothingToLike
  BY DEF LikeInv
<1>0. lkItem \in Item /\ lkSeen \in 0..MaxViews /\ MaxViews \in Nat /\ lkEdit \in Item \cup {NULL}
  BY <1>t, AudienceAssumption DEF LikeTypeOK
<1>1. CASE View
  <2>1. /\ lkKind \in {"video", "replay"} /\ lkSeen < MaxViews /\ lkSeen' = lkSeen + 1
        /\ lkItem' = [lkItem EXCEPT !.views = @ + 1]
        /\ UNCHANGED <<lkKind, lkRows, lkToggle, lkEdit, lkTwice, lkDrift>>
    BY <1>1 DEF View
  <2>2. lkItem' \in Item /\ lkItem'.count = lkItem.count /\ lkItem'.views = lkItem.views + 1
    BY <1>0, <2>1 DEF Item
  <2>3. lkSeen' \in 0..MaxViews /\ lkKind # NULL
    BY <1>0, <2>1, LikeAssumption
  <2> QED BY <1>0, <1>t, <2>1, <2>2, <2>3, LikesStay
<1>2. CASE AuthorReads
  <2>1. /\ lkEdit' = lkItem /\ lkKind # NULL
        /\ UNCHANGED <<lkKind, lkItem, lkRows, lkToggle, lkSeen, lkTwice, lkDrift>>
    BY <1>2, LikeAssumption DEF AuthorReads
  <2> QED BY <1>0, <1>t, <2>1, LikesStay
<1>3. CASE AuthorSaves
  <2>1. /\ lkEdit' = NULL /\ lkItem' = lkItem
        /\ UNCHANGED <<lkKind, lkRows, lkToggle, lkSeen, lkTwice, lkDrift>>
    BY <1>3 DEF AuthorSaves, SavedItem
  <2> QED BY <1>0, <1>t, <2>1, LikesStay
<1>4. CASE UNCHANGED likeVars
  <2>1. UNCHANGED <<lkKind, lkItem, lkRows, lkToggle, lkEdit, lkSeen, lkTwice, lkDrift>>
    BY <1>4 DEF likeVars
  <2> QED BY <1>0, <1>t, <2>1, LikesStay DEF NothingToLike
<1> QED BY <1>1, <1>2, <1>3, <1>4, AppearsStep, ReadItemStep, FindLikeStep, ChangeLikeStep,
        CountLikesStep, SaveCountStep, ToggleBreaksOffStep
        DEF LikeNext, WriteComment, PublishVideo, PublishReplay

-----------------------------------------------------------------------------
(* Likes of lives.                                                         *)

\* The numbers there are, as a function to add up.
Numbers == [n \in 1..2 |-> n]
HeartNumbers == {n \in 1..2 : htRows[n] # NULL}

\* SumSet is the sum of the numbers themselves.
LEMMA SumOfNumbers == ASSUME NEW S \in SUBSET (1..2) PROVE SumSet(S) = SumOn(Numbers, S)
<1> DEFINE Is(g) == g = [s \in SUBSET S |-> IF s = {} THEN 0 ELSE Pick(s) + g[s \ {Pick(s)}]]
<1>1. SumSet(S) = (CHOOSE g : Is(g))[S]
  BY DEF SumSet, FoldSet, MapThenFoldSet, Pick
<1>2. IsFiniteSet(S)
  <2>1. IsFiniteSet(1..2)
    <3>1. 1 \in Int /\ 2 \in Int
      OBVIOUS
    <3> QED BY <3>1, FS_Interval
  <2> QED BY <2>1, FS_Subset
<1>3. ASSUME NEW s \in SUBSET S, s # {} PROVE Numbers[Pick(s)] = Pick(s)
  <2>1. Pick(s) \in s
    BY <1>3, Picked
  <2> QED BY <2>1 DEF Numbers
<1>4. ASSUME NEW g PROVE Is(g) <=> AddsUp(Numbers, S, g)
  <2>1. \A s \in SUBSET S :
          (IF s = {} THEN 0 ELSE Pick(s) + g[s \ {Pick(s)}]) = Adds(Numbers, g, s)
    BY <1>3 DEF Adds
  <2>2. [s \in SUBSET S |-> IF s = {} THEN 0 ELSE Pick(s) + g[s \ {Pick(s)}]]
          = [s \in SUBSET S |-> Adds(Numbers, g, s)]
    BY <2>1
  <2> QED BY <2>2 DEF AddsUp
<1>5. PICK h : AddsUp(Numbers, S, h)
  BY <1>2, SumsExist
<1>6. Is(CHOOSE g : Is(g))
  <2>1. Is(h)
    BY <1>4, <1>5
  <2> HIDE DEF Is
  <2> QED BY <2>1
<1>7. PICK k : k = (CHOOSE g : Is(g))
  OBVIOUS
<1>8. AddsUp(Numbers, S, k)
  BY <1>4, <1>6, <1>7
<1> HIDE DEF Is
<1>9. SumOn(Numbers, S) = k[S]
  BY <1>2, <1>8, SumIs
<1> QED BY <1>1, <1>7, <1>9

\* The sums of the sets of 1 and 2.
LEMMA TwoNumbers ==
    /\ SumSet({}) = 0 /\ SumSet({1}) = 1 /\ SumSet({2}) = 2 /\ SumSet({1, 2}) = 3
<1>0. \A S \in SUBSET (1..2) : IsFiniteSet(S) /\ \A x \in S : Numbers[x] \in Int /\ Numbers[x] = x
  <2>1. IsFiniteSet(1..2)
    <3>1. 1 \in Int /\ 2 \in Int
      OBVIOUS
    <3> QED BY <3>1, FS_Interval
  <2>2. \A S \in SUBSET (1..2) : IsFiniteSet(S)
    BY <2>1, FS_Subset
  <2> QED BY <2>2 DEF Numbers
<1>1. /\ {} \in SUBSET (1..2) /\ {1} \in SUBSET (1..2) /\ {2} \in SUBSET (1..2)
      /\ {1, 2} \in SUBSET (1..2)
  OBVIOUS
<1>2. SumOn(Numbers, {}) = 0
  BY <1>0, <1>1, SumSteps
<1>3. SumOn(Numbers, {1}) = 1
  <2>1. SumOn(Numbers, {1}) = Numbers[1] + SumOn(Numbers, {1} \ {1})
    BY <1>0, <1>1, SumSteps
  <2>2. {1} \ {1} = {}
    OBVIOUS
  <2> QED BY <1>0, <1>1, <1>2, <2>1, <2>2
<1>4. SumOn(Numbers, {2}) = 2
  <2>1. SumOn(Numbers, {2}) = Numbers[2] + SumOn(Numbers, {2} \ {2})
    BY <1>0, <1>1, SumSteps
  <2>2. {2} \ {2} = {}
    OBVIOUS
  <2> QED BY <1>0, <1>1, <1>2, <2>1, <2>2
<1>5. SumOn(Numbers, {1, 2}) = 3
  <2>1. SumOn(Numbers, {1, 2}) = Numbers[1] + SumOn(Numbers, {1, 2} \ {1})
    BY <1>0, <1>1, SumSteps
  <2>2. {1, 2} \ {1} = {2}
    OBVIOUS
  <2> QED BY <1>0, <1>1, <1>4, <2>1, <2>2
<1> QED BY <1>1, <1>2, <1>3, <1>4, <1>5, SumOfNumbers

HeartInv == HeartTypeOK /\ SumSet(HeartNumbers) = SumOn(htGiven, Rooms)

\* The invariant says the property.
LEMMA HeartSafe == HeartInv => HeartsAddUp
BY Zenon DEF HeartInv, HeartNumbers, HeartsAddUp, SumOn

\* The initial states satisfy HeartInv.
LEMMA HeartInitial == HeartInit => HeartInv
<1> SUFFICES ASSUME HeartInit PROVE HeartInv
  OBVIOUS
<1>1. HeartTypeOK
  BY AudienceAssumption DEF HeartInit, HeartTypeOK
<1>2. HeartNumbers = {}
  BY DEF HeartInit, HeartNumbers
<1>3. SumOn(htGiven, Rooms) = 0
  BY AudienceAssumption, SumOfNothing DEF HeartInit
<1> QED BY <1>1, <1>2, <1>3, TwoNumbers DEF HeartInv

\* Every step of HeartNext keeps HeartInv.
LEMMA HeartStep == HeartInv /\ [HeartNext]_heartVars => HeartInv'
<1> SUFFICES ASSUME HeartInv, [HeartNext]_heartVars PROVE HeartInv'
  OBVIOUS
<1>t. HeartTypeOK /\ SumSet(HeartNumbers) = SumOn(htGiven, Rooms)
  BY DEF HeartInv
<1>1. ASSUME NEW f \in Fans, NEW l \in Rooms, HeartInserts(f, l) PROVE HeartInv'
  <2>1. /\ htGiven[l] < MaxHearts /\ htRows' = Counting(l) /\ htTold' = htTold
        /\ htRows[1] = NULL \/ htRows[2] = NULL
        /\ htCall' = [htCall EXCEPT ![f] = [room |-> l, likes |-> NULL]]
        /\ htGiven' = [htGiven EXCEPT ![l] = @ + 1]
    BY <1>1 DEF HeartInserts
  <2>2. htGiven[l] \in 0..MaxHearts /\ MaxHearts \in Nat
    BY <1>t, AudienceAssumption DEF HeartTypeOK
  <2>3. htGiven[l] + 1 \in 0..MaxHearts
    BY <2>1, <2>2
  <2>4. l # NULL
    BY HeartAssumption
  <2>5. HeartTypeOK'
    <3>1. htRows' \in [1..2 -> Rooms \cup {NULL}]
      BY <1>t, <2>1 DEF Counting, HeartTypeOK
    <3>2. htGiven' \in [Rooms -> 0..MaxHearts]
      BY <1>t, <2>1, <2>3 DEF HeartTypeOK
    <3>3. htCall' \in [Fans -> HeartCall \cup {NULL}]
      <4> DEFINE new == [room |-> l, likes |-> NULL]
      <4>1. new \in HeartCall
        BY DEF HeartCall
      <4> HIDE DEF new
      <4> QED BY <1>t, <2>1, <4>1 DEF HeartTypeOK, new
    <3> QED BY <1>t, <2>1, <3>1, <3>2, <3>3 DEF HeartTypeOK
  <2>6. SumSet(HeartNumbers') = SumSet(HeartNumbers) + 1
    <3>1. CASE htRows[1] = NULL /\ htRows[2] = NULL
      <4>1. htRows'[1] = l /\ htRows'[2] = NULL
        BY <1>t, <2>1, <3>1 DEF Counting, HeartTypeOK
      <4>2. HeartNumbers = {} /\ HeartNumbers' = {1}
        BY <2>4, <3>1, <4>1 DEF HeartNumbers
      <4> QED BY <4>2, TwoNumbers
    <3>2. CASE htRows[1] = NULL /\ htRows[2] # NULL
      <4>1. htRows'[1] = l /\ htRows'[2] = htRows[2]
        BY <1>t, <2>1, <3>2 DEF Counting, HeartTypeOK
      <4>2. HeartNumbers = {2} /\ HeartNumbers' = {1, 2}
        BY <2>4, <3>2, <4>1 DEF HeartNumbers
      <4> QED BY <4>2, TwoNumbers
    <3>3. CASE htRows[1] # NULL
      <4>1. htRows'[1] = NULL /\ htRows'[2] = htRows[1] /\ htRows[2] = NULL
        BY <1>t, <2>1, <3>3 DEF Counting, HeartTypeOK
      <4>2. HeartNumbers = {1} /\ HeartNumbers' = {2}
        BY <3>3, <4>1 DEF HeartNumbers
      <4> QED BY <4>2, TwoNumbers
    <3> QED BY <3>1, <3>2, <3>3
  <2>7. SumOn(htGiven', Rooms) = SumOn(htGiven, Rooms) + 1
    <3>1. IsFiniteSet(Rooms) /\ \A x \in Rooms : htGiven[x] \in Int
      BY <1>t, AudienceAssumption DEF HeartTypeOK
    <3>2. /\ htGiven'[l] = htGiven[l] + 1 /\ htGiven'[l] \in Int
          /\ \A x \in Rooms \ {l} : htGiven'[x] = htGiven[x]
      BY <1>t, <2>1, <2>2 DEF HeartTypeOK
    <3>3. SumOn(htGiven', Rooms) = SumOn(htGiven, Rooms) + htGiven'[l] - htGiven[l]
      <4>1. PICK e : e = htGiven'
        OBVIOUS
      <4>2. e[l] \in Int /\ \A x \in Rooms \ {l} : e[x] = htGiven[x]
        BY <3>2, <4>1
      <4>3. SumOn(e, Rooms) = SumOn(htGiven, Rooms) + e[l] - htGiven[l]
        BY <3>1, <4>2, SumChanges
      <4> QED BY <4>1, <4>3
    <3>4. SumOn(htGiven, Rooms) \in Int /\ htGiven[l] \in Int
      BY <3>1, SumSteps
    <3> QED BY <3>2, <3>3, <3>4
  <2> QED BY <1>t, <2>5, <2>6, <2>7 DEF HeartInv
<1>2. ASSUME NEW f \in Fans, HeartReads(f) PROVE HeartInv'
  <2>1. htCall[f] \in HeartCall /\ UNCHANGED <<htRows, htTold, htGiven>>
    BY <1>2, <1>t DEF HeartReads, HeartTypeOK
  <2>2. PICK n \in NumbersOf(htCall[f].room) : htCall' = [htCall EXCEPT ![f].likes = n]
    BY <1>2 DEF HeartReads
  <2>3. n \in 0..2
    BY DEF NumbersOf
  <2>4. [htCall[f] EXCEPT !.likes = n] \in HeartCall
    BY <2>1, <2>3 DEF HeartCall
  <2>5. htCall' \in [Fans -> HeartCall \cup {NULL}]
    BY <1>t, <2>2, <2>4 DEF HeartTypeOK
  <2> QED BY <1>t, <2>1, <2>5 DEF HeartInv, HeartTypeOK, HeartNumbers
<1>3. ASSUME NEW f \in Fans, HeartTells(f) PROVE HeartInv'
  <2>1. /\ htCall[f] \in HeartCall /\ htCall[f].likes # NULL /\ UNCHANGED <<htRows, htGiven>>
        /\ htTold' = [htTold EXCEPT ![htCall[f].room] = htCall[f].likes]
        /\ htCall' = [htCall EXCEPT ![f] = NULL]
    BY <1>3, <1>t DEF HeartTells, HeartTypeOK
  <2>2. htCall[f].room \in Rooms /\ htCall[f].likes \in 0..2
    BY <2>1 DEF HeartCall
  <2>3. htTold' \in [Rooms -> 0..2] /\ htCall' \in [Fans -> HeartCall \cup {NULL}]
    BY <1>t, <2>1, <2>2 DEF HeartTypeOK
  <2> QED BY <1>t, <2>1, <2>3 DEF HeartInv, HeartTypeOK, HeartNumbers
<1>4. CASE UNCHANGED heartVars
  BY <1>4, <1>t DEF heartVars, HeartInv, HeartTypeOK, HeartNumbers
<1> QED BY <1>1, <1>2, <1>3, <1>4 DEF HeartNext

-----------------------------------------------------------------------------
(* The status of a live.                                                   *)

\* Changes that have saved, and have not told the room.
SavedUpdates == {w \in LiveUpdates : lvUpdate[w] # NULL /\ lvUpdate[w].saved}

ToldUnlessSaving == ~lvDrift /\ SavedUpdates = {} => lvTold = lvStatus
NoneBeforeTheStart == lvStatus = NULL => Updating = {}
AloneKnows ==
    \A w \in LiveUpdates :
       lvUpdate[w] # NULL /\ lvUpdate[w].alone =>
          /\ Updating = {w}
          /\ ~lvUpdate[w].saved => lvUpdate[w].read = lvStatus
          /\ lvUpdate[w].saved => lvUpdate[w].to = lvStatus

\* Whoever is alone knows the status: the row is what he read until he has saved,
\* what he saved from then on. Together with him nobody else is at work.
LiveInv == LiveTypeOK /\ ToldUnlessSaving /\ NoneBeforeTheStart /\ AloneKnows

\* The initial states satisfy LiveInv.
LEMMA LiveInitial == LiveInit => LiveInv
<1> SUFFICES ASSUME LiveInit PROVE LiveInv
  OBVIOUS
<1>1. lvStatus = NULL /\ lvTold = NULL /\ lvDrift = FALSE /\ lvUpdate = [w \in LiveUpdates |-> NULL]
  BY DEF LiveInit
<1>2. LiveTypeOK
  BY <1>1 DEF LiveTypeOK
<1>3. ToldUnlessSaving /\ NoneBeforeTheStart /\ AloneKnows
  BY <1>1 DEF ToldUnlessSaving, NoneBeforeTheStart, AloneKnows, Updating
<1> QED BY <1>2, <1>3 DEF LiveInv

\* Every step of LiveNext keeps LiveInv.
LEMMA LiveStep == LiveInv /\ [LiveNext]_liveVars => LiveInv'
<1> SUFFICES ASSUME LiveInv, [LiveNext]_liveVars PROVE LiveInv'
  OBVIOUS
<1>t. LiveTypeOK /\ ToldUnlessSaving /\ NoneBeforeTheStart /\ AloneKnows
  BY DEF LiveInv
<1>u. /\ lvStatus \in LiveStatuses \cup {NULL} /\ lvTold \in LiveStatuses \cup {NULL}
      /\ lvUpdate \in [LiveUpdates -> LiveUpdate \cup {NULL}] /\ lvDrift \in BOOLEAN
  BY <1>t DEF LiveTypeOK
<1>n. NULL \notin LiveStatuses /\ NULL \notin LiveUpdate
  BY LiveAssumption
<1>1. CASE StartLive
  <2>1. /\ lvStatus = NULL /\ lvStatus' = "live" /\ lvTold' = "live"
        /\ lvUpdate' = lvUpdate /\ lvDrift' = lvDrift
    BY <1>1 DEF StartLive
  <2>2. \A w \in LiveUpdates : lvUpdate[w] = NULL
    BY <1>t, <2>1 DEF NoneBeforeTheStart, Updating
  <2>3. LiveTypeOK'
    BY <1>u, <2>1 DEF LiveTypeOK, LiveStatuses
  <2>4. ToldUnlessSaving' /\ NoneBeforeTheStart' /\ AloneKnows'
    BY <2>1, <2>2 DEF ToldUnlessSaving, NoneBeforeTheStart, AloneKnows, Updating
  <2> QED BY <2>3, <2>4 DEF LiveInv
<1>2. ASSUME NEW w \in LiveUpdates, NEW to \in LiveStatuses, UpdateReadsLive(w, to) PROVE LiveInv'
  <2> DEFINE new == [to |-> to, read |-> lvStatus, saved |-> FALSE, alone |-> Updating = {}]
             Put(v) == IF v = w THEN new
                       ELSE IF v \in Updating THEN [lvUpdate[v] EXCEPT !.alone = FALSE] ELSE NULL
  <2>1. /\ lvStatus # NULL /\ lvUpdate[w] = NULL /\ lvUpdate' = [v \in LiveUpdates |-> Put(v)]
        /\ lvStatus' = lvStatus /\ lvTold' = lvTold /\ lvDrift' = lvDrift
    BY <1>2 DEF UpdateReadsLive
  <2>2. new \in LiveUpdate /\ ~new.saved /\ new.read = lvStatus /\ (new.alone <=> Updating = {})
    BY <1>u, <2>1 DEF LiveUpdate
  <2> HIDE DEF new
  <2>3. /\ lvUpdate'[w] = new
        /\ \A v \in LiveUpdates \ {w} :
             \/ lvUpdate[v] = NULL /\ lvUpdate'[v] = NULL
             \/ /\ lvUpdate[v] # NULL /\ lvUpdate'[v] \in LiveUpdate /\ ~lvUpdate'[v].alone
                /\ lvUpdate'[v].saved = lvUpdate[v].saved
    <3>1. ASSUME NEW v \in LiveUpdates, lvUpdate[v] # NULL
          PROVE  /\ [lvUpdate[v] EXCEPT !.alone = FALSE] \in LiveUpdate
                 /\ ~[lvUpdate[v] EXCEPT !.alone = FALSE].alone
                 /\ [lvUpdate[v] EXCEPT !.alone = FALSE].saved = lvUpdate[v].saved
      <4>1. lvUpdate[v] \in LiveUpdate
        BY <1>u, <3>1
      <4> QED BY <4>1 DEF LiveUpdate
    <3>2. \A v \in LiveUpdates : lvUpdate'[v] = Put(v)
      BY <2>1
    <3> QED BY <3>1, <3>2 DEF Updating
  <2>4. lvUpdate' \in [LiveUpdates -> LiveUpdate \cup {NULL}]
    <3>1. \A v \in LiveUpdates : lvUpdate'[v] \in LiveUpdate \cup {NULL}
      BY <2>2, <2>3
    <3>2. lvUpdate' = [v \in LiveUpdates |-> lvUpdate'[v]]
      BY <2>1
    <3> QED BY <3>1, <3>2
  <2>5. SavedUpdates' = SavedUpdates
    BY <1>n, <2>1, <2>2, <2>3 DEF SavedUpdates
  <2>6. \A v \in LiveUpdates : lvUpdate'[v] # NULL /\ lvUpdate'[v].alone => v = w
    BY <2>3
  <2>7. new.alone => Updating' = {w}
    BY <1>n, <2>2, <2>3 DEF Updating
  <2>8. AloneKnows'
    BY <2>1, <2>2, <2>3, <2>6, <2>7 DEF AloneKnows
  <2>9. ToldUnlessSaving' /\ NoneBeforeTheStart'
    BY <1>t, <2>1, <2>5 DEF ToldUnlessSaving, NoneBeforeTheStart
  <2> QED BY <1>u, <2>1, <2>4, <2>8, <2>9 DEF LiveInv, LiveTypeOK
<1>3. ASSUME NEW w \in LiveUpdates, UpdateSavesLive(w) PROVE LiveInv'
  <2>1. /\ w \in Updating /\ ~lvUpdate[w].saved
        /\ lvStatus' = IF lvUpdate[w].to = lvUpdate[w].read THEN lvStatus ELSE lvUpdate[w].to
        /\ lvUpdate' = [lvUpdate EXCEPT ![w].saved = TRUE]
        /\ lvTold' = lvTold /\ lvDrift' = lvDrift
    BY <1>3 DEF UpdateSavesLive
  <2>2. lvUpdate[w] \in LiveUpdate /\ lvUpdate[w] # NULL
    BY <1>u, <2>1 DEF Updating
  <2>3. /\ lvUpdate'[w] \in LiveUpdate /\ lvUpdate'[w].saved /\ lvUpdate'[w].to = lvUpdate[w].to
        /\ lvUpdate'[w].alone = lvUpdate[w].alone
        /\ \A v \in LiveUpdates \ {w} : lvUpdate'[v] = lvUpdate[v]
    BY <1>u, <2>1, <2>2 DEF LiveUpdate
  <2>4. lvUpdate' \in [LiveUpdates -> LiveUpdate \cup {NULL}]
    BY <1>u, <2>1, <2>3
  <2>5. lvUpdate'[w] # NULL
    BY <1>n, <2>3
  <2>6. lvStatus' \in LiveStatuses
    <3>1. lvStatus # NULL
      BY <1>t, <2>1 DEF NoneBeforeTheStart
    <3> QED BY <1>u, <2>1, <2>2, <3>1 DEF LiveUpdate
  <2>7. Updating' = Updating /\ SavedUpdates' # {}
    <3>1. \A v \in LiveUpdates : lvUpdate'[v] = NULL <=> lvUpdate[v] = NULL
      BY <2>2, <2>3, <2>5
    <3> QED BY <2>1, <2>3, <2>5, <3>1 DEF Updating, SavedUpdates
  <2>8. AloneKnows'
    <3> SUFFICES ASSUME NEW v \in LiveUpdates, lvUpdate'[v] # NULL, lvUpdate'[v].alone
                 PROVE  /\ Updating' = {v}
                        /\ ~lvUpdate'[v].saved => lvUpdate'[v].read = lvStatus'
                        /\ lvUpdate'[v].saved => lvUpdate'[v].to = lvStatus'
      BY DEF AloneKnows
    <3>1. Updating = {v}
      BY <1>t, <2>2, <2>3 DEF AloneKnows
    <3>2. v = w
      BY <2>1, <3>1
    <3>3. lvUpdate[w].read = lvStatus
      BY <1>t, <2>1, <2>2, <2>3, <3>2 DEF AloneKnows
    <3> QED BY <2>1, <2>3, <2>7, <3>1, <3>2, <3>3
  <2>9. ToldUnlessSaving' /\ NoneBeforeTheStart'
    BY <1>n, <2>6, <2>7 DEF ToldUnlessSaving, NoneBeforeTheStart
  <2> QED BY <1>u, <2>1, <2>4, <2>6, <2>8, <2>9 DEF LiveInv, LiveTypeOK
<1>4. ASSUME NEW w \in LiveUpdates, UpdateTells(w) \/ UpdateBreaksOff(w) PROVE LiveInv'
  <2>1. /\ w \in Updating /\ lvUpdate' = [lvUpdate EXCEPT ![w] = NULL] /\ lvStatus' = lvStatus
        /\ \/ lvUpdate[w].saved /\ lvTold' = lvUpdate[w].to /\ lvDrift' = ~lvUpdate[w].alone
           \/ lvTold' = lvTold /\ lvDrift' = (lvDrift \/ lvUpdate[w].saved)
    BY <1>4 DEF UpdateTells, UpdateBreaksOff, Announced
  <2>2. lvUpdate[w] \in LiveUpdate /\ lvUpdate[w] # NULL
    BY <1>u, <2>1 DEF Updating
  <2>3. lvUpdate'[w] = NULL /\ \A v \in LiveUpdates \ {w} : lvUpdate'[v] = lvUpdate[v]
    BY <1>u, <2>1
  <2>4. Updating' = Updating \ {w} /\ SavedUpdates' = SavedUpdates \ {w}
    BY <2>3 DEF Updating, SavedUpdates
  <2>5. LiveTypeOK'
    <3>1. lvUpdate' \in [LiveUpdates -> LiveUpdate \cup {NULL}]
      BY <1>u, <2>1
    <3>2. lvTold' \in LiveStatuses \cup {NULL} /\ lvDrift' \in BOOLEAN
      BY <1>u, <2>1, <2>2 DEF LiveUpdate
    <3> QED BY <1>u, <2>1, <3>1, <3>2 DEF LiveTypeOK
  <2>6. ToldUnlessSaving'
    <3>1. CASE lvUpdate[w].saved /\ lvTold' = lvUpdate[w].to /\ lvDrift' = ~lvUpdate[w].alone
      BY <1>t, <2>1, <2>2, <3>1 DEF ToldUnlessSaving, AloneKnows, Updating
    <3>2. CASE lvTold' = lvTold /\ lvDrift' = (lvDrift \/ lvUpdate[w].saved)
      <4>1. ~lvUpdate[w].saved => SavedUpdates' = SavedUpdates
        BY <2>4 DEF SavedUpdates
      <4> QED BY <1>t, <2>1, <3>2, <4>1 DEF ToldUnlessSaving
    <3> QED BY <2>1, <3>1, <3>2
  <2>7. NoneBeforeTheStart'
    BY <1>t, <2>1, <2>4 DEF NoneBeforeTheStart
  <2>8. AloneKnows'
    BY <1>t, <2>1, <2>3, <2>4 DEF AloneKnows
  <2> QED BY <2>5, <2>6, <2>7, <2>8 DEF LiveInv
<1>5. CASE UNCHANGED liveVars
  BY <1>5, <1>t DEF liveVars, LiveInv, LiveTypeOK, ToldUnlessSaving, NoneBeforeTheStart, AloneKnows,
     Updating, SavedUpdates
<1> QED BY <1>1, <1>2, <1>3, <1>4, <1>5 DEF LiveNext

-----------------------------------------------------------------------------
(* Requests to join.                                                       *)

\* Until calls of the viewer overlap, one row waits at most, and none while a
\* call that found none is on its way.
OneWaits ==
    ~jnTwice => /\ \A r, s \in Waiting : r = s
                /\ \A j, k \in jnCalls : j = k
                /\ jnCalls # {} => Waiting = {}

\* No answer makes a row wait again.
AnswersAnswer ==
    /\ DOMAIN jnAnswer = Hosts
    /\ \A h \in Hosts : jnAnswer[h] # NULL => jnAnswer[h].to \in Answers

JoinInv ==
    /\ JoinTypeOK /\ jnRows \in Seq(Answers \cup {"pending"})
    /\ OneWaits /\ AnswersAnswer

\* The initial states satisfy JoinInv.
LEMMA JoinInitial == JoinInit => JoinInv
<1> SUFFICES ASSUME JoinInit PROVE JoinInv
  OBVIOUS
<1>1. jnRows = <<>> /\ jnCalls = {} /\ jnAnswer = [h \in Hosts |-> NULL] /\ jnTwice = FALSE
  BY DEF JoinInit
<1>2. Waiting = {}
  BY <1>1 DEF Waiting
<1>3. JoinTypeOK /\ jnRows \in Seq(Answers \cup {"pending"})
  <2>1. DOMAIN jnRows = {} /\ jnRows \in Seq(Answers \cup {"pending"})
    BY <1>1
  <2> QED BY <1>1, <2>1 DEF JoinTypeOK
<1>4. OneWaits /\ AnswersAnswer
  BY <1>1, <1>2 DEF OneWaits, AnswersAnswer
<1> QED BY <1>3, <1>4 DEF JoinInv

\* Every step of JoinNext keeps JoinInv.
LEMMA JoinStep == JoinInv /\ [JoinNext]_joinVars => JoinInv'
<1> SUFFICES ASSUME JoinInv, [JoinNext]_joinVars PROVE JoinInv'
  OBVIOUS
<1>t. /\ jnRows \in Seq(Answers \cup {"pending"}) /\ jnCalls \subseteq Joiners /\ jnTwice \in BOOLEAN
      /\ \A h \in Hosts : jnAnswer[h] = NULL \/ jnAnswer[h].row \in DOMAIN jnRows
      /\ OneWaits /\ AnswersAnswer
  BY DEF JoinInv, JoinTypeOK
<1>1. ASSUME NEW j \in Joiners, JoinLooks(j) PROVE JoinInv'
  <2>1. /\ j \notin jnCalls /\ Waiting = {} /\ jnCalls' = jnCalls \cup {j}
        /\ jnTwice' = (jnTwice \/ jnCalls # {}) /\ jnRows' = jnRows /\ jnAnswer' = jnAnswer
    BY <1>1 DEF JoinLooks, NoneWaiting
  <2>2. Waiting' = Waiting
    BY <2>1 DEF Waiting
  <2>3. OneWaits' /\ AnswersAnswer'
    BY <1>t, <2>1, <2>2 DEF OneWaits, AnswersAnswer
  <2>4. JoinTypeOK'
    BY <1>t, <2>1 DEF JoinTypeOK, JoinInv
  <2> QED BY <1>t, <2>1, <2>3, <2>4 DEF JoinInv
<1>2. ASSUME NEW j \in Joiners, JoinCreates(j) PROVE JoinInv'
  <2>1. /\ j \in jnCalls /\ jnCalls' = jnCalls \ {j} /\ jnRows' = Append(jnRows, "pending")
        /\ jnAnswer' = jnAnswer /\ jnTwice' = jnTwice
    BY <1>2 DEF JoinCreates
  <2>2. /\ jnRows' \in Seq(Answers \cup {"pending"}) /\ Len(jnRows') = Len(jnRows) + 1
        /\ Len(jnRows) \in Nat /\ jnRows'[Len(jnRows) + 1] = "pending"
        /\ \A r \in 1..Len(jnRows) : jnRows'[r] = jnRows[r]
        /\ DOMAIN jnRows = 1..Len(jnRows) /\ DOMAIN jnRows' = 1..(Len(jnRows) + 1)
    BY <1>t, <2>1
  <2>3. Waiting' = Waiting \cup {Len(jnRows) + 1}
    BY <2>2 DEF Waiting
  <2>4. OneWaits'
    BY <1>t, <2>1, <2>3 DEF OneWaits
  <2>5. \A h \in Hosts : jnAnswer'[h] = NULL \/ jnAnswer'[h].row \in DOMAIN jnRows'
    BY <1>t, <2>1, <2>2
  <2>6. \A r \in DOMAIN jnRows' : jnRows'[r] \in Answers \cup {"pending"}
    BY <2>2
  <2> QED BY <1>t, <2>1, <2>2, <2>4, <2>5, <2>6 DEF JoinInv, JoinTypeOK, AnswersAnswer
<1>3. ASSUME NEW h \in Hosts, NEW r \in DOMAIN jnRows, NEW to \in Answers, AnswerReads(h, r, to)
      PROVE  JoinInv'
  <2> DEFINE new == [row |-> r, to |-> to, read |-> jnRows[r]]
  <2>1. /\ jnAnswer' = [jnAnswer EXCEPT ![h] = new] /\ jnRows' = jnRows /\ jnCalls' = jnCalls
        /\ jnTwice' = jnTwice
    BY <1>3 DEF AnswerReads
  <2>2. new.row = r /\ new.to = to
    OBVIOUS
  <2> HIDE DEF new
  <2>3. jnAnswer'[h] = new /\ \A k \in Hosts \ {h} : jnAnswer'[k] = jnAnswer[k]
    BY <1>t, <2>1 DEF AnswersAnswer
  <2>4. AnswersAnswer'
    BY <1>t, <2>1, <2>2, <2>3 DEF AnswersAnswer
  <2>5. \A k \in Hosts : jnAnswer'[k] = NULL \/ jnAnswer'[k].row \in DOMAIN jnRows'
    BY <1>t, <2>1, <2>2, <2>3
  <2>6. OneWaits'
    BY <1>t, <2>1 DEF OneWaits, Waiting
  <2> QED BY <1>t, <2>1, <2>4, <2>5, <2>6 DEF JoinInv, JoinTypeOK
<1>4. ASSUME NEW h \in Hosts, AnswerSaves(h) PROVE JoinInv'
  <2> DEFINE it == jnAnswer[h]
  <2>1. /\ it # NULL /\ jnAnswer' = [jnAnswer EXCEPT ![h] = NULL] /\ jnCalls' = jnCalls
        /\ jnTwice' = jnTwice
        /\ jnRows' = IF it.to = it.read THEN jnRows ELSE [jnRows EXCEPT ![it.row] = it.to]
    BY <1>4 DEF AnswerSaves
  <2>2. it.to \in Answers /\ it.row \in DOMAIN jnRows
    BY <1>t, <2>1 DEF AnswersAnswer
  <2> HIDE DEF it
  <2>3. /\ DOMAIN jnRows' = DOMAIN jnRows /\ jnRows' \in Seq(Answers \cup {"pending"})
        /\ \A r \in DOMAIN jnRows : jnRows'[r] = jnRows[r] \/ jnRows'[r] \in Answers
    BY <1>t, <2>1, <2>2
  <2>4. Waiting' \subseteq Waiting
    BY <2>3 DEF Waiting, Answers
  <2>5. OneWaits'
    BY <1>t, <2>1, <2>4 DEF OneWaits
  <2>6. AnswersAnswer' /\ \A k \in Hosts : jnAnswer'[k] = NULL \/ jnAnswer'[k].row \in DOMAIN jnRows'
    BY <1>t, <2>1, <2>3 DEF AnswersAnswer
  <2>7. \A r \in DOMAIN jnRows' : jnRows'[r] \in Answers \cup {"pending"}
    BY <1>t, <2>3
  <2> QED BY <1>t, <2>1, <2>3, <2>5, <2>6, <2>7 DEF JoinInv, JoinTypeOK
<1>5. CASE UNCHANGED joinVars
  BY <1>5, <1>t DEF joinVars, JoinInv, JoinTypeOK, OneWaits, AnswersAnswer, Waiting
<1> QED BY <1>1, <1>2, <1>3, <1>4, <1>5 DEF JoinNext

\* Told and status agree, and a viewer waits once.
LEMMA LiveJoinSafe == LiveInv /\ JoinInv => RoomKnows
<1> SUFFICES ASSUME LiveInv, JoinInv PROVE RoomKnows
  OBVIOUS
<1>1. Updating = {} /\ ~lvDrift => lvTold = lvStatus
  <2>1. Updating = {} => SavedUpdates = {}
    BY DEF Updating, SavedUpdates
  <2> QED BY <2>1 DEF LiveInv, ToldUnlessSaving
<1>2. ASSUME ~jnTwice PROVE Cardinality(Waiting) <= 1
  <2>1. CASE Waiting = {}
    BY <2>1, FS_EmptySet
  <2>2. CASE Waiting # {}
    <3>1. PICK r \in Waiting : TRUE
      BY <2>2
    <3>2. Waiting = {r}
      BY <1>2, <3>1 DEF JoinInv, OneWaits
    <3>3. Cardinality({r}) = 1
      BY FS_Singleton
    <3> QED BY <3>2, <3>3
  <2> QED BY <2>1, <2>2
<1> QED BY <1>1, <1>2 DEF RoomKnows

-----------------------------------------------------------------------------
(* Who is in the room.                                                     *)

PresenceInv == PresenceTypeOK /\ RoomIsCounted

\* The initial states satisfy PresenceInv.
LEMMA PresenceInitial == PresenceInit => PresenceInv
<1> SUFFICES ASSUME PresenceInit PROVE PresenceInv
  OBVIOUS
<1>1. psOpen = {} /\ psRoom = {} /\ psDue = 0 /\ psTold = [s \in Sockets |-> NULL]
  BY DEF PresenceInit
<1>2. PresenceTypeOK
  BY <1>1, AudienceAssumption DEF PresenceTypeOK
<1>3. RoomIsCounted
  BY <1>1 DEF RoomIsCounted
<1> QED BY <1>2, <1>3 DEF PresenceInv

\* All that are in the room are told how many.
LEMMA AllAreTold ==
    ASSUME PresenceTypeOK, NEW room \in SUBSET Sockets
    PROVE  /\ ToldAll(room) \in [Sockets -> 0..Cardinality(Sockets) \cup {NULL}]
           /\ \A s \in room : ToldAll(room)[s] = Cardinality(room)
<1>1. IsFiniteSet(Sockets)
  BY AudienceAssumption
<1>2. Cardinality(room) <= Cardinality(Sockets) /\ IsFiniteSet(room)
  BY <1>1, FS_Subset
<1>3. Cardinality(room) \in Nat /\ Cardinality(Sockets) \in Nat
  BY <1>1, <1>2, FS_CardinalityType
<1>4. Cardinality(room) \in 0..Cardinality(Sockets)
  BY <1>2, <1>3
<1> QED BY <1>4 DEF ToldAll, PresenceTypeOK

\* Every step of PresenceNext keeps PresenceInv.
LEMMA PresenceStep == PresenceInv /\ [PresenceNext]_presenceVars => PresenceInv'
<1> SUFFICES ASSUME PresenceInv, [PresenceNext]_presenceVars PROVE PresenceInv'
  OBVIOUS
<1>t. /\ PresenceTypeOK /\ RoomIsCounted
      /\ psRoom \subseteq psOpen /\ psOpen \subseteq Sockets /\ psDue \in 0..MaxRecounts
      /\ psTold \in [Sockets -> 0..Cardinality(Sockets) \cup {NULL}] /\ MaxRecounts \in Nat
  BY AudienceAssumption DEF PresenceInv, PresenceTypeOK
<1>1. ASSUME NEW s \in Sockets, Connects(s) PROVE PresenceInv'
  <2>1. /\ s \notin psOpen /\ psOpen' = psOpen \cup {s} /\ psRoom' = psRoom /\ psDue' = psDue
        /\ psTold' = [psTold EXCEPT ![s] = NULL]
    BY <1>1 DEF Connects
  <2>2. PresenceTypeOK'
    BY <1>t, <2>1 DEF PresenceTypeOK
  <2>3. RoomIsCounted'
    BY <1>t, <2>1 DEF RoomIsCounted
  <2> QED BY <2>2, <2>3 DEF PresenceInv
<1>2. ASSUME NEW s \in Sockets, JoinsRoom(s) \/ LeavesRoom(s) PROVE PresenceInv'
  <2>1. /\ psRoom' \in SUBSET psOpen /\ psOpen' = psOpen /\ psDue' = psDue
        /\ psTold' = ToldAll(psRoom')
    BY <1>2, <1>t DEF JoinsRoom, LeavesRoom
  <2>2. PICK room : room = psRoom'
    OBVIOUS
  <2>3. room \in SUBSET Sockets /\ psTold' = ToldAll(room)
    BY <1>t, <2>1, <2>2
  <2> QED BY <1>t, <2>1, <2>2, <2>3, AllAreTold DEF PresenceInv, PresenceTypeOK, RoomIsCounted
<1>3. ASSUME NEW s \in Sockets, Disconnects(s) PROVE PresenceInv'
  <2>1. /\ psOpen' = psOpen \ {s} /\ psRoom' = psRoom \ {s} /\ psTold' = psTold
        /\ psDue' = (IF s \in psRoom THEN psDue + 1 ELSE psDue) /\ psDue' <= MaxRecounts
    BY <1>3 DEF Disconnects
  <2>2. PresenceTypeOK'
    BY <1>t, <2>1 DEF PresenceTypeOK
  <2>3. ASSUME psDue' = 0 PROVE psDue = 0 /\ psRoom' = psRoom
    BY <1>t, <2>1, <2>3
  <2>4. RoomIsCounted'
    BY <1>t, <2>1, <2>3 DEF RoomIsCounted
  <2> QED BY <2>2, <2>4 DEF PresenceInv
<1>4. CASE Recounts
  <2>1. /\ psDue > 0 /\ psDue' = psDue - 1 /\ psTold' = ToldAll(psRoom) /\ psOpen' = psOpen
        /\ psRoom' = psRoom
    BY <1>4 DEF Recounts
  <2>2. psRoom \in SUBSET Sockets /\ psDue' \in 0..MaxRecounts
    BY <1>t, <2>1
  <2> QED BY <1>t, <2>1, <2>2, AllAreTold DEF PresenceInv, PresenceTypeOK, RoomIsCounted
<1>5. CASE UNCHANGED presenceVars
  BY <1>5, <1>t DEF presenceVars, PresenceInv, PresenceTypeOK, RoomIsCounted
<1> QED BY <1>1, <1>2, <1>3, <1>4, <1>5 DEF PresenceNext

\* The parts' invariants say together that the audience is served.
LEMMA AudienceSafe ==
    LikeInv /\ HeartInv /\ LiveInv /\ JoinInv /\ PresenceInv => AudienceIsServed
BY LikeSafe, HeartSafe, LiveJoinSafe DEF AudienceIsServed, PresenceInv

-----------------------------------------------------------------------------
(* The leaderboard.                                                        *)

\* What is to come for each artist.
Awaited == [a \in Artists |-> SumOn(Adding[a], Bumpers)]

Scores == UNION {[S -> Nat] : S \in SUBSET Artists}
BumpTo == [artist : Artists, kind : {"vote", "gift"}]
BoardReader == [at : {"idle", "cold", "read"}, rows : Scores,
                winner : Artists \cup {NULL}, clean : BOOLEAN]

\* Scores add up with what is to come to what the season says, for its winner.
Deserved(a, winner) == lbVotes[a] * 10 + lbGifts[a] * 5 + IF winner = a THEN 50 ELSE 0
ScoreIn(rows, a) == IF a \in DOMAIN rows THEN rows[a] ELSE 0

SetAddsUp == {a \in Artists : ScoreIn(lbSet, a) + Awaited[a] = Deserved(a, lbSeen)}
RowsAddUp == [r \in Readers |->
                {a \in Artists : ScoreIn(lbReader[r].rows, a) + Awaited[a]
                                   = Deserved(a, lbReader[r].winner)}]
CleanRows == {r \in Readers : lbReader[r].at = "read" /\ lbReader[r].clean}

BoardTyped ==
    /\ LeaderboardTypeOK
    /\ lbSet \in Scores
    /\ lbReader \in [Readers -> BoardReader]

LeaderboardInv ==
    /\ BoardTyped
    /\ Warm /\ ~lbDrifted => Artists \subseteq SetAddsUp
    /\ \A r \in CleanRows : Artists \subseteq RowsAddUp[r]

\* The rows of nobody.
LEMMA NoRows == <<>> \in Scores /\ DOMAIN <<>> = {}
<1>1. <<>> \in [{} -> Nat] /\ DOMAIN <<>> = {}
  OBVIOUS
<1>2. {} \in SUBSET Artists
  OBVIOUS
<1> QED BY <1>1, <1>2 DEF Scores

\* What a score is, column by column.
LEMMA ScoresAre ==
    ASSUME NEW rows
    PROVE  rows \in Scores <=> /\ DOMAIN rows \subseteq Artists /\ rows = [a \in DOMAIN rows |-> rows[a]]
                               /\ \A a \in DOMAIN rows : rows[a] \in Nat
<1>1. ASSUME rows \in Scores
      PROVE  /\ DOMAIN rows \subseteq Artists /\ rows = [a \in DOMAIN rows |-> rows[a]]
             /\ \A a \in DOMAIN rows : rows[a] \in Nat
  <2>1. PICK S \in SUBSET Artists : rows \in [S -> Nat]
    BY <1>1 DEF Scores
  <2> QED BY <2>1
<1>2. ASSUME DOMAIN rows \subseteq Artists, rows = [a \in DOMAIN rows |-> rows[a]],
             \A a \in DOMAIN rows : rows[a] \in Nat
      PROVE  rows \in Scores
  <2>1. rows \in [DOMAIN rows -> Nat]
    BY <1>2
  <2> QED BY <1>2, <2>1 DEF Scores
<1> QED BY <1>1, <1>2

\* Nobody is paid more than all are.
LEMMA NoMoreThanPaid ==
    ASSUME LeaderboardTypeOK, NEW a \in Artists
    PROVE  Paid \in Nat /\ lbVotes[a] + lbGifts[a] =< Paid
<1>1. \A x \in Artists : PaidTo[x] = lbVotes[x] + lbGifts[x] /\ PaidTo[x] \in Nat
  BY LeaderboardAssumption DEF LeaderboardTypeOK, PaidTo
<1>2. SumOn(PaidTo, Artists) \in Nat /\ \A x \in Artists : PaidTo[x] =< SumOn(PaidTo, Artists)
  BY <1>1, SumIsNoLess, LeaderboardAssumption
<1>3. Paid = SumOn(PaidTo, Artists)
  BY Zenon DEF Paid, SumOn
<1> QED BY <1>1, <1>2, <1>3

\* What is to come is nought when nobody is about to add.
LEMMA NothingAwaited ==
    ASSUME \A b \in Bumpers : lbBump[b] = NoBump
    PROVE  \A a \in Artists : Awaited[a] = 0
<1>1. \A a \in Artists : \A b \in Bumpers : Adding[a][b] = 0
  BY LeaderboardAssumption DEF Adding, NoBump
<1> QED BY <1>1, SumOfNothing, LeaderboardAssumption DEF Awaited

\* A request has one more to make, or has made it: what is to come for its artist
\* changes by that.
LEMMA AwaitedChanges ==
    ASSUME LeaderboardTypeOK, LeaderboardTypeOK', NEW b \in Bumpers,
           \A c \in Bumpers \ {b} : lbBump'[c] = lbBump[c]
    PROVE  \A a \in Artists : /\ Awaited[a] \in Int
                              /\ Awaited'[a] = Awaited[a] + Adding'[a][b] - Adding[a][b]
<1>1. \A a \in Artists : \A c \in Bumpers : Adding[a][c] \in Int /\ Adding'[a][c] \in Int
  BY DEF Adding, Points
<1>2. \A a \in Artists : \A c \in Bumpers \ {b} : Adding'[a][c] = Adding[a][c]
  BY DEF Adding
<1>3. ASSUME NEW a \in Artists
      PROVE  /\ SumOn(Adding[a], Bumpers) \in Int
             /\ SumOn(Adding'[a], Bumpers) = SumOn(Adding[a], Bumpers) + Adding'[a][b] - Adding[a][b]
  <2>1. SumOn(Adding[a], Bumpers) \in Int
    BY <1>1, SumSteps, LeaderboardAssumption
  <2>2. SumOn(Adding'[a], Bumpers) = SumOn(Adding[a], Bumpers) + Adding'[a][b] - Adding[a][b]
    <3>1. PICK f : f = Adding[a]
      OBVIOUS
    <3>2. PICK e : e = Adding'[a]
      OBVIOUS
    <3>3. /\ \A y \in Bumpers : f[y] \in Int
          /\ e[b] \in Int /\ \A y \in Bumpers \ {b} : e[y] = f[y]
      BY <1>1, <1>2, <3>1, <3>2
    <3>4. SumOn(e, Bumpers) = SumOn(f, Bumpers) + e[b] - f[b]
      BY <3>3, SumChanges, LeaderboardAssumption
    <3> QED BY <3>1, <3>2, <3>4
  <2> QED BY <2>1, <2>2
<1> QED BY <1>3 DEF Awaited

\* What is to come to an artist is what is in the hands.
LEMMA AwaitedSame ==
    ASSUME lbBump' = lbBump
    PROVE  Awaited' = Awaited
BY DEF Awaited, Adding

\* What is to come is a number.
LEMMA AwaitedTyped ==
    ASSUME LeaderboardTypeOK
    PROVE  \A a \in Artists : Awaited[a] \in Int
<1>1. \A a \in Artists : \A c \in Bumpers : Adding[a][c] \in Int
  BY DEF Adding, Points
<1> QED BY <1>1, SumSteps, LeaderboardAssumption DEF Awaited

\* The initial states satisfy LeaderboardInv.
LEMMA LeaderboardInitial == LeaderboardInit => LeaderboardInv
<1> SUFFICES ASSUME LeaderboardInit PROVE LeaderboardInv
  OBVIOUS
<1>1. NoReader \in BoardReader /\ NoReader.at = "idle" /\ DOMAIN NoReader.rows \subseteq Artists
  BY NoRows DEF NoReader, BoardReader
<1>2. \A r \in Readers : lbReader[r] = NoReader
  BY DEF LeaderboardInit
<1>3. lbSet \in Scores /\ DOMAIN lbSet = {}
  BY NoRows DEF LeaderboardInit
<1>4. LeaderboardTypeOK
  <2>1. \A r \in Readers : /\ lbReader[r].at \in {"idle", "cold", "read"}
                           /\ DOMAIN lbReader[r].rows \subseteq Artists
                           /\ lbReader[r].winner \in Artists \cup {NULL}
                           /\ lbReader[r].clean \in BOOLEAN
    BY <1>1, <1>2 DEF BoardReader
  <2>2. \A a \in Artists : 0 \in 0..MaxPaid
    BY LeaderboardAssumption
  <2>3. lbBump \in [Bumpers -> {NoBump} \cup BumpTo]
    BY DEF LeaderboardInit
  <2>4. lbVotes \in [Artists -> 0..MaxPaid] /\ lbGifts \in [Artists -> 0..MaxPaid]
    BY <2>2 DEF LeaderboardInit
  <2> QED BY <1>3, <2>1, <2>3, <2>4 DEF LeaderboardInit, LeaderboardTypeOK, BumpTo
<1>5. lbReader \in [Readers -> BoardReader]
  BY <1>1 DEF LeaderboardInit
<1>6. ~Warm
  BY <1>3 DEF Warm
<1>7. CleanRows = {}
  BY <1>1, <1>2 DEF CleanRows
<1> QED BY <1>3, <1>4, <1>5, <1>6, <1>7 DEF LeaderboardInv, BoardTyped

\* Every step of LeaderboardNext keeps LeaderboardInv.
LEMMA LeaderboardStep == LeaderboardInv /\ [LeaderboardNext]_leaderboardVars => LeaderboardInv'
<1> SUFFICES ASSUME LeaderboardInv, [LeaderboardNext]_leaderboardVars PROVE LeaderboardInv'
  OBVIOUS
<1>a. /\ BoardTyped /\ LeaderboardTypeOK
      /\ lbVotes \in [Artists -> 0..MaxPaid] /\ lbGifts \in [Artists -> 0..MaxPaid]
      /\ lbWinner \in Artists \cup {NULL} /\ lbSeen \in Artists \cup {NULL}
      /\ lbSet \in Scores /\ lbBump \in [Bumpers -> {NoBump} \cup BumpTo]
      /\ lbReader \in [Readers -> BoardReader] /\ lbDrifted \in BOOLEAN
      /\ lbSeason \in {"none", "on", "off"} /\ lbListed \in BOOLEAN
  BY DEF LeaderboardInv, BoardTyped, LeaderboardTypeOK, BumpTo
<1>t. ASSUME lbVotes' \in [Artists -> 0..MaxPaid], lbGifts' \in [Artists -> 0..MaxPaid],
             lbWinner' \in Artists \cup {NULL}, lbSeen' \in Artists \cup {NULL},
             lbSet' \in Scores, lbBump' \in [Bumpers -> {NoBump} \cup BumpTo],
             lbReader' \in [Readers -> BoardReader], lbDrifted' \in BOOLEAN,
             lbSeason' \in {"none", "on", "off"}, lbListed' \in BOOLEAN
      PROVE  BoardTyped'
  <2>1. PICK set : set = lbSet'
    OBVIOUS
  <2>2. DOMAIN lbSet' \subseteq Artists /\ \A a \in DOMAIN lbSet' : lbSet'[a] \in Nat
    BY <1>t, <2>1, ScoresAre
  <2>3. ASSUME NEW r \in Readers
        PROVE  /\ lbReader'[r].at \in {"idle", "cold", "read"}
               /\ DOMAIN lbReader'[r].rows \subseteq Artists
               /\ lbReader'[r].winner \in Artists \cup {NULL}
               /\ lbReader'[r].clean \in BOOLEAN
    <3>1. lbReader'[r] \in BoardReader
      BY <1>t
    <3>2. PICK rows \in Scores : rows = lbReader'[r].rows
      BY <3>1 DEF BoardReader
    <3>3. DOMAIN lbReader'[r].rows \subseteq Artists
      BY <3>2, ScoresAre
    <3> QED BY <3>1, <3>3 DEF BoardReader
  <2> QED BY <1>t, <2>2, <2>3 DEF BoardTyped, LeaderboardTypeOK, BumpTo
<1>b. /\ Warm /\ ~lbDrifted => Artists \subseteq SetAddsUp
      /\ \A r \in CleanRows : Artists \subseteq RowsAddUp[r]
  BY DEF LeaderboardInv
<1>c. ASSUME BoardTyped', Warm' /\ ~lbDrifted' => Artists \subseteq SetAddsUp',
             \A r \in CleanRows' : Artists \subseteq RowsAddUp'[r]
      PROVE  LeaderboardInv'
  BY <1>c DEF LeaderboardInv
<1>d. \A a \in Artists : /\ lbVotes[a] \in Nat /\ lbGifts[a] \in Nat /\ Awaited[a] \in Int
  BY <1>a, AwaitedTyped, LeaderboardAssumption
<1>e. NoReader \in BoardReader /\ NoReader.at = "idle" /\ ~NoReader.clean
  BY NoRows DEF NoReader, BoardReader
<1>f. \A b \in Bumpers : lbBump[b] # NoBump => 
         /\ lbBump[b].artist \in Artists /\ lbBump[b].kind \in {"vote", "gift"}
         /\ Points(lbBump[b].kind) \in Nat
         /\ \A a \in Artists : Adding[a][b] = IF lbBump[b].artist = a THEN Points(lbBump[b].kind) ELSE 0
  BY <1>a DEF BumpTo, Points, Adding
<1>g. \A b \in Bumpers : lbBump[b] = NoBump => \A a \in Artists : Adding[a][b] = 0
  BY LeaderboardAssumption DEF NoBump, Adding
<1>h. /\ \A r \in Readers : Overtaken[r] \in BoardReader /\ ~Overtaken[r].clean
      /\ Overtaken \in [Readers -> BoardReader]
  BY <1>a DEF Overtaken, BoardReader
\* A step that leaves votes, gifts and what is to come keeps what adds up.
<1>i. ASSUME UNCHANGED <<lbVotes, lbGifts, lbBump, lbReader>>
      PROVE  \A r \in CleanRows' : Artists \subseteq RowsAddUp'[r]
  BY <1>b, <1>i, AwaitedSame DEF CleanRows, RowsAddUp, ScoreIn, Deserved
<1>j. ASSUME UNCHANGED <<lbVotes, lbGifts, lbBump, lbSet, lbSeen, lbDrifted>>
      PROVE  Warm' /\ ~lbDrifted' => Artists \subseteq SetAddsUp'
  BY <1>b, <1>j, AwaitedSame DEF SetAddsUp, Warm, ScoreIn, Deserved
<1>k. /\ \A a \in Artists : ScoreIn(lbSet, a) \in Nat
      /\ \A r \in Readers : \A a \in Artists : ScoreIn(lbReader[r].rows, a) \in Nat
  <2>1. \A rows \in Scores : \A a \in Artists : ScoreIn(rows, a) \in Nat
    BY ScoresAre DEF ScoreIn
  <2>2. \A r \in Readers : lbReader[r].rows \in Scores
    BY <1>a DEF BoardReader
  <2> QED BY <1>a, <2>1, <2>2
<1>1. ASSUME NEW b \in Bumpers, NEW a \in Artists, NEW kind \in {"vote", "gift"}, PayFor(b, a, kind)
      PROVE  LeaderboardInv'
  <2> DEFINE d == Points(kind)
  <2>1. /\ lbBump[b] = NoBump /\ Paid < MaxPaid
        /\ lbVotes' = [lbVotes EXCEPT ![a] = IF kind = "vote" THEN @ + 1 ELSE @]
        /\ lbGifts' = [lbGifts EXCEPT ![a] = IF kind = "gift" THEN @ + 1 ELSE @]
        /\ lbBump' = [lbBump EXCEPT ![b] = [artist |-> a, kind |-> kind]]
        /\ UNCHANGED <<lbWinner, lbSeason, lbListed, lbSet, lbReader, lbSeen, lbDrifted>>
    BY <1>1 DEF PayFor
  <2>2. lbVotes[a] + lbGifts[a] + 1 =< MaxPaid
    BY <1>a, <1>d, <2>1, NoMoreThanPaid, LeaderboardAssumption
  <2>3. lbVotes' \in [Artists -> 0..MaxPaid] /\ lbGifts' \in [Artists -> 0..MaxPaid]
    <3>1. lbVotes[a] + 1 \in 0..MaxPaid /\ lbGifts[a] + 1 \in 0..MaxPaid
      BY <1>d, <2>2, LeaderboardAssumption
    <3> QED BY <1>a, <2>1, <3>1
  <2>4. lbBump' \in [Bumpers -> {NoBump} \cup BumpTo]
    BY <1>a, <2>1 DEF BumpTo
  <2>5. BoardTyped'
    BY <1>a, <2>1, <2>3, <2>4, <1>t
  <2>6. \A x \in Artists : Awaited'[x] = Awaited[x] + IF x = a THEN d ELSE 0
    <3>1. \A c \in Bumpers \ {b} : lbBump'[c] = lbBump[c]
      BY <1>a, <2>1
    <3>2. \A x \in Artists : Adding'[x][b] = IF x = a THEN d ELSE 0
      BY <1>a, <2>1 DEF Adding
    <3>3. \A x \in Artists : Awaited'[x] = Awaited[x] + Adding'[x][b] - Adding[x][b]
      BY <1>a, <2>5, <3>1, AwaitedChanges DEF BoardTyped
    <3>4. d \in Int
      BY DEF Points
    <3> HIDE DEF d
    <3> QED BY <1>d, <1>g, <2>1, <3>2, <3>3, <3>4
  <2>7. \A x \in Artists : lbVotes'[x] * 10 + lbGifts'[x] * 5
                             = lbVotes[x] * 10 + lbGifts[x] * 5 + IF x = a THEN d ELSE 0
    <3> TAKE x \in Artists
    <3>1. CASE x = a /\ kind = "vote"
      <4>1. lbVotes'[x] = lbVotes[x] + 1 /\ lbGifts'[x] = lbGifts[x] /\ d = 10
        BY <1>a, <2>1, <3>1 DEF Points
      <4> QED BY <1>d, <3>1, <4>1
    <3>2. CASE x = a /\ kind = "gift"
      <4>1. lbVotes'[x] = lbVotes[x] /\ lbGifts'[x] = lbGifts[x] + 1 /\ d = 5
        BY <1>a, <2>1, <3>2 DEF Points
      <4> QED BY <1>d, <3>2, <4>1
    <3>3. CASE x # a
      <4>1. lbVotes'[x] = lbVotes[x] /\ lbGifts'[x] = lbGifts[x]
        BY <1>a, <2>1, <3>3
      <4> QED BY <1>d, <3>3, <4>1
    <3> QED BY <3>1, <3>2, <3>3
  <2>8. d \in Nat
    BY DEF Points
  <2> HIDE DEF d
  <2>9. ASSUME NEW x \in Artists, NEW score \in Nat, NEW winner, score + Awaited[x] = Deserved(x, winner)
        PROVE  score + Awaited'[x] = lbVotes'[x] * 10 + lbGifts'[x] * 5 + IF winner = x THEN 50 ELSE 0
    <3> DEFINE w == IF winner = x THEN 50 ELSE 0
               e == IF x = a THEN d ELSE 0
    <3>1. w \in Nat /\ e \in Nat
      BY <2>8
    <3>2. score + Awaited[x] = lbVotes[x] * 10 + lbGifts[x] * 5 + w
      BY <2>9 DEF Deserved
    <3>3. /\ Awaited'[x] = Awaited[x] + e
          /\ lbVotes'[x] * 10 + lbGifts'[x] * 5 = lbVotes[x] * 10 + lbGifts[x] * 5 + e
      BY <2>6, <2>7
    <3> HIDE DEF w, e
    <3>4. PICK p \in Int : p = lbVotes[x] * 10 + lbGifts[x] * 5
      BY <1>d
    <3>5. score + Awaited[x] = p + w /\ lbVotes'[x] * 10 + lbGifts'[x] * 5 = p + e
      BY <3>2, <3>3, <3>4
    <3>6. score + (Awaited[x] + e) = (p + e) + w
      BY <1>d, <3>1, <3>5
    <3>7. score + Awaited'[x] = (lbVotes'[x] * 10 + lbGifts'[x] * 5) + w
      BY <3>3, <3>5, <3>6
    <3> QED BY <3>7 DEF w
  <2>10. Warm' /\ ~lbDrifted' => Artists \subseteq SetAddsUp'
    <3> SUFFICES ASSUME Warm, ~lbDrifted, NEW x \in Artists PROVE x \in SetAddsUp'
      BY <2>1 DEF Warm
    <3>1. PICK score \in Nat : score = ScoreIn(lbSet, x)
      BY <1>k
    <3>2. score + Awaited[x] = Deserved(x, lbSeen)
      BY <1>b, <3>1 DEF SetAddsUp
    <3>3. score + Awaited'[x] = lbVotes'[x] * 10 + lbGifts'[x] * 5 + IF lbSeen = x THEN 50 ELSE 0
      BY <2>9, <3>2
    <3> QED BY <2>1, <3>1, <3>3 DEF SetAddsUp, ScoreIn, Deserved
  <2>11. \A r \in CleanRows' : Artists \subseteq RowsAddUp'[r]
    <3> SUFFICES ASSUME NEW r \in CleanRows, NEW x \in Artists PROVE x \in RowsAddUp'[r]
      BY <2>1 DEF CleanRows
    <3>0. r \in Readers
      BY DEF CleanRows
    <3>1. PICK score \in Nat : score = ScoreIn(lbReader[r].rows, x)
      BY <1>k, <3>0
    <3>2. score + Awaited[x] = Deserved(x, lbReader[r].winner)
      BY <1>b, <3>0, <3>1 DEF RowsAddUp
    <3>3. score + Awaited'[x] = lbVotes'[x] * 10 + lbGifts'[x] * 5
                                  + IF lbReader[r].winner = x THEN 50 ELSE 0
      BY <2>9, <3>2
    <3> QED BY <2>1, <3>0, <3>1, <3>3 DEF RowsAddUp, ScoreIn, Deserved
  <2> QED BY <1>c, <2>5, <2>10, <2>11
<1>2. ASSUME NEW a \in Artists, SetWinner(a) PROVE LeaderboardInv'
  <2>1. BoardTyped'
    BY <1>2, <1>a, <1>t DEF SetWinner
  <2> QED BY <1>2, <1>c, <1>i, <1>j, <2>1 DEF SetWinner
<1>3. ASSUME NEW to \in {"on", "off"}, SwitchSeason(to) PROVE LeaderboardInv'
  <2>1. BoardTyped'
    BY <1>3, <1>a, <1>t DEF SwitchSeason
  <2> QED BY <1>3, <1>c, <1>i, <1>j, <2>1 DEF SwitchSeason
<1>4. ASSUME NEW b \in Bumpers, ListSeasons(b) PROVE LeaderboardInv'
  <2>1. BoardTyped'
    BY <1>4, <1>a, <1>t DEF ListSeasons
  <2> QED BY <1>4, <1>c, <1>i, <1>j, <2>1 DEF ListSeasons
<1>5. ASSUME NEW b \in Bumpers, Bump(b) PROVE LeaderboardInv'
  <2> DEFINE a == lbBump[b].artist
             d == Points(lbBump[b].kind)
  <2>1. /\ lbBump[b] # NoBump
        /\ lbSet' = WithScore(lbSet, a, d)
        /\ lbDrifted' = (lbDrifted \/ ~Warm)
        /\ lbReader' = Overtaken
        /\ lbBump' = [lbBump EXCEPT ![b] = NoBump]
        /\ UNCHANGED <<lbVotes, lbGifts, lbWinner, lbSeason, lbListed, lbSeen>>
    BY <1>5 DEF Bump
  <2>2. a \in Artists /\ d \in Nat /\ \A x \in Artists : Adding[x][b] = IF a = x THEN d ELSE 0
    BY <1>f, <2>1
  <2> HIDE DEF a, d
  <2>3. /\ lbSet' \in Scores
        /\ \A x \in Artists : ScoreIn(lbSet', x) = ScoreIn(lbSet, x) + IF a = x THEN d ELSE 0
    <3>1. DOMAIN lbSet' = DOMAIN lbSet \cup {a}
      BY <2>1 DEF WithScore
    <3>2. \A x \in DOMAIN lbSet' : lbSet'[x] = ScoreIn(lbSet, x) + IF x = a THEN d ELSE 0
      BY <2>1 DEF WithScore, ScoreIn
    <3>3. DOMAIN lbSet \subseteq Artists
      BY <1>a, ScoresAre
    <3>4. \A x \in DOMAIN lbSet' : lbSet'[x] \in Nat
      BY <1>k, <2>2, <3>1, <3>2, <3>3
    <3>5. lbSet' = [x \in DOMAIN lbSet' |-> lbSet'[x]]
      BY <2>1 DEF WithScore
    <3>6. lbSet' \in Scores
      <4> DEFINE set == lbSet'
      <4>1. DOMAIN set \subseteq Artists /\ set = [x \in DOMAIN set |-> set[x]]
            /\ \A x \in DOMAIN set : set[x] \in Nat
        BY <2>2, <3>1, <3>3, <3>4, <3>5
      <4> HIDE DEF set
      <4>2. set \in Scores
        BY <4>1, ScoresAre
      <4> QED BY <4>2 DEF set
    <3>7. ASSUME NEW x \in Artists PROVE ScoreIn(lbSet', x) = ScoreIn(lbSet, x) + IF a = x THEN d ELSE 0
      <4>1. CASE x \in DOMAIN lbSet'
        BY <3>2, <4>1 DEF ScoreIn
      <4>2. CASE x \notin DOMAIN lbSet'
        BY <3>1, <4>2 DEF ScoreIn
      <4> QED BY <4>1, <4>2
    <3> QED BY <3>6, <3>7
  <2>4. lbBump' \in [Bumpers -> {NoBump} \cup BumpTo]
    BY <1>a, <2>1
  <2>5. BoardTyped'
    <3>1. lbDrifted' \in BOOLEAN
      BY <2>1
    <3> QED BY <1>a, <1>h, <2>1, <2>3, <2>4, <3>1, <1>t
  <2>6. \A x \in Artists : Awaited'[x] = Awaited[x] - IF a = x THEN d ELSE 0
    <3>1. \A c \in Bumpers \ {b} : lbBump'[c] = lbBump[c]
      BY <1>a, <2>1
    <3>2. \A x \in Artists : Adding'[x][b] = 0
      BY <1>a, <2>1, LeaderboardAssumption DEF Adding, NoBump
    <3>3. \A x \in Artists : Awaited'[x] = Awaited[x] + Adding'[x][b] - Adding[x][b]
      BY <1>a, <2>5, <3>1, AwaitedChanges DEF BoardTyped
    <3> QED BY <1>d, <2>2, <3>2, <3>3
  <2>7. Warm' /\ ~lbDrifted' => Artists \subseteq SetAddsUp'
    <3> SUFFICES ASSUME ~lbDrifted', NEW x \in Artists PROVE x \in SetAddsUp'
      OBVIOUS
    <3>1. x \in SetAddsUp
      BY <1>b, <2>1
    <3>2. ScoreIn(lbSet', x) + Awaited'[x] = ScoreIn(lbSet, x) + Awaited[x]
      BY <1>d, <1>k, <2>2, <2>3, <2>6
    <3> QED BY <2>1, <3>1, <3>2 DEF SetAddsUp, Deserved, ScoreIn
  <2>8. CleanRows' = {}
    BY <1>h, <2>1 DEF CleanRows
  <2> QED BY <1>c, <2>5, <2>7, <2>8
<1>6. ASSUME NEW b \in Bumpers, BumpLost(b) PROVE LeaderboardInv'
  <2>1. /\ lbDrifted' = TRUE /\ lbReader' = Overtaken
        /\ lbBump' = [lbBump EXCEPT ![b] = NoBump]
        /\ UNCHANGED <<lbVotes, lbGifts, lbWinner, lbSeason, lbListed, lbSet, lbSeen>>
    BY <1>6 DEF BumpLost
  <2>2. lbBump' \in [Bumpers -> {NoBump} \cup BumpTo]
    BY <1>a, <2>1
  <2>3. BoardTyped'
    BY <1>a, <1>h, <2>1, <2>2, <1>t
  <2>4. CleanRows' = {}
    BY <1>h, <2>1 DEF CleanRows
  <2> QED BY <1>c, <2>1, <2>3, <2>4
<1>7. ASSUME SetExpires PROVE LeaderboardInv'
  <2>1. /\ lbSet' = <<>>
        /\ UNCHANGED <<lbVotes, lbGifts, lbWinner, lbSeason, lbListed, lbBump, lbReader,
                       lbSeen, lbDrifted>>
    BY <1>7 DEF SetExpires
  <2>2. lbSet' \in Scores /\ ~Warm'
    BY <2>1, NoRows DEF Warm
  <2>3. BoardTyped'
    BY <1>a, <2>1, <2>2, <1>t
  <2> QED BY <1>c, <1>i, <2>1, <2>2, <2>3
<1>8. ASSUME NEW r \in Readers, SeesCold(r) PROVE LeaderboardInv'
  <2> DEFINE new == [NoReader EXCEPT !.at = "cold"]
  <2>1. /\ lbReader' = [lbReader EXCEPT ![r] = new]
        /\ UNCHANGED <<lbVotes, lbGifts, lbWinner, lbSeason, lbListed, lbSet, lbBump,
                       lbSeen, lbDrifted>>
    BY <1>8 DEF SeesCold
  <2>2. new \in BoardReader /\ new.at = "cold"
    BY NoRows DEF NoReader, BoardReader
  <2> HIDE DEF new
  <2>3. BoardTyped'
    BY <1>a, <2>1, <2>2, <1>t
  <2>4. \A q \in CleanRows' : q \in CleanRows /\ lbReader'[q] = lbReader[q]
    BY <1>a, <2>1, <2>2 DEF CleanRows
  <2>5. \A q \in CleanRows' : Artists \subseteq RowsAddUp'[q]
    BY <1>b, <2>1, <2>4, AwaitedSame DEF CleanRows, RowsAddUp, ScoreIn, Deserved
  <2> QED BY <1>c, <1>j, <2>1, <2>3, <2>5
<1>9. ASSUME NEW r \in Readers, ReadsSeason(r) PROVE LeaderboardInv'
  <2> DEFINE read == [at |-> "read", rows |-> SeasonRows, winner |-> lbWinner,
                      clean |-> \A b \in Bumpers : lbBump[b] = NoBump]
             new == IF DOMAIN SeasonRows = {} THEN NoReader ELSE read
  <2>1. /\ lbReader' = [lbReader EXCEPT ![r] = new]
        /\ UNCHANGED <<lbVotes, lbGifts, lbWinner, lbSeason, lbListed, lbSet, lbBump,
                       lbSeen, lbDrifted>>
    BY <1>9 DEF ReadsSeason
  <2>2. /\ SeasonRows \in Scores
        /\ \A a \in Artists : ScoreIn(SeasonRows, a) = Deserved(a, lbWinner)
    <3>1. \A a \in Artists : SeasonScore(a, lbWinner) \in Nat /\ SeasonScore(a, lbWinner) = Deserved(a, lbWinner)
      BY <1>d DEF SeasonScore, Deserved
    <3>2. /\ DOMAIN SeasonRows = {x \in Artists : SeasonScore(x, lbWinner) > 0}
          /\ SeasonRows = [a \in DOMAIN SeasonRows |-> SeasonRows[a]]
          /\ \A a \in DOMAIN SeasonRows : SeasonRows[a] = SeasonScore(a, lbWinner)
      BY DEF SeasonRows
    <3>3. \A a \in DOMAIN SeasonRows : a \in Artists /\ SeasonRows[a] \in Nat
      BY <3>1, <3>2
    <3>4. SeasonRows \in Scores
      BY <3>2, <3>3, ScoresAre
    <3>5. \A a \in Artists : ScoreIn(SeasonRows, a) = Deserved(a, lbWinner)
      <4> TAKE a \in Artists
      <4>1. CASE a \in DOMAIN SeasonRows
        BY <3>1, <3>2, <4>1 DEF ScoreIn
      <4>2. CASE a \notin DOMAIN SeasonRows
        <5>1. SeasonScore(a, lbWinner) = 0
          BY <3>1, <3>2, <4>2
        <5> QED BY <3>1, <4>2, <5>1 DEF ScoreIn
      <4> QED BY <4>1, <4>2
    <3> QED BY <3>4, <3>5
  <2>3. read \in BoardReader /\ read.rows = SeasonRows /\ read.winner = lbWinner
        /\ (read.clean => \A b \in Bumpers : lbBump[b] = NoBump)
    BY <1>a, <2>2 DEF BoardReader
  <2> HIDE DEF read
  <2>4. new \in BoardReader /\ (new.at = "read" => new = read)
    BY <1>e, <2>3
  <2> HIDE DEF new
  <2>5. BoardTyped'
    BY <1>a, <2>1, <2>4, <1>t
  <2>6. \A q \in CleanRows' \ {r} : q \in CleanRows /\ lbReader'[q] = lbReader[q]
    BY <1>a, <2>1 DEF CleanRows
  <2>7. ASSUME r \in CleanRows' PROVE Artists \subseteq RowsAddUp'[r]
    <3>1. lbReader'[r] = read /\ read.clean
      BY <1>a, <2>1, <2>4, <2>7 DEF CleanRows
    <3>2. \A a \in Artists : Awaited[a] = 0
      BY <2>3, <3>1, NothingAwaited
    <3>3. \A a \in Artists : ScoreIn(SeasonRows, a) + Awaited[a] = Deserved(a, lbWinner)
      BY <1>d, <2>2, <3>2 DEF Deserved
    <3> HIDE DEF read
    <3> QED BY <2>1, <2>3, <3>1, <3>3, AwaitedSame DEF RowsAddUp, Deserved, ScoreIn
  <2>8. \A q \in CleanRows' : Artists \subseteq RowsAddUp'[q]
    BY <1>b, <2>1, <2>6, <2>7, AwaitedSame DEF CleanRows, RowsAddUp, ScoreIn, Deserved
  <2> QED BY <1>c, <1>j, <2>1, <2>5, <2>8
<1>10. ASSUME NEW r \in Readers, FillsSet(r) PROVE LeaderboardInv'
  <2>1. /\ lbReader[r].at = "read" /\ lbReader' = [lbReader EXCEPT ![r] = NoReader]
        /\ UNCHANGED <<lbVotes, lbGifts, lbWinner, lbSeason, lbListed, lbBump>>
    BY <1>10 DEF FillsSet
  <2>2. lbReader' \in [Readers -> BoardReader]
    BY <1>a, <1>e, <2>1
  <2>3. \A q \in CleanRows' : q \in CleanRows /\ lbReader'[q] = lbReader[q]
    BY <1>a, <1>e, <2>1 DEF CleanRows
  <2>4. \A q \in CleanRows' : Artists \subseteq RowsAddUp'[q]
    BY <1>b, <2>1, <2>3, AwaitedSame DEF CleanRows, RowsAddUp, ScoreIn, Deserved
  <2>5. CASE UNCHANGED <<lbSet, lbSeen, lbDrifted>>
    <3>1. BoardTyped'
      BY <1>a, <2>1, <2>2, <2>5, <1>t
    <3> QED BY <1>c, <1>j, <2>1, <2>4, <2>5, <3>1
  <2>6. CASE /\ lbSet' = WithRows(lbSet, lbReader[r].rows)
             /\ lbSeen' = lbReader[r].winner
             /\ lbDrifted' = ~(FilledAlone(r) /\ lbReader[r].clean)
    <3> DEFINE rows == lbReader[r].rows
               set == lbSet'
    <3>1. rows \in Scores /\ lbReader[r].winner \in Artists \cup {NULL}
      BY <1>a DEF BoardReader
    <3>2. /\ DOMAIN set = DOMAIN lbSet \cup DOMAIN rows
          /\ set = [x \in DOMAIN set |-> set[x]]
          /\ \A x \in DOMAIN set : set[x] = IF x \in DOMAIN rows THEN rows[x] ELSE lbSet[x]
      BY <2>6 DEF WithRows
    <3> HIDE DEF rows, set
    <3>3. set \in Scores
      <4>1. /\ DOMAIN lbSet \subseteq Artists /\ \A x \in DOMAIN lbSet : lbSet[x] \in Nat
            /\ DOMAIN rows \subseteq Artists /\ \A x \in DOMAIN rows : rows[x] \in Nat
        BY <1>a, <3>1, ScoresAre
      <4>2. DOMAIN set \subseteq Artists /\ \A x \in DOMAIN set : set[x] \in Nat
        BY <3>2, <4>1
      <4> QED BY <3>2, <4>2, ScoresAre
    <3>4. BoardTyped'
      <4>1. lbDrifted' \in BOOLEAN
        BY <2>6
      <4> QED BY <1>a, <2>1, <2>2, <2>6, <3>1, <3>3, <4>1, <1>t DEF set
    <3>5. ASSUME ~lbDrifted', NEW x \in Artists PROVE x \in SetAddsUp'
      <4>1. r \in CleanRows /\ (Warm => ~lbDrifted /\ lbSeen = lbReader[r].winner)
        BY <2>1, <2>6, <3>5 DEF CleanRows, FilledAlone
      <4>2. ScoreIn(rows, x) + Awaited[x] = Deserved(x, lbReader[r].winner)
        BY <1>b, <4>1 DEF RowsAddUp, CleanRows, rows
      <4>3. ScoreIn(set, x) + Awaited[x] = Deserved(x, lbReader[r].winner)
        <5>1. CASE x \in DOMAIN rows
          BY <3>2, <4>2, <5>1 DEF ScoreIn
        <5>2. CASE x \notin DOMAIN rows /\ x \in DOMAIN lbSet
          <6>1. ScoreIn(set, x) = ScoreIn(lbSet, x)
            BY <3>2, <5>2 DEF ScoreIn
          <6>2. x \in SetAddsUp /\ lbSeen = lbReader[r].winner
            BY <1>b, <4>1, <5>2 DEF Warm
          <6> QED BY <6>1, <6>2 DEF SetAddsUp
        <5>3. CASE x \notin DOMAIN rows /\ x \notin DOMAIN lbSet
          BY <3>2, <4>2, <5>3 DEF ScoreIn
        <5> QED BY <5>1, <5>2, <5>3
      <4> QED BY <2>1, <2>6, <4>3, AwaitedSame DEF SetAddsUp, Deserved, ScoreIn, set
    <3> QED BY <1>c, <2>4, <3>4, <3>5
  <2> QED BY <1>10, <2>5, <2>6 DEF FillsSet
<1>11. CASE UNCHANGED leaderboardVars
  <2>1. BoardTyped'
    BY <1>11, <1>a, <1>t DEF leaderboardVars
  <2> QED BY <1>11, <1>c, <1>i, <1>j, <2>1 DEF leaderboardVars
<1> QED BY <1>1, <1>2, <1>3, <1>4, <1>5, <1>6, <1>7, <1>8, <1>9, <1>10, <1>11 DEF LeaderboardNext

\* The invariant says the property.
LEMMA LeaderboardSafe == LeaderboardInv => LeaderboardTypeOK /\ DriftByOverlapOnly
<1> SUFFICES ASSUME LeaderboardInv PROVE LeaderboardTypeOK /\ DriftByOverlapOnly
  OBVIOUS
<1>1. LeaderboardTypeOK
  BY DEF LeaderboardInv, BoardTyped
<1>2. \A a \in Artists : ToCome(a) = Awaited[a]
  <2> TAKE a \in Artists
  <2>1. ToCome(a) = SumOn(Adding[a], Bumpers)
    BY Zenon DEF ToCome, SumOn
  <2> QED BY <2>1 DEF Awaited
<1>3. ASSUME Warm, ~lbDrifted, NEW a \in Artists
      PROVE  InSet(a) + ToCome(a) = SeasonScore(a, lbSeen)
  <2>1. a \in SetAddsUp
    BY <1>3 DEF LeaderboardInv
  <2> QED BY <1>2, <2>1 DEF SetAddsUp, ScoreIn, Deserved, InSet, SeasonScore
<1> QED BY <1>1, <1>3 DEF DriftByOverlapOnly

-----------------------------------------------------------------------------
(* Revenues, as they are shown.                                            *)

\* What an INTEGER column keeps is within half a credit of what was booked.
LEMMA ColumnRounds ==
    ASSUME NEW share \in Nat
    PROVE  /\ InColumn(share) \in Nat
           /\ 2 * InColumn(share) - 2 * share \in -Credit .. Credit
           /\ share = 0 => InColumn(share) = 0
<1> DEFINE x == 2 * share + Credit
           w == 2 * Credit
           q == x \div w
<1>1. Credit \in Nat /\ Credit > 0
  BY ReportsAssumption
<1>2. q \in Nat /\ w * q <= x /\ x < w * q + w
  <2>1. x \in Nat /\ w \in Int /\ w > 0
    BY <1>1
  <2> HIDE DEF x, w
  <2> QED BY <2>1, DivFacts
<1>3. InColumn(share) = Credit * q
  BY DEF InColumn
<1> HIDE DEF q
<1>4. w * q = 2 * (Credit * q) /\ Credit * q \in Nat
  BY <1>1, <1>2
<1>5. 2 * InColumn(share) - 2 * share \in -Credit .. Credit
  BY <1>1, <1>2, <1>3, <1>4
<1>6. ASSUME share = 0 PROVE InColumn(share) = 0
  <2>1. w * q <= Credit
    BY <1>1, <1>2, <1>6
  <2>2. w * q < w * 1
    BY <1>1, <1>2, <2>1
  <2>3. q < 1
    <3>1. w \in Int /\ w > 0
      BY <1>1
    <3> HIDE DEF w
    <3> QED BY <1>2, <2>2, <3>1, MulCancel
  <2>4. q = 0
    BY <1>2, <2>3
  <2> QED BY <1>1, <1>3, <2>4
<1> QED BY <1>3, <1>4, <1>5, <1>6

\* What a row keeps of shares are shares, for the same users.
LEMMA RowOfShares ==
    ASSUME NEW d \in Shares
    PROVE  /\ InRow(d) \in Shares
           /\ InRow(d).artist1 = d.artist1 /\ InRow(d).artist2 = d.artist2
           /\ InRow(d).manager = d.manager
           /\ InRow(d).platform = InColumn(d.platform)
           /\ InRow(d).credits1 = InColumn(d.credits1)
           /\ InRow(d).credits2 = InColumn(d.credits2)
           /\ InRow(d).managerCredits = InColumn(d.managerCredits)
<1>1. /\ d.platform \in Nat /\ d.credits1 \in Nat /\ d.credits2 \in Nat /\ d.managerCredits \in Nat
      /\ d.artist1 \in Payee /\ d.artist2 \in Payee /\ d.manager \in Payee
  BY DEF Shares
<1>2. InRow(d) = [platform |-> InColumn(d.platform), artist1 |-> d.artist1,
                  credits1 |-> InColumn(d.credits1), artist2 |-> d.artist2,
                  credits2 |-> InColumn(d.credits2), manager |-> d.manager,
                  managerCredits |-> InColumn(d.managerCredits)]
  <2>1. DOMAIN d = {"platform", "artist1", "credits1", "artist2", "credits2", "manager",
                    "managerCredits"}
    BY DEF Shares
  <2>2. /\ InRow(d)["platform"] = InColumn(d.platform) /\ InRow(d)["artist1"] = d.artist1
        /\ InRow(d)["credits1"] = InColumn(d.credits1) /\ InRow(d)["artist2"] = d.artist2
        /\ InRow(d)["credits2"] = InColumn(d.credits2) /\ InRow(d)["manager"] = d.manager
        /\ InRow(d)["managerCredits"] = InColumn(d.managerCredits)
    BY <2>1 DEF InRow
  <2> QED BY <2>1, <2>2 DEF InRow
<1>3. /\ InColumn(d.platform) \in Nat /\ InColumn(d.credits1) \in Nat
      /\ InColumn(d.credits2) \in Nat /\ InColumn(d.managerCredits) \in Nat
  BY <1>1, ColumnRounds
<1> QED BY <1>1, <1>2, <1>3 DEF Shares

\* The roles of u in a distribution, and how many they are.
RolesOf(shares, u) == {role \in {"artist1", "artist2", "manager"} : shares[role] = u}

\* The roles of a user in a row, one by one.
LEMMA RolesCounted ==
    ASSUME NEW d \in Shares, NEW u
    PROVE  /\ IsFiniteSet(RolesOf(d, u))
           /\ Cardinality(RolesOf(d, u))
                = (IF d.artist1 = u THEN 1 ELSE 0) + (IF d.artist2 = u THEN 1 ELSE 0)
                  + (IF d.manager = u THEN 1 ELSE 0)
<1> DEFINE one == IF d.artist1 = u THEN {"artist1"} ELSE {}
           two == IF d.artist2 = u THEN one \cup {"artist2"} ELSE one
           all == IF d.manager = u THEN two \cup {"manager"} ELSE two
<1>1. RolesOf(d, u) = all
  BY DEF RolesOf
<1>2. IsFiniteSet(one) /\ Cardinality(one) = IF d.artist1 = u THEN 1 ELSE 0
  BY FS_EmptySet, FS_Singleton
<1>3. "artist2" \notin one
  OBVIOUS
<1>4. "manager" \notin two
  OBVIOUS
<1> HIDE DEF one
<1>5. IsFiniteSet(two) /\ Cardinality(two) = Cardinality(one) + IF d.artist2 = u THEN 1 ELSE 0
  BY <1>2, <1>3, FS_AddElement
<1> HIDE DEF two
<1>6. IsFiniteSet(all) /\ Cardinality(all) = Cardinality(two) + IF d.manager = u THEN 1 ELSE 0
  BY <1>2, <1>4, <1>5, FS_AddElement
<1> HIDE DEF all
<1> QED BY <1>1, <1>2, <1>5, <1>6

\* What two things are apart adds up.
LEMMA NearAdds ==
    ASSUME NEW a \in Int, NEW b \in Int, NEW k \in Nat, Near(a, b, k),
           NEW x \in Int, NEW y \in Int, NEW j \in Nat, Near(x, y, j)
    PROVE  Near(a + x, b + y, k + j)
<1>1. Credit \in Nat
  BY ReportsAssumption
<1>2. PICK ck \in Nat : ck = Credit * k
  BY <1>1
<1>3. PICK cj \in Nat : cj = Credit * j
  BY <1>1
<1>4. Credit * (k + j) = ck + cj
  BY <1>1, <1>2, <1>3
<1>5. 2 * a - 2 * b \in -ck .. ck /\ 2 * x - 2 * y \in -cj .. cj
  BY <1>2, <1>3 DEF Near
<1>6. 2 * (a + x) - 2 * (b + y) \in -(ck + cj) .. ck + cj
  BY <1>5
<1> QED BY <1>4, <1>6 DEF Near

\* A row says what its shares are but for half a credit in each role.
LEMMA RowIsNear ==
    ASSUME NEW d \in Shares, NEW u
    PROVE  /\ Received(d, u) \in Nat /\ Received(InRow(d), u) \in Nat
           /\ Cardinality(RolesOf(InRow(d), u)) \in Nat
           /\ Near(Received(InRow(d), u), Received(d, u), Cardinality(RolesOf(InRow(d), u)))
<1>1. /\ d.platform \in Nat /\ d.credits1 \in Nat /\ d.credits2 \in Nat /\ d.managerCredits \in Nat
  BY DEF Shares
<1>2. /\ InColumn(d.credits1) \in Nat /\ 2 * InColumn(d.credits1) - 2 * d.credits1 \in -Credit .. Credit
      /\ InColumn(d.credits2) \in Nat /\ 2 * InColumn(d.credits2) - 2 * d.credits2 \in -Credit .. Credit
      /\ InColumn(d.managerCredits) \in Nat
      /\ 2 * InColumn(d.managerCredits) - 2 * d.managerCredits \in -Credit .. Credit
  BY <1>1, ColumnRounds
<1> DEFINE r == InRow(d)
           one == IF d.artist1 = u THEN 1 ELSE 0
           two == IF d.artist2 = u THEN 1 ELSE 0
           three == IF d.manager = u THEN 1 ELSE 0
<1>3. /\ r \in Shares /\ r.artist1 = d.artist1 /\ r.artist2 = d.artist2 /\ r.manager = d.manager
      /\ r.credits1 = InColumn(d.credits1) /\ r.credits2 = InColumn(d.credits2)
      /\ r.managerCredits = InColumn(d.managerCredits)
  BY RowOfShares
<1> HIDE DEF r
<1>4. Cardinality(RolesOf(r, u)) = one + two + three
  BY <1>3, RolesCounted
<1>5. /\ Received(r, u) = (IF d.artist1 = u THEN InColumn(d.credits1) ELSE 0)
                          + (IF d.artist2 = u THEN InColumn(d.credits2) ELSE 0)
                          + (IF d.manager = u THEN InColumn(d.managerCredits) ELSE 0)
      /\ Received(d, u) = (IF d.artist1 = u THEN d.credits1 ELSE 0)
                          + (IF d.artist2 = u THEN d.credits2 ELSE 0)
                          + (IF d.manager = u THEN d.managerCredits ELSE 0)
  BY <1>3 DEF Received
<1>6. ASSUME NEW column \in Nat, NEW share \in Nat, NEW here \in BOOLEAN,
             2 * column - 2 * share \in -Credit .. Credit
      PROVE  /\ (IF here THEN column ELSE 0) \in Nat /\ (IF here THEN share ELSE 0) \in Nat
             /\ (IF here THEN 1 ELSE 0) \in Nat
             /\ Near(IF here THEN column ELSE 0, IF here THEN share ELSE 0, IF here THEN 1 ELSE 0)
  <2>1. Credit * 0 = 0 /\ Credit * 1 = Credit /\ Credit \in Nat
    BY ReportsAssumption
  <2>2. CASE here
    BY <1>6, <2>1, <2>2 DEF Near
  <2>3. CASE ~here
    BY <1>6, <2>1, <2>3 DEF Near
  <2> QED BY <2>2, <2>3
<1> DEFINE in1 == IF d.artist1 = u THEN InColumn(d.credits1) ELSE 0
           in2 == IF d.artist2 = u THEN InColumn(d.credits2) ELSE 0
           in3 == IF d.manager = u THEN InColumn(d.managerCredits) ELSE 0
           of1 == IF d.artist1 = u THEN d.credits1 ELSE 0
           of2 == IF d.artist2 = u THEN d.credits2 ELSE 0
           of3 == IF d.manager = u THEN d.managerCredits ELSE 0
<1>7. in1 \in Nat /\ of1 \in Nat /\ one \in Nat /\ Near(in1, of1, one)
  BY <1>1, <1>2, <1>6
<1>8. in2 \in Nat /\ of2 \in Nat /\ two \in Nat /\ Near(in2, of2, two)
  BY <1>1, <1>2, <1>6
<1>9. in3 \in Nat /\ of3 \in Nat /\ three \in Nat /\ Near(in3, of3, three)
  BY <1>1, <1>2, <1>6
<1>10. Received(r, u) = in1 + in2 + in3 /\ Received(d, u) = of1 + of2 + of3
  BY <1>5
<1> HIDE DEF in1, in2, in3, of1, of2, of3, one, two, three
<1>11. Near(in1 + in2, of1 + of2, one + two)
  BY <1>7, <1>8, NearAdds
<1>12. Near((in1 + in2) + in3, (of1 + of2) + of3, (one + two) + three)
  BY <1>7, <1>8, <1>9, <1>11, NearAdds
<1> QED BY <1>4, <1>7, <1>8, <1>9, <1>10, <1>12 DEF r

\* A distribution is shares, and books at most a cent more than the charge: what it is of
\* a gift or a vote, exactly, between the platform and the one it is for.
LEMMA DistributionIsShares ==
    ASSUME NEW source \in Sources, NEW total \in Amounts,
           total > 0, SectionKey(source) \in DOMAIN Sections,
           NEW artist1 \in Payee, NEW artist2 \in Payee, NEW manager \in Payee, NEW winner
    PROVE  LET d == Distribute(source, total, artist1, artist2, manager, winner)
           IN  /\ d \in Shares /\ Booked(d) =< total + 1
               /\ source \in SimpleSources /\ artist1 # NoUser =>
                    /\ Booked(d) = total /\ d.credits2 = 0
                    /\ d.credits1 = 0 \/ d.managerCredits = 0
<1> DEFINE d == Distribute(source, total, artist1, artist2, manager, winner)
           pct == Sections[SectionKey(source)]
           cut == Share(total, pct.platform)
<1>1. /\ total \in Nat /\ source \in SimpleSources \cup SponsorSources \cup EventSources
      /\ \A key \in DOMAIN Sections : SharesWithinWhole(Sections[key])
      /\ ~(total <= 0)
  BY ReportsAssumption
<1>2. Amounted(d) /\ Booked(d) <= total + 1
  BY <1>1, DistributionWithinACent
<1>3. NoUser \in Payee
  BY DEF Payee
<1>4. cut \in Nat /\ cut <= total
  <2>1. SharesWithinWhole(pct)
    BY <1>1
  <2>2. pct.platform \in Nat /\ pct.platform <= Whole
    BY <2>1, WholeAssumption DEF SharesWithinWhole, Section
  <2> HIDE DEF pct
  <2> QED BY <1>1, <2>2, ShareWithin
<1>5. CASE source \in SimpleSources
  <2>1. d = SimpleSplit(total, cut, artist1)
    BY <1>1, <1>5 DEF Distribute
  <2> HIDE DEF d, cut
  <2>2. CASE artist1 = NoUser
    <3>1. d = [platform |-> cut, artist1 |-> NoUser, credits1 |-> 0, artist2 |-> NoUser,
               credits2 |-> 0, manager |-> NoUser, managerCredits |-> 0]
      BY <2>1, <2>2 DEF SimpleSplit, Undistributed
    <3> QED BY <1>2, <1>3, <1>4, <2>2, <3>1 DEF Shares, d
  <2>3. CASE artist1 # NoUser /\ HasRole(artist1)
    <3>1. d = [platform |-> cut, artist1 |-> NoUser, credits1 |-> 0, artist2 |-> NoUser,
               credits2 |-> 0, manager |-> artist1, managerCredits |-> total - cut]
      BY <2>1, <2>3 DEF SimpleSplit, Undistributed
    <3>2. d \in Shares
      BY <1>1, <1>3, <1>4, <3>1 DEF Shares
    <3>3. Booked(d) = total /\ d.credits2 = 0 /\ d.credits1 = 0
      BY <1>1, <1>4, <3>1 DEF Booked
    <3> QED BY <1>2, <3>2, <3>3 DEF d
  <2>4. CASE artist1 # NoUser /\ ~HasRole(artist1)
    <3>1. d = [platform |-> cut, artist1 |-> artist1, credits1 |-> total - cut,
               artist2 |-> NoUser, credits2 |-> 0, manager |-> NoUser, managerCredits |-> 0]
      BY <2>1, <2>4 DEF SimpleSplit, Undistributed
    <3>2. d \in Shares
      BY <1>1, <1>3, <1>4, <3>1 DEF Shares
    <3>3. Booked(d) = total /\ d.credits2 = 0 /\ d.managerCredits = 0
      BY <1>1, <1>4, <3>1 DEF Booked
    <3> QED BY <1>2, <3>2, <3>3 DEF d
  <2> QED BY <2>2, <2>3, <2>4
<1>6. CASE source \notin SimpleSources /\ source \in SponsorSources /\ ~pct.enabled
  <2>1. d = [platform |-> total, artist1 |-> NoUser, credits1 |-> 0, artist2 |-> NoUser,
             credits2 |-> 0, manager |-> NoUser, managerCredits |-> 0]
    BY <1>1, <1>6 DEF Distribute, Undistributed
  <2> HIDE DEF d
  <2> QED BY <1>1, <1>2, <1>3, <1>6, <2>1 DEF Shares, d
<1>7. CASE source \notin SimpleSources /\ ~(source \in SponsorSources /\ ~pct.enabled)
  <2>1. d = EventSplit(total, pct, artist1, artist2, manager, winner)
    BY <1>1, <1>7 DEF Distribute
  <2>2. PICK p, c1, c2, mc :
          d = [platform |-> p, artist1 |-> artist1, credits1 |-> c1, artist2 |-> artist2,
               credits2 |-> c2, manager |-> IF mc > 0 THEN manager ELSE NoUser,
               managerCredits |-> mc]
    BY <2>1, Zenon DEF EventSplit
  <2> HIDE DEF d
  <2>3. p \in Nat /\ c1 \in Nat /\ c2 \in Nat /\ mc \in Nat
    BY <1>2, <2>2 DEF Amounted
  <2>4. d \in Shares
    BY <1>3, <2>2, <2>3 DEF Shares
  <2> QED BY <1>2, <1>7, <2>4 DEF d
<1> QED BY <1>5, <1>6, <1>7

\* What is shown of the parts of a distribution, next to its total.
RowAddsUp(row) ==
    /\ 2 * Booked(row.shares) =< 2 * (row.total + 1) + 4 * Credit
    /\ row.source \in SimpleSources => Near(Booked(row.shares), row.total, 2)

\* A row that books its total, or a cent more, adds up.
LEMMA RowsAddUpToTotals ==
    ASSUME NEW row \in RevenueRow, NEW d \in Shares, row.shares = InRow(d),
           Booked(d) =< row.total + 1,
           row.source \in SimpleSources => /\ Booked(d) = row.total /\ d.credits2 = 0
                                           /\ d.credits1 = 0 \/ d.managerCredits = 0
    PROVE  RowAddsUp(row)
<1>1. /\ d.platform \in Nat /\ d.credits1 \in Nat /\ d.credits2 \in Nat /\ d.managerCredits \in Nat
  BY DEF Shares
<1>2. PICK p \in Nat : /\ p = InColumn(d.platform)
                       /\ 2 * p - 2 * d.platform \in -Credit .. Credit
  BY <1>1, ColumnRounds
<1>3. PICK c1 \in Nat : /\ c1 = InColumn(d.credits1)
                        /\ 2 * c1 - 2 * d.credits1 \in -Credit .. Credit
                        /\ d.credits1 = 0 => c1 = 0
  BY <1>1, ColumnRounds
<1>4. PICK c2 \in Nat : /\ c2 = InColumn(d.credits2)
                        /\ 2 * c2 - 2 * d.credits2 \in -Credit .. Credit
                        /\ d.credits2 = 0 => c2 = 0
  BY <1>1, ColumnRounds
<1>5. PICK mc \in Nat : /\ mc = InColumn(d.managerCredits)
                        /\ 2 * mc - 2 * d.managerCredits \in -Credit .. Credit
                        /\ d.managerCredits = 0 => mc = 0
  BY <1>1, ColumnRounds
<1>6. Booked(row.shares) = p + c1 + c2 + mc
  BY <1>2, <1>3, <1>4, <1>5, RowOfShares DEF Booked
<1>7. Booked(d) = d.platform + d.credits1 + d.credits2 + d.managerCredits
  BY DEF Booked
<1>8. row.total \in Nat /\ Credit \in Nat
  BY ReportsAssumption DEF RevenueRow
<1>9. 2 * Booked(row.shares) =< 2 * (row.total + 1) + 4 * Credit
  BY <1>1, <1>2, <1>3, <1>4, <1>5, <1>6, <1>7, <1>8
<1>10. ASSUME row.source \in SimpleSources PROVE Near(Booked(row.shares), row.total, 2)
  <2>1. Credit * 2 = 2 * Credit
    BY <1>8
  <2>2. 2 * Booked(row.shares) - 2 * row.total \in -(2 * Credit) .. 2 * Credit
    <3>1. Booked(d) = row.total /\ c2 = 0 /\ d.credits2 = 0
      BY <1>4, <1>10
    <3>2. CASE d.credits1 = 0
      <4>1. Booked(row.shares) = p + mc /\ row.total = d.platform + d.managerCredits
        <5>1. c1 = 0 /\ c2 = 0 /\ d.credits1 = 0 /\ d.credits2 = 0
          BY <1>3, <3>1, <3>2
        <5>2. Booked(row.shares) = p + mc
          BY <1>6, <5>1
        <5>3. Booked(d) = d.platform + d.managerCredits
          BY <1>1, <1>7, <5>1
        <5> QED BY <3>1, <5>2, <5>3
      <4> QED BY <1>1, <1>2, <1>5, <1>8, <4>1
    <3>3. CASE d.managerCredits = 0
      <4>1. Booked(row.shares) = p + c1 /\ row.total = d.platform + d.credits1
        <5>1. mc = 0 /\ c2 = 0 /\ d.managerCredits = 0 /\ d.credits2 = 0
          BY <1>5, <3>1, <3>3
        <5>2. Booked(row.shares) = p + c1
          BY <1>6, <5>1
        <5>3. Booked(d) = d.platform + d.credits1
          BY <1>1, <1>7, <5>1
        <5> QED BY <3>1, <5>2, <5>3
      <4> QED BY <1>1, <1>2, <1>3, <1>8, <4>1
    <3> QED BY <1>10, <3>2, <3>3
  <2> QED BY <2>1, <2>2 DEF Near
<1> QED BY <1>9, <1>10 DEF RowAddsUp

-----------------------------------------------------------------------------
\* With one more row, its value is added to the sum.
LEMMA SumWithRow ==
    ASSUME NEW rows \in Seq(RevenueRow), NEW row \in RevenueRow,
           NEW f, \A i \in DOMAIN rows : f[i] \in Int,
           NEW e, \A i \in DOMAIN rows : e[i] = f[i], e[Len(rows) + 1] \in Int
    PROVE  /\ IsFiniteSet(DOMAIN rows)
           /\ SumOn(e, DOMAIN Append(rows, row)) = SumOn(f, DOMAIN rows) + e[Len(rows) + 1]
<1> DEFINE n == Len(rows) + 1
           D == DOMAIN rows
           all == DOMAIN Append(rows, row)
<1>1. Len(rows) \in Nat /\ D = 1 .. Len(rows)
  OBVIOUS
<1>2. all = 1 .. n
  BY <1>1
<1>3. IsFiniteSet(D) /\ IsFiniteSet(all)
  BY <1>1, <1>2, FS_Interval
<1>4. n \in all /\ n \notin D /\ all \ {n} = D
  BY <1>1, <1>2
<1>5. \A i \in all : e[i] \in Int
  BY <1>1, <1>2
<1> HIDE DEF D, all, n
<1>6. SumOn(e, all) = e[n] + SumOn(e, D)
  BY <1>3, <1>4, <1>5, SumSteps
<1>7. SumOn(e, D) = SumOn(f, D)
  BY <1>3, SumSame DEF D
<1>8. SumOn(f, D) \in Int
  BY <1>3, SumSteps DEF D
<1>9. e[n] \in Int
  BY <1>4, <1>5
<1> QED BY <1>3, <1>6, <1>7, <1>8, <1>9 DEF D, all, n

\* What the rows say each user got, and in how many roles.
RowsGive(rows) ==
    [u \in Payees |-> SumOn([i \in DOMAIN rows |-> Received(rows[i].shares, u)], DOMAIN rows)]
RowsName(rows) ==
    [u \in Payees |->
       SumOn([i \in DOMAIN rows |-> Cardinality(RolesOf(rows[i].shares, u))], DOMAIN rows)]

\* A row that is added gives and names what it says, and the others as before.
LEMMA RowsNameAndGive ==
    ASSUME NEW rows \in Seq(RevenueRow), NEW row \in RevenueRow, NEW u \in Payees
    PROVE  /\ RowsGive(rows)[u] \in Nat /\ RowsName(rows)[u] \in Nat
           /\ RowsGive(Append(rows, row))[u] = RowsGive(rows)[u] + Received(row.shares, u)
           /\ RowsName(Append(rows, row))[u]
                = RowsName(rows)[u] + Cardinality(RolesOf(row.shares, u))
<1> DEFINE more == Append(rows, row)
           n == Len(rows) + 1
           f == [i \in DOMAIN rows |-> Received(rows[i].shares, u)]
           e == [i \in DOMAIN more |-> Received(more[i].shares, u)]
           g == [i \in DOMAIN rows |-> Cardinality(RolesOf(rows[i].shares, u))]
           h == [i \in DOMAIN more |-> Cardinality(RolesOf(more[i].shares, u))]
<1>1. \A r \in RevenueRow : Received(r.shares, u) \in Nat /\ Cardinality(RolesOf(r.shares, u)) \in Nat
  <2> TAKE r \in RevenueRow
  <2>1. r.shares \in Shares
    BY DEF RevenueRow
  <2>2. Cardinality(RolesOf(r.shares, u)) \in Nat
    BY <2>1, RolesCounted, FS_CardinalityType
  <2>3. Received(r.shares, u) \in Nat
    BY <2>1 DEF Shares, Received
  <2> QED BY <2>2, <2>3
<1>2. /\ DOMAIN more = 1 .. n /\ DOMAIN rows = 1 .. Len(rows) /\ Len(rows) \in Nat
      /\ more[n] = row /\ \A i \in DOMAIN rows : more[i] = rows[i] /\ rows[i] \in RevenueRow
  OBVIOUS
<1>3. /\ \A i \in DOMAIN rows : f[i] \in Nat /\ e[i] = f[i] /\ g[i] \in Nat /\ h[i] = g[i]
      /\ e[n] = Received(row.shares, u) /\ h[n] = Cardinality(RolesOf(row.shares, u))
  <2>1. n \in DOMAIN more /\ \A i \in DOMAIN rows : i \in DOMAIN more
    BY <1>2
  <2>2. e[n] = Received(row.shares, u) /\ h[n] = Cardinality(RolesOf(row.shares, u))
    BY <1>2, <2>1
  <2>3. ASSUME NEW i \in DOMAIN rows
        PROVE  f[i] \in Nat /\ e[i] = f[i] /\ g[i] \in Nat /\ h[i] = g[i]
    <3>1. /\ f[i] = Received(rows[i].shares, u) /\ e[i] = Received(more[i].shares, u)
          /\ g[i] = Cardinality(RolesOf(rows[i].shares, u))
          /\ h[i] = Cardinality(RolesOf(more[i].shares, u))
      BY <2>1
    <3> HIDE DEF f, e, g, h, more, n
    <3> QED BY <1>1, <1>2, <3>1
  <2> QED BY <2>2, <2>3
<1>4. /\ RowsGive(rows)[u] = SumOn(f, DOMAIN rows) /\ RowsGive(more)[u] = SumOn(e, DOMAIN more)
      /\ RowsName(rows)[u] = SumOn(g, DOMAIN rows) /\ RowsName(more)[u] = SumOn(h, DOMAIN more)
  BY DEF RowsGive, RowsName
<1>5. e[n] \in Int /\ h[n] \in Int
  BY <1>1, <1>3
<1> HIDE DEF f, e, g, h
<1>6. IsFiniteSet(DOMAIN rows) /\ SumOn(e, DOMAIN more) = SumOn(f, DOMAIN rows) + e[n]
  BY <1>3, <1>5, SumWithRow
<1>7. SumOn(h, DOMAIN more) = SumOn(g, DOMAIN rows) + h[n]
  BY <1>3, <1>5, SumWithRow
<1>8. SumOn(f, DOMAIN rows) \in Nat /\ SumOn(g, DOMAIN rows) \in Nat
  BY <1>3, <1>6, SumIsNoLess
<1> QED BY <1>3, <1>4, <1>6, <1>7, <1>8

\* Rows are of shares that add up, and what a user got is what they say but for the rounding
\* in each of his roles.
RevenueInv ==
    /\ RevenueTypeOK
    /\ \A i \in DOMAIN rvRows : RowAddsUp(rvRows[i])
    /\ \A u \in Payees : Near(RowsGive(rvRows)[u], rvGot[u], RowsName(rvRows)[u])

\* The initial states satisfy RevenueInv.
LEMMA RevenueInitial == RevenueInit => RevenueInv
<1> SUFFICES ASSUME RevenueInit PROVE RevenueInv
  OBVIOUS
<1>1. rvRows = <<>> /\ rvGot = [u \in Payees |-> 0]
  BY DEF RevenueInit
<1>2. RevenueTypeOK
  BY <1>1, ReportsAssumption DEF RevenueTypeOK
<1>3. ASSUME NEW u \in Payees
      PROVE  Near(RowsGive(rvRows)[u], rvGot[u], RowsName(rvRows)[u])
  <2>1. DOMAIN rvRows = {}
    BY <1>1
  <2>2. \A f : SumOn(f, {}) = 0
    BY FS_EmptySet, SumOfNothing
  <2>3. RowsGive(rvRows)[u] = 0 /\ RowsName(rvRows)[u] = 0
    BY <2>1, <2>2 DEF RowsGive, RowsName
  <2>4. Credit * 0 = 0
    BY ReportsAssumption
  <2> QED BY <1>1, <2>3, <2>4 DEF Near
<1> QED BY <1>1, <1>2, <1>3 DEF RevenueInv

\* Every step of RevenueNext keeps RevenueInv.
LEMMA RevenueStep == RevenueInv /\ [RevenueNext]_revenueVars => RevenueInv'
<1> SUFFICES ASSUME RevenueInv, [RevenueNext]_revenueVars PROVE RevenueInv'
  OBVIOUS
<1>1. CASE UNCHANGED revenueVars
  BY <1>1 DEF revenueVars, RevenueInv, RevenueTypeOK
<1>2. ASSUME NEW event \in Events, NEW source \in Sources, NEW total \in Amounts,
             NEW artist1 \in Payee, NEW artist2 \in Payee, NEW manager \in Payee,
             NEW winner \in Payee, source \in SimpleSources => artist1 # NoUser,
             RevenueComes(event, source, total, artist1, artist2, manager, winner)
      PROVE  RevenueInv'
  <2>1. PICK d : d = Distribute(source, total, artist1, artist2, manager, winner)
    OBVIOUS
  <2>2. PICK row : row = [event |-> event, source |-> source, total |-> total, shares |-> InRow(d)]
    OBVIOUS
  <2>3. /\ Len(rvRows) < MaxRevenues /\ total > 0 /\ SectionKey(source) \in DOMAIN Sections
        /\ rvRows' = Append(rvRows, row)
        /\ rvGot' = [u \in Payees |-> rvGot[u] + Received(d, u)]
    BY <1>2, <2>1, <2>2 DEF RevenueComes
  <2>4. /\ d \in Shares /\ Booked(d) =< total + 1
        /\ source \in SimpleSources => /\ Booked(d) = total /\ d.credits2 = 0
                                       /\ d.credits1 = 0 \/ d.managerCredits = 0
    BY <1>2, <2>1, <2>3, DistributionIsShares
  <2>5. /\ row \in RevenueRow /\ row.total = total /\ row.source = source
        /\ row.shares = InRow(d)
    BY <2>2, <2>4, RowOfShares DEF RevenueRow
  <2>6. /\ rvRows \in Seq(RevenueRow) /\ rvGot \in [Payees -> Nat]
        /\ Len(rvRows) \in Nat /\ DOMAIN rvRows = 1 .. Len(rvRows)
    BY DEF RevenueInv, RevenueTypeOK
  <2>7. \A u \in Payees :
          /\ Received(d, u) \in Nat /\ Received(row.shares, u) \in Nat
          /\ Cardinality(RolesOf(row.shares, u)) \in Nat
          /\ Near(Received(row.shares, u), Received(d, u), Cardinality(RolesOf(row.shares, u)))
    BY <2>4, <2>5, RowIsNear
  <2>8. RevenueTypeOK'
    <3>1. rvRows' \in Seq(RevenueRow) /\ Len(rvRows') = Len(rvRows) + 1
      BY <2>3, <2>5, <2>6
    <3>2. rvGot' \in [Payees -> Nat]
      BY <2>3, <2>6, <2>7
    <3>3. MaxRevenues \in Nat
      BY ReportsAssumption
    <3> QED BY <2>3, <2>6, <3>1, <3>2, <3>3 DEF RevenueTypeOK
  <2>9. \A i \in DOMAIN rvRows' : RowAddsUp(rvRows'[i])
    <3>1. RowAddsUp(row)
      BY <2>4, <2>5, RowsAddUpToTotals
    <3>2. /\ DOMAIN rvRows' = DOMAIN rvRows \cup {Len(rvRows) + 1}
          /\ rvRows'[Len(rvRows) + 1] = row
          /\ \A i \in DOMAIN rvRows : rvRows'[i] = rvRows[i]
      BY <2>3, <2>5, <2>6, AppendProperties
    <3> QED BY <3>1, <3>2 DEF RevenueInv
  <2>10. ASSUME NEW u \in Payees
         PROVE  Near(RowsGive(rvRows')[u], rvGot'[u], RowsName(rvRows')[u])
    <3>1. /\ RowsGive(rvRows)[u] \in Nat /\ RowsName(rvRows)[u] \in Nat
          /\ RowsGive(rvRows')[u] = RowsGive(rvRows)[u] + Received(row.shares, u)
          /\ RowsName(rvRows')[u] = RowsName(rvRows)[u] + Cardinality(RolesOf(row.shares, u))
      BY <2>3, <2>5, <2>6, RowsNameAndGive
    <3>2. rvGot'[u] = rvGot[u] + Received(d, u) /\ rvGot[u] \in Nat
      BY <2>3, <2>6
    <3>3. Near(RowsGive(rvRows)[u], rvGot[u], RowsName(rvRows)[u])
      BY DEF RevenueInv
    <3>4. Near(RowsGive(rvRows)[u] + Received(row.shares, u), rvGot[u] + Received(d, u),
               RowsName(rvRows)[u] + Cardinality(RolesOf(row.shares, u)))
      <4>1. PICK a, b, k, x, y, j :
              /\ a = RowsGive(rvRows)[u] /\ b = rvGot[u] /\ k = RowsName(rvRows)[u]
              /\ x = Received(row.shares, u) /\ y = Received(d, u)
              /\ j = Cardinality(RolesOf(row.shares, u))
        OBVIOUS
      <4>2. /\ a \in Int /\ b \in Int /\ k \in Nat /\ Near(a, b, k)
            /\ x \in Int /\ y \in Int /\ j \in Nat /\ Near(x, y, j)
        BY <2>7, <3>1, <3>2, <3>3, <4>1
      <4> QED BY <4>1, <4>2, NearAdds
    <3> QED BY <3>1, <3>2, <3>4
  <2> QED BY <2>8, <2>9, <2>10 DEF RevenueInv
<1> QED BY <1>1, <1>2 DEF RevenueNext

-----------------------------------------------------------------------------
(* What is shown: sums over the rows.                                      *)

\* The sums the services make are those of Sums.
LEMMA SumsAreSums == \A f, S : SumOf(f, S) = SumOn(f, S)
BY Zenon DEF SumOf, SumOn

My(u) == [i \in DOMAIN rvRows |-> MyCredits(u, rvRows[i].shares)]
Earns(u) == [i \in DOMAIN rvRows |-> Received(rvRows[i].shares, u)]
Named(u) == [i \in DOMAIN rvRows |-> Cardinality(RolesOf(rvRows[i].shares, u))]

\* Of a distribution one is shown what he got, unless he has two roles in it.
LEMMA MineIsGot ==
    ASSUME NEW d \in Shares, NEW u
    PROVE  /\ MyCredits(u, d) \in Nat /\ Received(d, u) \in Nat
           /\ Cardinality(RolesOf(d, u)) \in Nat
           /\ MyCredits(u, d) =< Received(d, u)
           /\ RolesOf(d, u) = {} => /\ MyCredits(u, d) = 0 /\ Received(d, u) = 0
                                    /\ Cardinality(RolesOf(d, u)) = 0
           /\ RolesOf(d, u) # {} => Cardinality(RolesOf(d, u)) >= 1
           /\ Cardinality(RolesOf(d, u)) = 1 => MyCredits(u, d) = Received(d, u)
<1>1. /\ d.credits1 \in Nat /\ d.credits2 \in Nat /\ d.managerCredits \in Nat
  BY DEF Shares
<1>2. Cardinality(RolesOf(d, u))
        = (IF d.artist1 = u THEN 1 ELSE 0) + (IF d.artist2 = u THEN 1 ELSE 0)
          + (IF d.manager = u THEN 1 ELSE 0)
  BY RolesCounted
<1>3. RolesOf(d, u) = {} <=> d.artist1 # u /\ d.artist2 # u /\ d.manager # u
  BY DEF RolesOf
<1> QED BY <1>1, <1>2, <1>3 DEF MyCredits, Received

\* The rows and their users, as the sums take them.
LEMMA RowsAreFinite ==
    ASSUME RevenueTypeOK
    PROVE  /\ IsFiniteSet(DOMAIN rvRows)
           /\ \A i \in DOMAIN rvRows : /\ rvRows[i] \in RevenueRow /\ rvRows[i].shares \in Shares
                                       /\ rvRows[i].event \in Events /\ rvRows[i].source \in Sources
           /\ \A s \in SUBSET DOMAIN rvRows : IsFiniteSet(s)
<1>1. rvRows \in Seq(RevenueRow)
  BY DEF RevenueTypeOK
<1>2. DOMAIN rvRows = 1 .. Len(rvRows) /\ Len(rvRows) \in Nat
  BY <1>1
<1>3. IsFiniteSet(DOMAIN rvRows)
  BY <1>2, FS_Interval
<1>4. \A s \in SUBSET DOMAIN rvRows : IsFiniteSet(s)
  BY <1>3, FS_Subset
<1>5. \A i \in DOMAIN rvRows : rvRows[i] \in RevenueRow
  BY <1>1, <1>2
<1>6. \A i \in DOMAIN rvRows : /\ rvRows[i].shares \in Shares
                               /\ rvRows[i].event \in Events /\ rvRows[i].source \in Sources
  BY <1>5 DEF RevenueRow
<1> QED BY <1>3, <1>4, <1>5, <1>6

\* The rows of a user are finitely many, and what he has of each is a number.
LEMMA MineAre ==
    ASSUME RevenueTypeOK, NEW u
    PROVE  /\ Mine(u) \in SUBSET DOMAIN rvRows /\ IsFiniteSet(Mine(u))
           /\ \A i \in DOMAIN rvRows :
                /\ My(u)[i] \in Nat /\ Earns(u)[i] \in Nat /\ Named(u)[i] \in Nat
                /\ My(u)[i] =< Earns(u)[i] /\ Named(u)[i] = Cardinality(Roles(u, i))
                /\ i \notin Mine(u) => My(u)[i] = 0 /\ Earns(u)[i] = 0 /\ Named(u)[i] = 0
                /\ i \in Mine(u) => Named(u)[i] >= 1
                /\ Named(u)[i] = 1 => My(u)[i] = Earns(u)[i]
           /\ \A rows \in SUBSET Mine(u) : MySum(u, rows) = SumOn(My(u), rows)
<1>1. Mine(u) \in SUBSET DOMAIN rvRows /\ IsFiniteSet(Mine(u))
  <2>1. Mine(u) \in SUBSET DOMAIN rvRows
    BY DEF Mine
  <2> QED BY <2>1, RowsAreFinite
<1>2. ASSUME NEW i \in DOMAIN rvRows
      PROVE  /\ My(u)[i] \in Nat /\ Earns(u)[i] \in Nat /\ Named(u)[i] \in Nat
             /\ My(u)[i] =< Earns(u)[i] /\ Named(u)[i] = Cardinality(Roles(u, i))
             /\ i \notin Mine(u) => My(u)[i] = 0 /\ Earns(u)[i] = 0 /\ Named(u)[i] = 0
             /\ i \in Mine(u) => Named(u)[i] >= 1
             /\ Named(u)[i] = 1 => My(u)[i] = Earns(u)[i]
  <2>1. PICK d \in Shares : d = rvRows[i].shares
    BY RowsAreFinite
  <2>2. Roles(u, i) = RolesOf(d, u)
    BY <2>1 DEF Roles, RolesOf
  <2>3. i \in Mine(u) <=> RolesOf(d, u) # {}
    BY <2>2 DEF Mine
  <2>4. /\ My(u)[i] = MyCredits(u, d) /\ Earns(u)[i] = Received(d, u)
        /\ Named(u)[i] = Cardinality(RolesOf(d, u))
    BY <2>1 DEF My, Earns, Named
  <2> QED BY <2>2, <2>3, <2>4, MineIsGot
<1>3. ASSUME NEW rows \in SUBSET Mine(u) PROVE MySum(u, rows) = SumOn(My(u), rows)
  <2> DEFINE f == [i \in rows |-> MyCredits(u, rvRows[i].shares)]
  <2>1. IsFiniteSet(rows) /\ rows \subseteq DOMAIN rvRows
    BY <1>1, RowsAreFinite
  <2>2. \A i \in rows : f[i] = My(u)[i]
    BY <2>1 DEF My
  <2>3. MySum(u, rows) = SumOf(f, rows)
    BY DEF MySum
  <2> HIDE DEF f
  <2>4. PICK my : my = My(u)
    OBVIOUS
  <2>5. SumOn(f, rows) = SumOn(my, rows)
    BY <2>1, <2>2, <2>4, SumSame
  <2> QED BY <2>3, <2>4, <2>5, SumsAreSums
<1> QED BY <1>1, <1>2, <1>3

\* Sums by group, of those that are not zero, add up to the sum.
LEMMA GroupsShown ==
    ASSUME NEW D, IsFiniteSet(D), NEW f, \A i \in D : f[i] \in Nat, NEW S, IsFiniteSet(S),
           NEW g, NEW group, GroupsOf(D, S, g, group),
           NEW h, \A x \in S : h[x] = SumOn(f, group[x]),
           NEW T, T \subseteq S, \A x \in S : x \in T <=> h[x] > 0,
           NEW k, \A x \in T : k[x] = h[x]
    PROVE  SumOn(k, T) = SumOn(f, D)
<1>1. SumOn(h, S) = SumOn(f, D)
  <2>1. \A i \in D : f[i] \in Int
    OBVIOUS
  <2> QED BY <2>1, GroupsAddUp
<1>2. \A x \in S : h[x] \in Nat
  <2> TAKE x \in S
  <2>1. PICK s : s = group[x]
    OBVIOUS
  <2>2. IsFiniteSet(s) /\ \A i \in s : f[i] \in Nat
    BY <2>1, FS_Subset DEF GroupsOf
  <2>3. SumOn(f, s) \in Nat
    BY <2>2, SumIsNoLess
  <2> QED BY <2>1, <2>3
<1>3. SumOn(h, T) = SumOn(h, S)
  <2>1. T \in SUBSET S /\ \A x \in S : h[x] \in Int
    BY <1>2
  <2>2. \A x \in S \ T : h[x] = 0
    BY <1>2
  <2> QED BY <2>1, <2>2, SumOfPart
<1>4. SumOn(k, T) = SumOn(h, T)
  <2>1. IsFiniteSet(T)
    BY FS_Subset
  <2> QED BY <2>1, SumSame
<1> QED BY <1>1, <1>3, <1>4

\* The sums shown by event, by source and by transaction are those of the rows.
LEMMA ShownByEvent ==
    ASSUME RevenueTypeOK, NEW u \in Payees
    PROVE  SumOf(RevenuesByEvent(u), DOMAIN RevenuesByEvent(u)) = SumOn(My(u), Mine(u))
<1> DEFINE S == Events \X Sources
           g == [i \in Mine(u) |-> <<rvRows[i].event, rvRows[i].source>>]
           of == [x \in S |-> {i \in Mine(u) : <<rvRows[i].event, rvRows[i].source>> = x}]
           h == [group \in S |-> MySum(u, {i \in Mine(u) : <<rvRows[i].event, rvRows[i].source>> = group})]
           T == {x \in S : h[x] > 0}
           k == [x \in T |-> h[x]]
<1>1. RevenuesByEvent(u) = k
  BY Zenon DEF RevenuesByEvent
<1>2. IsFiniteSet(S)
  <2>1. IsFiniteSet(Events) /\ IsFiniteSet(Sources)
    BY ReportsAssumption
  <2> QED BY <2>1, FS_Product
<1>3. IsFiniteSet(Mine(u)) /\ \A i \in Mine(u) : My(u)[i] \in Nat
  BY MineAre
<1>4. GroupsOf(Mine(u), S, g, of)
  <2>1. \A i \in Mine(u) : rvRows[i].event \in Events /\ rvRows[i].source \in Sources
    BY MineAre, RowsAreFinite
  <2> QED BY <2>1 DEF GroupsOf
<1>5. \A x \in S : h[x] = SumOn(My(u), of[x])
  <2> TAKE x \in S
  <2>1. h[x] = MySum(u, of[x]) /\ of[x] \in SUBSET Mine(u)
    OBVIOUS
  <2> HIDE DEF h, of
  <2> QED BY <2>1, MineAre
<1>6. /\ T \subseteq S /\ DOMAIN k = T
      /\ \A x \in S : x \in T <=> h[x] > 0
      /\ \A x \in T : k[x] = h[x]
  <2> HIDE DEF h
  <2> QED OBVIOUS
<1> HIDE DEF S, g, of, h, T, k
<1>7. SumOn(k, T) = SumOn(My(u), Mine(u))
  BY <1>2, <1>3, <1>4, <1>5, <1>6, GroupsShown
<1> QED BY <1>1, <1>6, <1>7, SumsAreSums

\* What a user is shown by source adds up to what he has of his rows.
LEMMA ShownBySource ==
    ASSUME RevenueTypeOK, NEW u \in Payees
    PROVE  SumOf(RevenueBreakdown(u), DOMAIN RevenueBreakdown(u)) = SumOn(My(u), Mine(u))
<1> DEFINE g == [i \in Mine(u) |-> rvRows[i].source]
           of == [x \in Sources |-> {i \in Mine(u) : rvRows[i].source = x}]
           h == [s \in Sources |-> MySum(u, {i \in Mine(u) : rvRows[i].source = s})]
           T == {s \in Sources : h[s] > 0}
           k == [s \in T |-> h[s]]
<1>1. RevenueBreakdown(u) = k
  BY Zenon DEF RevenueBreakdown
<1>2. IsFiniteSet(Sources)
  BY ReportsAssumption
<1>3. IsFiniteSet(Mine(u)) /\ \A i \in Mine(u) : My(u)[i] \in Nat
  BY MineAre
<1>4. GroupsOf(Mine(u), Sources, g, of)
  <2>1. \A i \in Mine(u) : rvRows[i].event \in Events /\ rvRows[i].source \in Sources
    BY MineAre, RowsAreFinite
  <2> QED BY <2>1 DEF GroupsOf
<1>5. \A x \in Sources : h[x] = SumOn(My(u), of[x])
  <2> TAKE x \in Sources
  <2>1. h[x] = MySum(u, of[x]) /\ of[x] \in SUBSET Mine(u)
    OBVIOUS
  <2> HIDE DEF h, of
  <2> QED BY <2>1, MineAre
<1>6. /\ T \subseteq Sources /\ DOMAIN k = T
      /\ \A x \in Sources : x \in T <=> h[x] > 0
      /\ \A x \in T : k[x] = h[x]
  <2> HIDE DEF h
  <2> QED OBVIOUS
<1> HIDE DEF g, of, h, T, k
<1>7. SumOn(k, T) = SumOn(My(u), Mine(u))
  BY <1>2, <1>3, <1>4, <1>5, <1>6, GroupsShown
<1> QED BY <1>1, <1>6, <1>7, SumsAreSums

\* What a user is shown by transaction adds up to what he has of his rows.
LEMMA ShownByTransaction ==
    ASSUME RevenueTypeOK, NEW u \in Payees
    PROVE  SumOf([e \in Events |-> LET my == EventTransactions(u, e)
                                   IN  SumOf(my, DOMAIN my)], Events)
             = SumOn(My(u), Mine(u))
<1> DEFINE h == [e \in Events |-> LET my == EventTransactions(u, e)
                                  IN  SumOf(my, DOMAIN my)]
           g == [i \in Mine(u) |-> rvRows[i].event]
           of == [e \in Events |-> {i \in Mine(u) : rvRows[i].event = e}]
<1>1. IsFiniteSet(Events)
  BY ReportsAssumption
<1>2. IsFiniteSet(Mine(u)) /\ \A i \in Mine(u) : My(u)[i] \in Int
  BY MineAre
<1>3. GroupsOf(Mine(u), Events, g, of) /\ \A e \in Events : of[e] \subseteq Mine(u)
  <2>1. \A i \in Mine(u) : rvRows[i].event \in Events
    BY MineAre, RowsAreFinite
  <2> QED BY <2>1 DEF GroupsOf
<1>4. ASSUME NEW e \in Events PROVE h[e] = SumOn(My(u), of[e])
  <2> DEFINE my == [i \in of[e] |-> MyCredits(u, rvRows[i].shares)]
  <2>1. EventTransactions(u, e) = my
    BY DEF EventTransactions
  <2>2. h[e] = SumOf(my, of[e])
    <3>1. h[e] = SumOf(EventTransactions(u, e), DOMAIN EventTransactions(u, e))
      OBVIOUS
    <3>2. DOMAIN my = of[e]
      OBVIOUS
    <3> HIDE DEF h, of, my
    <3> QED BY <2>1, <3>1, <3>2
  <2>3. PICK rows : rows = of[e]
    OBVIOUS
  <2>4. rows \subseteq Mine(u) /\ rows \subseteq DOMAIN rvRows /\ IsFiniteSet(rows)
    <3>1. rows \subseteq Mine(u)
      BY <1>3, <2>3
    <3> HIDE DEF of, g, h
    <3>2. rows \subseteq DOMAIN rvRows
      BY <3>1, MineAre
    <3> QED BY <3>1, <3>2, RowsAreFinite
  <2>5. \A i \in rows : my[i] = My(u)[i]
    BY <2>3, <2>4 DEF My
  <2> HIDE DEF h, of, my, g
  <2>6. PICK mine : mine = My(u)
    OBVIOUS
  <2>7. SumOn(my, rows) = SumOn(mine, rows)
    BY <2>4, <2>5, <2>6, SumSame
  <2> QED BY <2>2, <2>3, <2>6, <2>7, SumsAreSums
<1> HIDE DEF g, of, h
<1>6. SumOn(h, Events) = SumOn(My(u), Mine(u))
  BY <1>1, <1>2, <1>3, <1>4, GroupsAddUp
<1>7. SumOf(h, Events) = SumOn(My(u), Mine(u))
  BY <1>6, SumsAreSums
<1> QED BY <1>7 DEF h

\* What u earned in a role, as the column of the role says.
InRole(u, id) == {i \in DOMAIN rvRows : rvRows[i].shares[id] = u}
ColumnOf(credits) == [i \in DOMAIN rvRows |-> rvRows[i].shares[credits]]
Earned(u, id, credits) ==
    SumOf([i \in InRole(u, id) |-> rvRows[i].shares[credits]], InRole(u, id))

\* A top earner earned what he did in each role.
LEMMA EarnersEarned ==
    \A u \in Payees : TopEarners[u] = Earned(u, "artist1", "credits1")
                                      + Earned(u, "artist2", "credits2")
                                      + Earned(u, "manager", "managerCredits")
BY Zenon DEF TopEarners, Earned, InRole

\* The columns of the rows are numbers.
LEMMA ColumnsAre ==
    ASSUME RevenueTypeOK, NEW credits \in {"credits1", "credits2", "managerCredits"}
    PROVE  \A i \in DOMAIN rvRows : ColumnOf(credits)[i] \in Nat
<1> TAKE i \in DOMAIN rvRows
<1>1. PICK d \in Shares : d = rvRows[i].shares
  BY RowsAreFinite
<1>2. d["credits1"] \in Nat /\ d["credits2"] \in Nat /\ d["managerCredits"] \in Nat
  BY DEF Shares
<1>3. ColumnOf(credits)[i] = d[credits]
  BY <1>1 DEF ColumnOf
<1> QED BY <1>2, <1>3

\* What u earned in a role is the sum of its column on the rows where he has it.
LEMMA EarnedAre ==
    ASSUME RevenueTypeOK, NEW credits \in {"credits1", "credits2", "managerCredits"}, NEW id, NEW u
    PROVE  /\ InRole(u, id) \in SUBSET DOMAIN rvRows
           /\ Earned(u, id, credits) = SumOn(ColumnOf(credits), InRole(u, id))
           /\ Earned(u, id, credits) \in Nat
<1> DEFINE f == [i \in InRole(u, id) |-> rvRows[i].shares[credits]]
<1>1. InRole(u, id) \in SUBSET DOMAIN rvRows
  BY DEF InRole
<1>2. PICK T : T = InRole(u, id)
  OBVIOUS
<1>3. PICK c : c = ColumnOf(credits)
  OBVIOUS
<1>4. IsFiniteSet(T) /\ T \subseteq DOMAIN rvRows
  BY <1>1, <1>2, RowsAreFinite
<1>5. \A i \in T : f[i] = c[i] /\ c[i] \in Nat
  <2>1. \A i \in T : f[i] = c[i]
    BY <1>2, <1>3, <1>4 DEF ColumnOf
  <2>2. \A i \in T : c[i] \in Nat
    BY <1>3, <1>4, ColumnsAre
  <2> QED BY <2>1, <2>2
<1>6. Earned(u, id, credits) = SumOf(f, T)
  BY <1>2 DEF Earned
<1> HIDE DEF f
<1>7. SumOn(f, T) = SumOn(c, T) /\ SumOn(c, T) \in Nat
  BY <1>4, <1>5, SumSame, SumIsNoLess
<1> QED BY <1>1, <1>2, <1>3, <1>6, <1>7, SumsAreSums

\* Together, an earner's columns are what the rows say he got.
LEMMA EarnersGet ==
    ASSUME RevenueTypeOK, NEW u \in Payees
    PROVE  TopEarners[u] = SumOn(Earns(u), DOMAIN rvRows)
<1> DEFINE D == DOMAIN rvRows
           one == [i \in D |-> IF rvRows[i].shares["artist1"] = u THEN ColumnOf("credits1")[i] ELSE 0]
           two == [i \in D |-> IF rvRows[i].shares["artist2"] = u THEN ColumnOf("credits2")[i] ELSE 0]
           three == [i \in D |-> IF rvRows[i].shares["manager"] = u THEN ColumnOf("managerCredits")[i] ELSE 0]
           both == [i \in D |-> one[i] + two[i]]
<1>1. IsFiniteSet(D)
  BY RowsAreFinite
<1>2. /\ \A i \in D : ColumnOf("credits1")[i] \in Nat /\ ColumnOf("credits2")[i] \in Nat
                      /\ ColumnOf("managerCredits")[i] \in Nat
  BY ColumnsAre
<1>3. \A i \in D : /\ one[i] \in Int /\ two[i] \in Int /\ three[i] \in Int /\ both[i] \in Int
                   /\ both[i] = one[i] + two[i] /\ Earns(u)[i] = both[i] + three[i]
  <2> TAKE i \in D
  <2>1. /\ one[i] \in Int /\ two[i] \in Int /\ three[i] \in Int
        /\ both[i] = one[i] + two[i]
    BY <1>2
  <2>2. Earns(u)[i] = Received(rvRows[i].shares, u)
    BY DEF Earns
  <2>3. Received(rvRows[i].shares, u) = one[i] + two[i] + three[i]
    BY DEF Received, ColumnOf
  <2> HIDE DEF one, two, three, both
  <2> QED BY <2>1, <2>2, <2>3
<1>4. ASSUME NEW id, NEW credits \in {"credits1", "credits2", "managerCredits"}, NEW f,
             \A i \in D : f[i] = IF rvRows[i].shares[id] = u THEN ColumnOf(credits)[i] ELSE 0
      PROVE  Earned(u, id, credits) = SumOn(f, D)
  <2>1. PICK T \in SUBSET D : T = InRole(u, id)
    BY EarnedAre
  <2>2. PICK c : c = ColumnOf(credits)
    OBVIOUS
  <2>3. \A i \in D : c[i] \in Nat
    BY <2>2, ColumnsAre
  <2>4. \A i \in D : i \in T <=> rvRows[i].shares[id] = u
    BY <2>1 DEF InRole
  <2> HIDE DEF D
  <2>5. /\ \A i \in T : f[i] = c[i]
        /\ \A i \in D \ T : f[i] = 0
        /\ \A i \in D : f[i] \in Int
    BY <1>4, <2>1, <2>2, <2>3, <2>4
  <2>6. SumOn(f, T) = SumOn(f, D)
    BY <1>1, <2>5, SumOfPart
  <2>7. SumOn(f, T) = SumOn(c, T)
    <3>1. IsFiniteSet(T)
      BY <1>1, FS_Subset
    <3> QED BY <2>5, <3>1, SumSame
  <2>8. Earned(u, id, credits) = SumOn(c, T)
    BY <2>1, <2>2, EarnedAre
  <2> QED BY <2>6, <2>7, <2>8
<1>5. Earned(u, "artist1", "credits1") = SumOn(one, D)
  <2>1. \A i \in D : one[i] = IF rvRows[i].shares["artist1"] = u THEN ColumnOf("credits1")[i] ELSE 0
    OBVIOUS
  <2> HIDE DEF one, D
  <2> QED BY <1>4, <2>1
<1>6. Earned(u, "artist2", "credits2") = SumOn(two, D)
  <2>1. \A i \in D : two[i] = IF rvRows[i].shares["artist2"] = u THEN ColumnOf("credits2")[i] ELSE 0
    OBVIOUS
  <2> HIDE DEF two, D
  <2> QED BY <1>4, <2>1
<1>7. Earned(u, "manager", "managerCredits") = SumOn(three, D)
  <2>1. \A i \in D : three[i] = IF rvRows[i].shares["manager"] = u
                                THEN ColumnOf("managerCredits")[i] ELSE 0
    OBVIOUS
  <2> HIDE DEF three, D
  <2> QED BY <1>4, <2>1
<1> HIDE DEF one, two, three, both, D
<1>8. SumOn(both, D) = SumOn(one, D) + SumOn(two, D)
  BY <1>1, <1>3, SumsTogether
<1>9. SumOn(Earns(u), D) = SumOn(both, D) + SumOn(three, D)
  <2>1. PICK gets : gets = Earns(u)
    OBVIOUS
  <2>2. SumOn(gets, D) = SumOn(both, D) + SumOn(three, D)
    BY <1>1, <1>3, <2>1, SumsTogether
  <2> QED BY <2>1, <2>2
<1>10. TopEarners[u] = Earned(u, "artist1", "credits1") + Earned(u, "artist2", "credits2")
                       + Earned(u, "manager", "managerCredits")
  BY EarnersEarned
<1> QED BY <1>5, <1>6, <1>7, <1>8, <1>9, <1>10 DEF D

\* Of a column, the users got no more than there is.
LEMMA EarnedInAll ==
    ASSUME RevenueTypeOK, NEW credits \in {"credits1", "credits2", "managerCredits"}, NEW id,
           NEW h, \A u \in Payees : h[u] = Earned(u, id, credits)
    PROVE  /\ \A u \in Payees : h[u] \in Nat
           /\ SumOn(h, Payees) =< SumOn(ColumnOf(credits), DOMAIN rvRows)
           /\ SumOn(h, Payees) \in Nat
<1> DEFINE D == DOMAIN rvRows
           T == {i \in D : rvRows[i].shares[id] \in Payees}
           g == [i \in T |-> rvRows[i].shares[id]]
           of == [u \in Payees |-> InRole(u, id)]
<1>1. IsFiniteSet(D) /\ IsFiniteSet(T) /\ IsFiniteSet(D \ T)
  BY RowsAreFinite
<1>2. PICK c : c = ColumnOf(credits)
  OBVIOUS
<1>3. \A i \in D : c[i] \in Nat
  BY <1>2, ColumnsAre
<1>4. GroupsOf(T, Payees, g, of)
  <2>1. /\ \A i \in T : g[i] \in Payees
        /\ \A u \in Payees : of[u] \subseteq T
        /\ \A u \in Payees : \A i \in T : i \in of[u] <=> g[i] = u
    BY DEF InRole
  <2> QED BY <2>1 DEF GroupsOf
<1>5. \A u \in Payees : h[u] = SumOn(c, of[u])
  <2> TAKE u \in Payees
  <2>1. of[u] = InRole(u, id)
    OBVIOUS
  <2>2. Earned(u, id, credits) = SumOn(ColumnOf(credits), InRole(u, id))
    BY EarnedAre
  <2> HIDE DEF of
  <2> QED BY <1>2, <2>1, <2>2
<1>6. T \subseteq D
  OBVIOUS
<1> HIDE DEF g, of, T, D
<1>7. SumOn(h, Payees) = SumOn(c, T)
  <2>1. IsFiniteSet(Payees)
    BY ReportsAssumption
  <2>2. \A i \in T : c[i] \in Int
    BY <1>3, <1>6
  <2> QED BY <1>1, <1>4, <1>5, <2>1, <2>2, GroupsAddUp
<1>8. SumOn(c, T) =< SumOn(c, D) /\ SumOn(c, T) \in Nat
  <2>1. PICK R : R = D \ T
    OBVIOUS
  <2>2. T \cup R = D /\ T \cap R = {} /\ IsFiniteSet(R)
    BY <1>1, <1>6, <2>1
  <2>3. \A i \in T \cup R : c[i] \in Int
    BY <1>3, <2>2
  <2>4. SumOn(c, T \cup R) = SumOn(c, T) + SumOn(c, R)
    BY <1>1, <2>2, <2>3, SumOfBoth
  <2>5. SumOn(c, T) \in Nat
    <3>1. \A i \in T : c[i] \in Nat
      BY <1>3, <1>6
    <3> QED BY <1>1, <3>1, SumIsNoLess
  <2>6. SumOn(c, R) \in Nat
    <3>1. \A i \in R : c[i] \in Nat
      BY <1>3, <2>1
    <3> QED BY <2>2, <3>1, SumIsNoLess
  <2>7. SumOn(c, D) = SumOn(c, T) + SumOn(c, R)
    BY <2>2, <2>4
  <2> QED BY <2>5, <2>6, <2>7
<1>9. \A u \in Payees : h[u] \in Nat
  BY EarnedAre
<1> QED BY <1>2, <1>7, <1>8, <1>9 DEF D

\* By source there is all that the columns hold.
LEMMA StatsAre ==
    ASSUME RevenueTypeOK
    PROVE  /\ SumOf(RevenueStats, Sources)
                = SumOn(ColumnOf("credits1"), DOMAIN rvRows) + SumOn(ColumnOf("credits2"), DOMAIN rvRows)
                  + SumOn(ColumnOf("managerCredits"), DOMAIN rvRows)
           /\ \A credits \in {"credits1", "credits2", "managerCredits"} :
                SumOn(ColumnOf(credits), DOMAIN rvRows) \in Nat
<1> DEFINE D == DOMAIN rvRows
           both == [i \in D |-> rvRows[i].shares.credits1 + rvRows[i].shares.credits2]
           all == [i \in D |-> rvRows[i].shares.credits1 + rvRows[i].shares.credits2
                               + rvRows[i].shares.managerCredits]
           g == [i \in D |-> rvRows[i].source]
           of == [s \in Sources |-> {i \in D : rvRows[i].source = s}]
<1>1. IsFiniteSet(D) /\ \A s \in SUBSET D : IsFiniteSet(s)
  BY RowsAreFinite
<1>2. PICK c1, c2, mc : /\ c1 = ColumnOf("credits1") /\ c2 = ColumnOf("credits2")
                        /\ mc = ColumnOf("managerCredits")
  OBVIOUS
<1>3. \A i \in D : /\ c1[i] \in Nat /\ c2[i] \in Nat /\ mc[i] \in Nat
                   /\ both[i] = c1[i] + c2[i] /\ all[i] = both[i] + mc[i]
  <2>1. \A i \in D : c1[i] \in Nat /\ c2[i] \in Nat /\ mc[i] \in Nat
    BY <1>2, ColumnsAre
  <2>2. \A i \in D : /\ c1[i] = rvRows[i].shares.credits1 /\ c2[i] = rvRows[i].shares.credits2
                     /\ mc[i] = rvRows[i].shares.managerCredits
    BY <1>2 DEF ColumnOf
  <2> QED BY <2>1, <2>2
<1>4. \A i \in D : /\ c1[i] \in Int /\ c2[i] \in Int /\ mc[i] \in Int /\ both[i] \in Int
                   /\ all[i] \in Int
  <2> HIDE DEF both, all
  <2> QED BY <1>3
<1>5. GroupsOf(D, Sources, g, of) /\ \A s \in Sources : of[s] \in SUBSET D
  <2>1. \A i \in D : rvRows[i].source \in Sources
    BY RowsAreFinite
  <2> QED BY <2>1 DEF GroupsOf
<1>6. ASSUME NEW s \in Sources PROVE RevenueStats[s] = SumOn(all, of[s])
  <2> DEFINE f == [i \in of[s] |-> rvRows[i].shares.credits1 + rvRows[i].shares.credits2
                                   + rvRows[i].shares.managerCredits]
  <2>1. PICK T : T = of[s]
    OBVIOUS
  <2>2. T \in SUBSET D /\ IsFiniteSet(T)
    BY <1>1, <1>5, <2>1
  <2>3. \A i \in T : f[i] = all[i]
    BY <2>1, <2>2
  <2>4. RevenueStats[s] = SumOf(f, of[s])
    BY DEF RevenueStats
  <2> HIDE DEF f, of, all, g, both
  <2>5. SumOn(f, T) = SumOn(all, T)
    BY <2>2, <2>3, SumSame
  <2> QED BY <2>1, <2>4, <2>5, SumsAreSums
<1> HIDE DEF both, all, g, of, D
<1>7. SumOn(RevenueStats, Sources) = SumOn(all, D)
  <2>1. IsFiniteSet(Sources)
    BY ReportsAssumption
  <2>2. PICK stats : stats = RevenueStats
    OBVIOUS
  <2>3. \A s \in Sources : stats[s] = SumOn(all, of[s])
    BY <1>6, <2>2
  <2>4. SumOn(stats, Sources) = SumOn(all, D)
    BY <1>1, <1>4, <1>5, <2>1, <2>3, GroupsAddUp
  <2> QED BY <2>2, <2>4
<1>8. SumOn(both, D) = SumOn(c1, D) + SumOn(c2, D)
  BY <1>1, <1>3, <1>4, SumsTogether
<1>9. SumOn(all, D) = SumOn(both, D) + SumOn(mc, D)
  BY <1>1, <1>3, <1>4, SumsTogether
<1>10. SumOn(c1, D) \in Nat /\ SumOn(c2, D) \in Nat /\ SumOn(mc, D) \in Nat
  BY <1>1, <1>3, SumIsNoLess
<1> QED BY <1>2, <1>7, <1>8, <1>9, <1>10, SumsAreSums DEF D

\* Earners got no more than there is.
LEMMA EarnersInAll ==
    ASSUME RevenueTypeOK PROVE SumOf(RevenueStats, Sources) >= SumOf(TopEarners, Payees)
<1> DEFINE h1 == [u \in Payees |-> Earned(u, "artist1", "credits1")]
           h2 == [u \in Payees |-> Earned(u, "artist2", "credits2")]
           h3 == [u \in Payees |-> Earned(u, "manager", "managerCredits")]
           both == [u \in Payees |-> h1[u] + h2[u]]
<1>1. /\ \A u \in Payees : h1[u] = Earned(u, "artist1", "credits1")
      /\ \A u \in Payees : h2[u] = Earned(u, "artist2", "credits2")
      /\ \A u \in Payees : h3[u] = Earned(u, "manager", "managerCredits")
      /\ \A u \in Payees : both[u] = h1[u] + h2[u]
  OBVIOUS
<1> HIDE DEF h1, h2, h3, both
<1>2. /\ \A u \in Payees : h1[u] \in Nat
      /\ SumOn(h1, Payees) =< SumOn(ColumnOf("credits1"), DOMAIN rvRows)
      /\ SumOn(h1, Payees) \in Nat
  BY <1>1, EarnedInAll
<1>3. /\ \A u \in Payees : h2[u] \in Nat
      /\ SumOn(h2, Payees) =< SumOn(ColumnOf("credits2"), DOMAIN rvRows)
      /\ SumOn(h2, Payees) \in Nat
  BY <1>1, EarnedInAll
<1>4. /\ \A u \in Payees : h3[u] \in Nat
      /\ SumOn(h3, Payees) =< SumOn(ColumnOf("managerCredits"), DOMAIN rvRows)
      /\ SumOn(h3, Payees) \in Nat
  BY <1>1, EarnedInAll
<1>5. PICK top : top = TopEarners
  OBVIOUS
<1>6. \A u \in Payees : top[u] = both[u] + h3[u]
  BY <1>1, <1>5, EarnersEarned
<1>7. IsFiniteSet(Payees)
  BY ReportsAssumption
<1>8. SumOn(both, Payees) = SumOn(h1, Payees) + SumOn(h2, Payees)
  <2>1. \A u \in Payees : h1[u] \in Int /\ h2[u] \in Int /\ both[u] = h1[u] + h2[u]
    BY <1>1, <1>2, <1>3
  <2> QED BY <1>7, <2>1, SumsTogether
<1>9. SumOn(top, Payees) = SumOn(both, Payees) + SumOn(h3, Payees)
  <2>1. \A u \in Payees : both[u] \in Int /\ h3[u] \in Int /\ top[u] = both[u] + h3[u]
    BY <1>1, <1>2, <1>3, <1>4, <1>6
  <2> QED BY <1>7, <2>1, SumsTogether
<1>10. /\ SumOf(RevenueStats, Sources)
            = SumOn(ColumnOf("credits1"), DOMAIN rvRows) + SumOn(ColumnOf("credits2"), DOMAIN rvRows)
              + SumOn(ColumnOf("managerCredits"), DOMAIN rvRows)
       /\ SumOn(ColumnOf("credits1"), DOMAIN rvRows) \in Nat
       /\ SumOn(ColumnOf("credits2"), DOMAIN rvRows) \in Nat
       /\ SumOn(ColumnOf("managerCredits"), DOMAIN rvRows) \in Nat
  BY StatsAre
<1>11. SumOf(TopEarners, Payees) = SumOn(h1, Payees) + SumOn(h2, Payees) + SumOn(h3, Payees)
  BY <1>5, <1>8, <1>9, SumsAreSums
<1> QED BY <1>2, <1>3, <1>4, <1>10, <1>11

\* The invariant says the property.
LEMMA RevenueSafe == RevenueInv => RevenuesAddUp
<1> SUFFICES ASSUME RevenueInv PROVE RevenuesAddUp
  OBVIOUS
<1> USE DEF RevenueInv
<1>1. ASSUME NEW u \in Payees
      PROVE  LET byEvent  == RevenuesByEvent(u)
                 bySource == RevenueBreakdown(u)
                 shown    == SumOf(byEvent, DOMAIN byEvent)
                 roles    == SumOf([i \in Mine(u) |-> Cardinality(Roles(u, i))], Mine(u))
             IN  /\ shown = SumOf(bySource, DOMAIN bySource)
                 /\ shown = SumOf([e \in Events |-> LET my == EventTransactions(u, e)
                                                    IN  SumOf(my, DOMAIN my)], Events)
                 /\ shown =< TopEarners[u] /\ Near(TopEarners[u], rvGot[u], roles)
                 /\ roles = Cardinality(Mine(u)) => shown = TopEarners[u]
  <2> DEFINE D == DOMAIN rvRows
             r == [i \in Mine(u) |-> Cardinality(Roles(u, i))]
             one == [i \in Mine(u) |-> 1]
  <2>1. PICK my, gets, named : my = My(u) /\ gets = Earns(u) /\ named = Named(u)
    OBVIOUS
  <2>2. PICK M \in SUBSET D : M = Mine(u) /\ IsFiniteSet(M)
    BY MineAre
  <2>3. IsFiniteSet(D)
    BY RowsAreFinite
  <2>4. /\ SumOf(RevenuesByEvent(u), DOMAIN RevenuesByEvent(u)) = SumOn(my, M)
        /\ SumOf(RevenueBreakdown(u), DOMAIN RevenueBreakdown(u)) = SumOn(my, M)
        /\ SumOf([e \in Events |-> LET own == EventTransactions(u, e)
                                   IN  SumOf(own, DOMAIN own)], Events) = SumOn(my, M)
    BY <2>1, <2>2, ShownByEvent, ShownBySource, ShownByTransaction
  <2>5. TopEarners[u] = SumOn(gets, D)
    BY <2>1, EarnersGet
  <2>6. \A i \in D : /\ my[i] \in Nat /\ gets[i] \in Nat /\ named[i] \in Nat
                     /\ my[i] =< gets[i] /\ named[i] = Cardinality(Roles(u, i))
                     /\ i \notin M => my[i] = 0 /\ gets[i] = 0 /\ named[i] = 0
                     /\ i \in M => named[i] >= 1
                     /\ named[i] = 1 => my[i] = gets[i]
    BY <2>1, <2>2, MineAre
  <2>7. \A i \in M : r[i] = named[i] /\ one[i] = 1
    BY <2>2, <2>6
  <2>8. RowsGive(rvRows)[u] = SumOn(gets, D) /\ RowsName(rvRows)[u] = SumOn(named, D)
    BY <2>1 DEF RowsGive, RowsName, Earns, Named
  <2> HIDE DEF D, r, one
  <2>9. SumOn(my, M) = SumOn(my, D) /\ SumOn(gets, M) = SumOn(gets, D)
        /\ SumOn(named, M) = SumOn(named, D)
    <3>1. /\ \A i \in D : my[i] \in Int /\ gets[i] \in Int /\ named[i] \in Int
          /\ \A i \in D \ M : my[i] = 0
          /\ \A i \in D \ M : gets[i] = 0
          /\ \A i \in D \ M : named[i] = 0
      BY <2>6
    <3> QED BY <2>3, <3>1, SumOfPart
  <2>10. SumOn(my, D) =< SumOn(gets, D)
    <3>1. \A i \in D : my[i] \in Int /\ gets[i] \in Int /\ my[i] =< gets[i]
      BY <2>6
    <3> QED BY <2>3, <3>1, SumsCompare
  <2>11. SumOf(r, M) = SumOn(named, M)
    BY <2>2, <2>7, SumSame, SumsAreSums
  <2>12. Near(SumOn(gets, D), rvGot[u], SumOn(named, D))
    BY <2>8
  <2>13. ASSUME SumOn(named, M) = Cardinality(M) PROVE SumOn(my, M) = SumOn(gets, M)
    <3>1. SumOn(one, M) = Cardinality(M)
      <4>1. SumOn(one, M) = Cardinality(M) * 1
        BY <2>2, <2>7, SumOfSame
      <4>2. Cardinality(M) \in Nat
        BY <2>2, FS_CardinalityType
      <4> QED BY <4>1, <4>2
    <3>2. \A i \in M : one[i] \in Int /\ named[i] \in Int /\ one[i] =< named[i]
      BY <2>2, <2>6, <2>7
    <3>3. \A i \in M : one[i] = named[i]
      BY <2>2, <2>13, <3>1, <3>2, SumsCompare
    <3>4. \A i \in M : my[i] = gets[i]
      BY <2>2, <2>6, <2>7, <3>3
    <3> QED BY <2>2, <3>4, SumSame
  <2>14. SumOf([i \in Mine(u) |-> Cardinality(Roles(u, i))], Mine(u)) = SumOn(named, M)
    BY <2>2, <2>11 DEF r
  <2>15. PICK shown, earned, roles, got :
           /\ shown = SumOn(my, M) /\ earned = SumOn(gets, D) /\ roles = SumOn(named, M)
           /\ got = rvGot[u]
    OBVIOUS
  <2>16. shown =< earned /\ Near(earned, got, roles) /\ (roles = Cardinality(M) => shown = earned)
    BY <2>9, <2>10, <2>12, <2>13, <2>15
  <2> QED BY <2>2, <2>4, <2>5, <2>14, <2>15, <2>16
<1>2. SumOf(RevenueStats, Sources) >= SumOf(TopEarners, Payees)
  BY EarnersInAll
<1>3. ASSUME NEW i \in DOMAIN rvRows
      PROVE  LET c     == CompareDistribution(i)
                 parts == c.platform + c.artists + c.manager
             IN  /\ 2 * parts =< 2 * (c.total + 1) + 4 * Credit
                 /\ rvRows[i].source \in SimpleSources => Near(parts, c.total, 2)
  <2>1. PICK row \in RevenueRow : row = rvRows[i] /\ RowAddsUp(row)
    BY RowsAreFinite
  <2>2. PICK d \in Shares : d = row.shares
    BY DEF RevenueRow
  <2>3. /\ d.platform \in Nat /\ d.credits1 \in Nat /\ d.credits2 \in Nat /\ d.managerCredits \in Nat
    BY DEF Shares
  <2>4. /\ CompareDistribution(i).total = row.total
        /\ CompareDistribution(i).platform = d.platform
        /\ CompareDistribution(i).artists = d.credits1 + d.credits2
        /\ CompareDistribution(i).manager = d.managerCredits
    BY <2>1, <2>2 DEF CompareDistribution
  <2>5. Booked(d) = d.platform + (d.credits1 + d.credits2) + d.managerCredits
    BY <2>3 DEF Booked
  <2>6. PICK parts : parts = CompareDistribution(i).platform + CompareDistribution(i).artists
                             + CompareDistribution(i).manager
    OBVIOUS
  <2>7. parts = Booked(row.shares)
    BY <2>2, <2>4, <2>5, <2>6
  <2> QED BY <2>1, <2>4, <2>6, <2>7 DEF RowAddsUp
<1> QED BY <1>1, <1>2, <1>3 DEF RevenuesAddUp

-----------------------------------------------------------------------------
(* Gifts and votes, as they are ranked.                                    *)

\* The gifts and votes of a table with a value in a column.
With(table, c, x) == {i \in DOMAIN table : table[i][c] = x}
\* What each user gave, at today's price.
Gave == [u \in Payees |-> Cardinality(With(gvGifts, "from", u)) * WorthOfGift
                          + Cardinality(With(gvVotes, "from", u))]

EngagementInv ==
    /\ EngagementTypeOK
    /\ ~gvChanged => \A u \in Payees : gvPaid[u] = Gave[u]

\* The rows that a filter selects, by the columns it names.
LEMMA RowsAreWith ==
    ASSUME NEW table \in Seq(Given)
    PROVE  /\ \A u : /\ RowsOf(table, [from |-> u]) = With(table, "from", u)
                     /\ RowsOf(table, [to |-> u]) = With(table, "to", u)
           /\ \A e, u : RowsOf(table, [event |-> e, from |-> u])
                          = {i \in With(table, "from", u) : table[i]["event"] = e}
<1>1. ASSUME NEW u
      PROVE  /\ RowsOf(table, [from |-> u]) = With(table, "from", u)
             /\ RowsOf(table, [to |-> u]) = With(table, "to", u)
  <2>1. DOMAIN [from |-> u] = {"from"} /\ [from |-> u]["from"] = u
    OBVIOUS
  <2>2. DOMAIN [to |-> u] = {"to"} /\ [to |-> u]["to"] = u
    OBVIOUS
  <2> QED BY <2>1, <2>2 DEF RowsOf, With
<1>2. ASSUME NEW e, NEW u
      PROVE  RowsOf(table, [event |-> e, from |-> u])
               = {i \in With(table, "from", u) : table[i]["event"] = e}
  <2> DEFINE values == [event |-> e, from |-> u]
  <2>1. DOMAIN values = {"event", "from"} /\ values["event"] = e /\ values["from"] = u
    OBVIOUS
  <2> HIDE DEF values
  <2>2. RowsOf(table, values) = {i \in With(table, "from", u) : table[i]["event"] = e}
    BY <2>1 DEF RowsOf, With
  <2> QED BY <2>2 DEF values
<1> QED BY <1>1, <1>2

\* A table has finitely many rows, and so has every part of it.
LEMMA TablesAreFinite ==
    ASSUME NEW table \in Seq(Given)
    PROVE  /\ IsFiniteSet(DOMAIN table)
           /\ \A i \in DOMAIN table : table[i] \in Given
           /\ \A s \in SUBSET DOMAIN table : IsFiniteSet(s) /\ Cardinality(s) \in Nat
           /\ \A c, x : With(table, c, x) \in SUBSET DOMAIN table
<1>1. DOMAIN table = 1..Len(table) /\ Len(table) \in Nat
  OBVIOUS
<1>2. IsFiniteSet(DOMAIN table)
  BY <1>1, FS_Interval
<1> QED BY <1>2, FS_Subset, FS_CardinalityType DEF With

\* A row more is one more of its sender.
LEMMA OneMoreGiven ==
    ASSUME NEW table \in Seq(Given), NEW given \in Given, NEW u
    PROVE  Cardinality(With(Append(table, given), "from", u))
             = Cardinality(With(table, "from", u)) + IF given.from = u THEN 1 ELSE 0
<1> DEFINE n == Len(table) + 1
           old == With(table, "from", u)
           new == With(Append(table, given), "from", u)
<1>1. /\ Append(table, given) \in Seq(Given)
      /\ DOMAIN Append(table, given) = DOMAIN table \cup {n} /\ n \notin DOMAIN table
      /\ \A i \in DOMAIN table : Append(table, given)[i] = table[i]
      /\ Append(table, given)[n] = given
  BY AppendProperties
<1>2. old \in SUBSET DOMAIN table /\ IsFiniteSet(old) /\ Cardinality(old) \in Nat
  BY TablesAreFinite
<1>3. new = IF given.from = u THEN old \cup {n} ELSE old
  BY <1>1 DEF With
<1> HIDE DEF old, new, n
<1>4. Cardinality(old \cup {n}) = Cardinality(old) + 1
  BY <1>1, <1>2, FS_AddElement
<1>5. Cardinality(new) = Cardinality(old) + IF given.from = u THEN 1 ELSE 0
  BY <1>2, <1>3, <1>4
<1> QED BY <1>5 DEF old, new

\* What a gift is worth is its price, if it has one.
LEMMA PriceIsWorth ==
    ASSUME EngagementTypeOK
    PROVE  WorthOfGift \in Nat /\ (gvPrice # NULL => WorthOfGift = gvPrice)
BY ReportsAssumption DEF EngagementTypeOK, WorthOfGift

\* The initial states satisfy EngagementInv.
LEMMA EngagementInitial == EngagementInit => EngagementInv
<1> SUFFICES ASSUME EngagementInit PROVE EngagementInv
  OBVIOUS
<1>1. EngagementTypeOK
  <2>1. <<>> \in Seq(Given)
    OBVIOUS
  <2>2. [u \in Payees |-> 0] \in [Payees -> Nat]
    OBVIOUS
  <2> QED BY <2>1, <2>2 DEF EngagementInit, EngagementTypeOK
<1>2. ASSUME NEW u \in Payees PROVE gvPaid[u] = Gave[u]
  <2>1. With(<<>>, "from", u) = {}
    BY DEF With
  <2>2. Cardinality({}) = 0
    BY FS_EmptySet
  <2>3. gvGifts = <<>> /\ gvVotes = <<>> /\ gvPaid[u] = 0
    BY DEF EngagementInit
  <2>4. WorthOfGift = 0
    BY DEF EngagementInit, WorthOfGift
  <2> QED BY <2>1, <2>2, <2>3, <2>4 DEF Gave
<1> QED BY <1>1, <1>2 DEF EngagementInv

\* Every step of EngagementNext keeps EngagementInv.
LEMMA EngagementStep == EngagementInv /\ [EngagementNext]_engagementVars => EngagementInv'
<1> SUFFICES ASSUME EngagementInv, [EngagementNext]_engagementVars PROVE EngagementInv'
  OBVIOUS
<1>a. /\ EngagementTypeOK /\ gvPrice \in Prices \cup {NULL}
      /\ gvGifts \in Seq(Given) /\ gvVotes \in Seq(Given)
      /\ gvPaid \in [Payees -> Nat] /\ gvChanged \in BOOLEAN
  BY DEF EngagementInv, EngagementTypeOK
<1>b. ~gvChanged => \A u \in Payees : gvPaid[u] = Gave[u]
  BY DEF EngagementInv
<1>c. WorthOfGift \in Nat /\ (gvPrice # NULL => WorthOfGift = gvPrice)
  BY <1>a, PriceIsWorth
<1>d. \A u \in Payees : /\ Cardinality(With(gvGifts, "from", u)) \in Nat
                        /\ Cardinality(With(gvVotes, "from", u)) \in Nat
  BY <1>a, TablesAreFinite
<1>1. ASSUME NEW given \in Given, GiftIsSent(given) PROVE EngagementInv'
  <2>1. /\ gvPrice # NULL /\ gvGifts' = Append(gvGifts, given)
        /\ gvPaid' = [gvPaid EXCEPT ![given.from] = @ + gvPrice]
        /\ gvPrice' = gvPrice /\ gvVotes' = gvVotes /\ gvChanged' = gvChanged
    BY <1>1 DEF GiftIsSent, Pays
  <2>2. given.from \in Payees /\ gvPrice \in Nat /\ WorthOfGift' = gvPrice /\ WorthOfGift = gvPrice
    BY <1>a, <1>c, <2>1, ReportsAssumption DEF Given, WorthOfGift
  <2>3. EngagementTypeOK'
    BY <1>a, <2>1, <2>2 DEF EngagementTypeOK
  <2>4. ASSUME ~gvChanged', NEW u \in Payees PROVE gvPaid'[u] = Gave'[u]
    <3>1. PICK g \in Nat : g = Cardinality(With(gvGifts, "from", u))
      BY <1>d
    <3>2. PICK v \in Nat : v = Cardinality(With(gvVotes, "from", u))
      BY <1>d
    <3>3. gvPaid[u] = g * gvPrice + v
      BY <1>b, <2>1, <2>2, <2>4, <3>1, <3>2 DEF Gave
    <3>4. Cardinality(With(gvGifts', "from", u)) = g + IF given.from = u THEN 1 ELSE 0
      BY <1>a, <2>1, <3>1, OneMoreGiven
    <3>5. Gave'[u] = (g + IF given.from = u THEN 1 ELSE 0) * gvPrice + v
      BY <2>1, <2>2, <3>2, <3>4 DEF Gave
    <3>6. (g + 1) * gvPrice = g * gvPrice + gvPrice /\ g * gvPrice \in Nat
      BY <2>2
    <3>7. CASE given.from = u
      <4>1. gvPaid'[u] = gvPaid[u] + gvPrice
        BY <1>a, <2>1, <3>7
      <4> QED BY <2>2, <3>3, <3>5, <3>6, <3>7, <4>1
    <3>8. CASE given.from # u
      <4>1. gvPaid'[u] = gvPaid[u]
        BY <1>a, <2>1, <3>8
      <4>2. g + 0 = g
        OBVIOUS
      <4> QED BY <3>3, <3>5, <3>8, <4>1, <4>2
    <3> QED BY <3>7, <3>8
  <2> QED BY <2>3, <2>4 DEF EngagementInv
<1>2. ASSUME NEW given \in Given, VoteIsCast(given) PROVE EngagementInv'
  <2>1. /\ gvVotes' = Append(gvVotes, given)
        /\ gvPaid' = [gvPaid EXCEPT ![given.from] = @ + 1]
        /\ gvPrice' = gvPrice /\ gvGifts' = gvGifts /\ gvChanged' = gvChanged
    BY <1>2 DEF VoteIsCast, Pays
  <2>2. given.from \in Payees /\ WorthOfGift' = WorthOfGift
    BY <2>1 DEF Given, WorthOfGift
  <2>3. EngagementTypeOK'
    BY <1>a, <2>1, <2>2 DEF EngagementTypeOK
  <2>4. ASSUME ~gvChanged', NEW u \in Payees PROVE gvPaid'[u] = Gave'[u]
    <3>1. PICK g \in Nat : g = Cardinality(With(gvGifts, "from", u)) * WorthOfGift
      BY <1>c, <1>d
    <3>2. PICK v \in Nat : v = Cardinality(With(gvVotes, "from", u))
      BY <1>d
    <3>3. gvPaid[u] = g + v
      BY <1>b, <2>1, <2>4, <3>1, <3>2 DEF Gave
    <3>4. Cardinality(With(gvVotes', "from", u)) = v + IF given.from = u THEN 1 ELSE 0
      BY <1>a, <2>1, <3>2, OneMoreGiven
    <3>5. Gave'[u] = g + (v + IF given.from = u THEN 1 ELSE 0)
      BY <2>1, <2>2, <3>1, <3>4 DEF Gave
    <3>6. gvPaid'[u] = gvPaid[u] + IF given.from = u THEN 1 ELSE 0
      BY <1>a, <2>1
    <3> QED BY <3>3, <3>5, <3>6
  <2> QED BY <2>3, <2>4 DEF EngagementInv
<1>3. ASSUME NEW price \in Prices \cup {NULL}, GiftIsPriced(price) PROVE EngagementInv'
  <2>1. /\ gvPrice' = price /\ gvChanged' = (gvChanged \/ gvGifts # <<>>)
        /\ gvGifts' = gvGifts /\ gvVotes' = gvVotes /\ gvPaid' = gvPaid
    BY <1>3 DEF GiftIsPriced
  <2>2. EngagementTypeOK'
    BY <1>a, <2>1 DEF EngagementTypeOK
  <2>3. WorthOfGift' \in Nat
    BY <2>1, ReportsAssumption DEF WorthOfGift
  <2>4. ASSUME ~gvChanged', NEW u \in Payees PROVE gvPaid'[u] = Gave'[u]
    <3>1. gvGifts = <<>> /\ ~gvChanged
      BY <2>1, <2>4
    <3>2. Cardinality(With(gvGifts, "from", u)) = 0
      <4>1. With(<<>>, "from", u) = {}
        BY DEF With
      <4> QED BY <3>1, <4>1, FS_EmptySet
    <3>3. PICK v \in Nat : v = Cardinality(With(gvVotes, "from", u))
      BY <1>d
    <3>4. Gave[u] = 0 * WorthOfGift + v /\ Gave'[u] = 0 * WorthOfGift' + v
      BY <2>1, <3>2, <3>3 DEF Gave
    <3>5. Gave[u] = v /\ Gave'[u] = v
      <4>1. \A w \in Nat : 0 * w + v = v
        OBVIOUS
      <4> QED BY <1>c, <2>3, <3>4, <4>1
    <3> QED BY <1>b, <2>1, <3>1, <3>5
  <2> QED BY <2>2, <2>4 DEF EngagementInv
<1>4. CASE UNCHANGED engagementVars
  <2>1. UNCHANGED <<gvPrice, gvGifts, gvVotes, gvPaid, gvChanged>>
    BY <1>4 DEF engagementVars
  <2> QED BY <1>a, <1>b, <2>1 DEF EngagementInv, EngagementTypeOK, Gave, WorthOfGift
<1> QED BY <1>1, <1>2, <1>3, <1>4 DEF EngagementNext

\* Rows of one worth, counted group by group, are worth what they are worth together.
LEMMA GroupsCount ==
    ASSUME NEW D, IsFiniteSet(D), NEW S, IsFiniteSet(S), NEW w \in Int,
           NEW g, NEW group, GroupsOf(D, S, g, group),
           NEW h, \A x \in S : h[x] = Cardinality(group[x]) * w
    PROVE  SumOn(h, S) = Cardinality(D) * w
<1> DEFINE each == [i \in D |-> w]
<1>1. \A s \in SUBSET D : SumOn(each, s) = Cardinality(s) * w
  <2> TAKE s \in SUBSET D
  <2>1. IsFiniteSet(s) /\ \A i \in s : each[i] = w
    BY FS_Subset
  <2> HIDE DEF each
  <2> QED BY <2>1, SumOfSame
<1>2. \A i \in D : each[i] \in Int
  OBVIOUS
<1> HIDE DEF each
<1>3. \A x \in S : group[x] \in SUBSET D
  BY DEF GroupsOf
<1>4. \A x \in S : h[x] = SumOn(each, group[x])
  BY <1>1, <1>3
<1>5. SumOn(h, S) = SumOn(each, D)
  BY <1>2, <1>4, GroupsAddUp
<1> QED BY <1>1, <1>5

\* Gifts and votes grouped by the same value are worth, over its values, what they are worth together.
LEMMA WorthAddsUp ==
    ASSUME NEW G, IsFiniteSet(G), NEW V, IsFiniteSet(V), NEW S, IsFiniteSet(S), NEW w \in Int,
           NEW g, NEW ofG, GroupsOf(G, S, g, ofG), NEW v, NEW ofV, GroupsOf(V, S, v, ofV),
           NEW h, \A x \in S : h[x] = Cardinality(ofG[x]) * w + Cardinality(ofV[x])
    PROVE  SumOn(h, S) = Cardinality(G) * w + Cardinality(V)
<1> DEFINE hG == [x \in S |-> Cardinality(ofG[x]) * w]
           hV == [x \in S |-> Cardinality(ofV[x])]
<1>1. \A x \in S : /\ IsFiniteSet(ofG[x]) /\ Cardinality(ofG[x]) \in Nat
                   /\ IsFiniteSet(ofV[x]) /\ Cardinality(ofV[x]) \in Nat
  BY FS_Subset, FS_CardinalityType DEF GroupsOf
<1>2. Cardinality(V) \in Nat
  BY FS_CardinalityType
<1>3. \A x \in S : /\ hG[x] = Cardinality(ofG[x]) * w
                   /\ hV[x] = Cardinality(ofV[x])
                   /\ h[x] = hG[x] + hV[x]
  OBVIOUS
<1>4. \A x \in S : hG[x] \in Int /\ hV[x] \in Int /\ hV[x] = Cardinality(ofV[x]) * 1
  <2> HIDE DEF hG, hV
  <2> QED BY <1>1, <1>3
<1> HIDE DEF hG, hV
<1>5. SumOn(hG, S) = Cardinality(G) * w
  BY <1>3, GroupsCount
<1>6. SumOn(hV, S) = Cardinality(V) * 1
  BY <1>4, GroupsCount
<1>7. SumOn(h, S) = SumOn(hG, S) + SumOn(hV, S)
  BY <1>3, <1>4, SumsTogether
<1> QED BY <1>2, <1>5, <1>6, <1>7

\* The invariant says the property.
LEMMA EngagementSafe == EngagementInv => EngagementAddsUp
<1> SUFFICES ASSUME EngagementInv PROVE EngagementAddsUp
  OBVIOUS
<1>a. /\ EngagementTypeOK /\ gvGifts \in Seq(Given) /\ gvVotes \in Seq(Given)
      /\ WorthOfGift \in Nat
  BY PriceIsWorth DEF EngagementInv, EngagementTypeOK
<1>b. /\ \A i \in DOMAIN gvGifts : gvGifts[i] \in Given
      /\ \A i \in DOMAIN gvVotes : gvVotes[i] \in Given
      /\ \A u : With(gvGifts, "from", u) \in SUBSET DOMAIN gvGifts
      /\ \A u : With(gvVotes, "from", u) \in SUBSET DOMAIN gvVotes
  BY <1>a, TablesAreFinite
<1>1. \A u : /\ AllTimeDonors(u) = Cardinality(With(gvGifts, "from", u)) * WorthOfGift
                                   + Cardinality(With(gvVotes, "from", u))
             /\ AllTimeArtists(u) = Cardinality(With(gvGifts, "to", u)) * WorthOfGift
                                    + Cardinality(With(gvVotes, "to", u))
  BY <1>a, RowsAreWith DEF AllTimeDonors, AllTimeArtists, Worth
<1>2. \A e, u : GiftEngagement(e, u)
                  = Cardinality({i \in With(gvGifts, "from", u) : gvGifts[i]["event"] = e}) * WorthOfGift
                    + Cardinality({i \in With(gvVotes, "from", u) : gvVotes[i]["event"] = e})
  <2> TAKE e, u
  <2> DEFINE sent == {i \in With(gvGifts, "from", u) : gvGifts[i]["event"] = e}
             cast == {i \in With(gvVotes, "from", u) : gvVotes[i]["event"] = e}
             values == [event |-> e, from |-> u]
  <2>1. RowsOf(gvGifts, values) = sent
    BY <1>a, RowsAreWith
  <2>2. RowsOf(gvVotes, values) = cast
    BY <1>a, RowsAreWith
  <2>3. GiftEngagement(e, u) = Cardinality(RowsOf(gvGifts, values)) * WorthOfGift
                               + Cardinality(RowsOf(gvVotes, values))
    BY Zenon DEF GiftEngagement, Worth
  <2> QED BY <2>1, <2>2, <2>3, Zenon
<1>3. ~gvChanged => \A u \in Payees : AllTimeDonors(u) = gvPaid[u]
  BY <1>1 DEF EngagementInv, Gave
<1> DEFINE all == Cardinality(DOMAIN gvGifts) * WorthOfGift + Cardinality(DOMAIN gvVotes)
<1>4. SumOf([u \in Payees |-> AllTimeDonors(u)], Payees) = all
  <2> DEFINE h == [u \in Payees |-> AllTimeDonors(u)]
             G == DOMAIN gvGifts
             V == DOMAIN gvVotes
             g == [i \in G |-> gvGifts[i]["from"]]
             v == [i \in V |-> gvVotes[i]["from"]]
             ofG == [u \in Payees |-> With(gvGifts, "from", u)]
             ofV == [u \in Payees |-> With(gvVotes, "from", u)]
  <2>1. /\ \A u \in Payees : h[u] = Cardinality(ofG[u]) * WorthOfGift + Cardinality(ofV[u])
        /\ \A u \in Payees : ofG[u] \subseteq G /\ ofV[u] \subseteq V
        /\ \A u \in Payees : \A i \in G : i \in ofG[u] <=> g[i] = u
        /\ \A u \in Payees : \A i \in V : i \in ofV[u] <=> v[i] = u
    BY <1>1 DEF With
  <2>2. (\A i \in G : g[i] \in Payees) /\ (\A i \in V : v[i] \in Payees)
    BY <1>b DEF Given
  <2>3. SumOn(h, Payees) = all
    <3>1. IsFiniteSet(Payees)
      BY ReportsAssumption
    <3>2. IsFiniteSet(G) /\ IsFiniteSet(V)
      BY <1>a, TablesAreFinite
    <3> HIDE DEF h, ofG, ofV, g, v, G, V
    <3>0. PICK w \in Int : w = WorthOfGift
      BY <1>a
    <3>3. GroupsOf(G, Payees, g, ofG) /\ GroupsOf(V, Payees, v, ofV)
      BY <2>1, <2>2 DEF GroupsOf
    <3>4. \A x \in Payees : h[x] = Cardinality(ofG[x]) * w + Cardinality(ofV[x])
      BY <2>1, <3>0
    <3>5. SumOn(h, Payees) = Cardinality(G) * w + Cardinality(V)
      BY <3>1, <3>2, <3>3, <3>4, WorthAddsUp
    <3> QED BY <3>0, <3>5 DEF G, V
  <2> HIDE DEF h, ofG, ofV, g, v, G, V
  <2>4. SumOf(h, Payees) = SumOn(h, Payees)
    BY Zenon DEF SumOf, SumOn
  <2> QED BY <2>3, <2>4 DEF h
<1>5. SumOf([u \in Payees |-> AllTimeArtists(u)], Payees) = all
  <2> DEFINE h == [u \in Payees |-> AllTimeArtists(u)]
             G == DOMAIN gvGifts
             V == DOMAIN gvVotes
             g == [i \in G |-> gvGifts[i]["to"]]
             v == [i \in V |-> gvVotes[i]["to"]]
             ofG == [u \in Payees |-> With(gvGifts, "to", u)]
             ofV == [u \in Payees |-> With(gvVotes, "to", u)]
  <2>1. /\ \A u \in Payees : h[u] = Cardinality(ofG[u]) * WorthOfGift + Cardinality(ofV[u])
        /\ \A u \in Payees : ofG[u] \subseteq G /\ ofV[u] \subseteq V
        /\ \A u \in Payees : \A i \in G : i \in ofG[u] <=> g[i] = u
        /\ \A u \in Payees : \A i \in V : i \in ofV[u] <=> v[i] = u
    BY <1>1 DEF With
  <2>2. (\A i \in G : g[i] \in Payees) /\ (\A i \in V : v[i] \in Payees)
    BY <1>b DEF Given
  <2>3. SumOn(h, Payees) = all
    <3>1. IsFiniteSet(Payees)
      BY ReportsAssumption
    <3>2. IsFiniteSet(G) /\ IsFiniteSet(V)
      BY <1>a, TablesAreFinite
    <3> HIDE DEF h, ofG, ofV, g, v, G, V
    <3>0. PICK w \in Int : w = WorthOfGift
      BY <1>a
    <3>3. GroupsOf(G, Payees, g, ofG) /\ GroupsOf(V, Payees, v, ofV)
      BY <2>1, <2>2 DEF GroupsOf
    <3>4. \A x \in Payees : h[x] = Cardinality(ofG[x]) * w + Cardinality(ofV[x])
      BY <2>1, <3>0
    <3>5. SumOn(h, Payees) = Cardinality(G) * w + Cardinality(V)
      BY <3>1, <3>2, <3>3, <3>4, WorthAddsUp
    <3> QED BY <3>0, <3>5 DEF G, V
  <2> HIDE DEF h, ofG, ofV, g, v, G, V
  <2>4. SumOf(h, Payees) = SumOn(h, Payees)
    BY Zenon DEF SumOf, SumOn
  <2> QED BY <2>3, <2>4 DEF h
<1>6. ASSUME NEW u \in Payees
      PROVE  AllTimeDonors(u) = SumOf([e \in Events |-> GiftEngagement(e, u)], Events)
  <2> DEFINE h == [e \in Events |-> GiftEngagement(e, u)]
             G == With(gvGifts, "from", u)
             V == With(gvVotes, "from", u)
             g == [i \in G |-> gvGifts[i]["event"]]
             v == [i \in V |-> gvVotes[i]["event"]]
             ofG == [e \in Events |-> {i \in G : gvGifts[i]["event"] = e}]
             ofV == [e \in Events |-> {i \in V : gvVotes[i]["event"] = e}]
  <2>1. /\ \A e \in Events : h[e] = Cardinality(ofG[e]) * WorthOfGift + Cardinality(ofV[e])
        /\ \A e \in Events : ofG[e] \subseteq G /\ ofV[e] \subseteq V
        /\ \A e \in Events : \A i \in G : i \in ofG[e] <=> g[i] = e
        /\ \A e \in Events : \A i \in V : i \in ofV[e] <=> v[i] = e
    BY <1>2
  <2>2. /\ G \in SUBSET DOMAIN gvGifts /\ V \in SUBSET DOMAIN gvVotes
        /\ \A i \in G : g[i] \in Events
        /\ \A i \in V : v[i] \in Events
    BY <1>b DEF Given
  <2> HIDE DEF h, G, V, ofG, ofV, g, v
  <2>3. SumOn(h, Events) = Cardinality(G) * WorthOfGift + Cardinality(V)
    <3>1. IsFiniteSet(Events)
      BY ReportsAssumption
    <3>2. IsFiniteSet(G) /\ IsFiniteSet(V)
      BY <1>a, <2>2, TablesAreFinite
    <3>0. PICK w \in Int : w = WorthOfGift
      BY <1>a
    <3>3. GroupsOf(G, Events, g, ofG) /\ GroupsOf(V, Events, v, ofV)
      BY <2>1, <2>2 DEF GroupsOf
    <3>4. \A x \in Events : h[x] = Cardinality(ofG[x]) * w + Cardinality(ofV[x])
      BY <2>1, <3>0
    <3>5. SumOn(h, Events) = Cardinality(G) * w + Cardinality(V)
      BY <3>1, <3>2, <3>3, <3>4, WorthAddsUp
    <3> QED BY <3>0, <3>5
  <2>4. SumOf(h, Events) = SumOn(h, Events)
    BY Zenon DEF SumOf, SumOn
  <2> QED BY <1>1, <2>3, <2>4 DEF h, G, V
<1>7. ASSUME gvVotes = <<>>, NEW e \in Events, NEW u \in TopDonors(e), NEW v \in Payees
      PROVE  GiftEngagement(e, v) =< GiftEngagement(e, u)
  <2> DEFINE sent(x) == {i \in With(gvGifts, "from", x) : gvGifts[i]["event"] = e}
             cast(x) == {i \in With(gvVotes, "from", x) : gvVotes[i]["event"] = e}
  <2>1. \A x : cast(x) = {}
    BY <1>7 DEF With
  <2>2. Cardinality(sent(v)) =< Cardinality(sent(u))
    <3>1. \A x : RowsOf(gvGifts, [event |-> e, from |-> x]) = sent(x)
      BY <1>a, RowsAreWith
    <3>2. Cardinality(RowsOf(gvGifts, [event |-> e, from |-> v]))
            =< Cardinality(RowsOf(gvGifts, [event |-> e, from |-> u]))
      BY Zenon DEF TopDonors
    <3> QED BY <3>1, <3>2, Zenon
  <2>3. /\ GiftEngagement(e, u) = Cardinality(sent(u)) * WorthOfGift + Cardinality(cast(u))
        /\ GiftEngagement(e, v) = Cardinality(sent(v)) * WorthOfGift + Cardinality(cast(v))
    BY <1>2
  <2>4. Cardinality(sent(u)) \in Nat /\ Cardinality(sent(v)) \in Nat
    <3>1. sent(u) \in SUBSET DOMAIN gvGifts /\ sent(v) \in SUBSET DOMAIN gvGifts
      BY <1>b
    <3> HIDE DEF sent
    <3> QED BY <1>a, <3>1, TablesAreFinite
  <2> HIDE DEF sent, cast
  <2>5. PICK m \in Nat : m = Cardinality(sent(u))
    BY <2>4
  <2>6. PICK n \in Nat : n = Cardinality(sent(v))
    BY <2>4
  <2>7. n * WorthOfGift =< m * WorthOfGift
    <3>1. n =< m
      BY <2>2, <2>5, <2>6
    <3>2. PICK w \in Nat : w = WorthOfGift
      BY <1>a
    <3>3. n * w =< m * w
      BY <3>1
    <3> QED BY <3>2, <3>3
  <2>8. /\ GiftEngagement(e, u) = m * WorthOfGift + 0
        /\ GiftEngagement(e, v) = n * WorthOfGift + 0
    BY <2>1, <2>3, <2>5, <2>6, FS_EmptySet
  <2>9. m * WorthOfGift \in Nat /\ n * WorthOfGift \in Nat
    BY <1>a
  <2> QED BY <2>7, <2>8, <2>9
<1> HIDE DEF all
<1> QED BY <1>3, <1>4, <1>5, <1>6, <1>7 DEF EngagementAddsUp

-----------------------------------------------------------------------------
(* Together.                                                               *)

\* What moves is one part; a step of the composition is a step of it, and none of the
\* others.
LEMMA ShowsStepsAreOfParts ==
    ASSUME [ShowsNext]_showsVars
    PROVE  /\ [DuelNext]_duelVars
           /\ [RankNext]_rankVars
           /\ [StageNext]_stageVars
           /\ [ReminderNext]_reminderVars
           /\ [BadgeNext]_badgeVars
           /\ [SeasonNext]_seasonVars
           /\ [LeaderboardNext]_leaderboardVars
           /\ [ApprovalNext]_approvalVars
           /\ [ReportNext]_reportVars
           /\ [LikeNext]_likeVars
           /\ [HeartNext]_heartVars
           /\ [LiveNext]_liveVars
           /\ [JoinNext]_joinVars
           /\ [ListNext]_listVars
           /\ [PresenceNext]_presenceVars
           /\ [RevenueNext]_revenueVars
           /\ [EngagementNext]_engagementVars
<1>1. [DuelNext]_duelVars
  BY DEF ShowsNext, Only, showsVars
<1>2. [RankNext]_rankVars
  BY DEF ShowsNext, Only, showsVars
<1>3. [StageNext]_stageVars
  BY DEF ShowsNext, Only, showsVars
<1>4. [ReminderNext]_reminderVars
  BY DEF ShowsNext, Only, showsVars
<1>5. [BadgeNext]_badgeVars
  BY DEF ShowsNext, Only, showsVars
<1>6. [SeasonNext]_seasonVars
  BY DEF ShowsNext, Only, showsVars
<1>7. [LeaderboardNext]_leaderboardVars
  BY DEF ShowsNext, Only, showsVars
<1>8. [ApprovalNext]_approvalVars
  BY DEF ShowsNext, Only, showsVars
<1>9. [ReportNext]_reportVars
  BY DEF ShowsNext, Only, showsVars
<1>10. [LikeNext]_likeVars
  BY DEF ShowsNext, Only, showsVars
<1>11. [HeartNext]_heartVars
  BY DEF ShowsNext, Only, showsVars
<1>12. [LiveNext]_liveVars
  BY DEF ShowsNext, Only, showsVars
<1>13. [JoinNext]_joinVars
  BY DEF ShowsNext, Only, showsVars
<1>14. [ListNext]_listVars
  BY DEF ShowsNext, Only, showsVars
<1>15. [PresenceNext]_presenceVars
  BY DEF ShowsNext, Only, showsVars
<1>16. [RevenueNext]_revenueVars
  BY DEF ShowsNext, Only, showsVars
<1>17. [EngagementNext]_engagementVars
  BY DEF ShowsNext, Only, showsVars
<1> QED BY <1>1, <1>2, <1>3, <1>4, <1>5, <1>6, <1>7, <1>8, <1>9, <1>10, <1>11, <1>12, <1>13, <1>14, <1>15, <1>16, <1>17

\* The composition implements each of its parts: what is proved of a part holds of
\* whatever the composition does.
THEOREM ShowsAreParts ==
    ShowsSpec =>
      /\ DuelSpec
      /\ RankSpec
      /\ StageSpec
      /\ ReminderSpec
      /\ BadgeSpec
      /\ SeasonSpec
      /\ LeaderboardSpec
      /\ ApprovalSpec
      /\ ReportSpec
      /\ LikeSpec
      /\ HeartSpec
      /\ LiveSpec
      /\ JoinSpec
      /\ ListSpec
      /\ PresenceSpec
      /\ RevenueSpec
      /\ EngagementSpec
<1>1. ShowsInit =>
      /\ DuelInit
      /\ RankInit
      /\ StageInit
      /\ ReminderInit
      /\ BadgeInit
      /\ SeasonInit
      /\ LeaderboardInit
      /\ ApprovalInit
      /\ ReportInit
      /\ LikeInit
      /\ HeartInit
      /\ LiveInit
      /\ JoinInit
      /\ ListInit
      /\ PresenceInit
      /\ RevenueInit
      /\ EngagementInit
  BY DEF ShowsInit
<1>2. [ShowsNext]_showsVars =>
      /\ [DuelNext]_duelVars
      /\ [RankNext]_rankVars
      /\ [StageNext]_stageVars
      /\ [ReminderNext]_reminderVars
      /\ [BadgeNext]_badgeVars
      /\ [SeasonNext]_seasonVars
      /\ [LeaderboardNext]_leaderboardVars
      /\ [ApprovalNext]_approvalVars
      /\ [ReportNext]_reportVars
      /\ [LikeNext]_likeVars
      /\ [HeartNext]_heartVars
      /\ [LiveNext]_liveVars
      /\ [JoinNext]_joinVars
      /\ [ListNext]_listVars
      /\ [PresenceNext]_presenceVars
      /\ [RevenueNext]_revenueVars
      /\ [EngagementNext]_engagementVars
  BY ShowsStepsAreOfParts
<1> QED BY <1>1, <1>2, PTL DEF ShowsSpec, DuelSpec, RankSpec, StageSpec,
       ReminderSpec, BadgeSpec, SeasonSpec, LeaderboardSpec, ApprovalSpec, ReportSpec,
       LikeSpec, HeartSpec, LiveSpec, JoinSpec, ListSpec, PresenceSpec, RevenueSpec,
       EngagementSpec

\* The properties that the runs check of the composition.
THEOREM ShowsAreSafe ==
    ShowsSpec => [](/\ DuelsMatchAnswers /\ OneRanking /\ PerformerIsRecorded /\ ToldOnce
                    /\ BadgesAreOneRun /\ WinnersServed)
BY ShowsAreParts, DuelsAnswered, RankingIsOne, StageIsRecorded, RemindersTellOnce,
   WinnersAreServed, BadgesOfOneRun, PTL

\* What is approved was seen, lists list what stays once, and a verdict is of a review.
THEOREM DecisionsAreKept == ShowsSpec => []DecisionsStand
<1>1. ReadByCursor /\ ReadByPages /\ Vetted /\ VerdictsAreLogged => DecisionsStand
  BY DEF DecisionsStand, AudienceSeesApproved, ListedOnce
<1> QED BY <1>1, ShowsAreParts, CursorPagesAreComplete, PagesAreComplete, ConcertsAreVetted,
        VerdictsOfLog, PTL

\* The audience is counted and told right but for requests that overlap, whoever likes,
\* joins, comes and goes.
THEOREM AudienceServed == ShowsSpec => []AudienceIsServed
<1>1. LikeSpec => []LikeInv
  BY LikeInitial, LikeStep, PTL DEF LikeSpec
<1>2. HeartSpec => []HeartInv
  BY HeartInitial, HeartStep, PTL DEF HeartSpec
<1>3. LiveSpec => []LiveInv
  BY LiveInitial, LiveStep, PTL DEF LiveSpec
<1>4. JoinSpec => []JoinInv
  BY JoinInitial, JoinStep, PTL DEF JoinSpec
<1>5. PresenceSpec => []PresenceInv
  BY PresenceInitial, PresenceStep, PTL DEF PresenceSpec
<1> QED BY <1>1, <1>2, <1>3, <1>4, <1>5, ShowsAreParts, AudienceSafe, PTL

\* Points drift from what was paid for by overlapping payments alone, and what users and
\* admins are shown of revenues, gifts and votes adds up, whoever pays whom for what.
THEOREM TotalsAlwaysAgree == ShowsSpec => []TotalsAgree
<1>1. LeaderboardSpec => []LeaderboardInv
  BY LeaderboardInitial, LeaderboardStep, PTL DEF LeaderboardSpec
<1>2. RevenueSpec => []RevenueInv
  BY RevenueInitial, RevenueStep, PTL DEF RevenueSpec
<1>3. EngagementSpec => []EngagementInv
  BY EngagementInitial, EngagementStep, PTL DEF EngagementSpec
<1>4. LeaderboardInv /\ RevenueInv /\ EngagementInv => TotalsAgree
  BY LeaderboardSafe, RevenueSafe, EngagementSafe DEF TotalsAgree
<1> QED BY <1>1, <1>2, <1>3, <1>4, ShowsAreParts, PTL

\* Whatever part moves, its variables hold values of their types: for all values of the
\* constants of all parts.
THEOREM ShowsTyped == ShowsSpec => []ShowsTypeOK
<1>1. ShowsInit => focus \in Parts
  BY DEF ShowsInit
<1>2. focus \in Parts /\ [ShowsNext]_showsVars => (focus \in Parts)'
  BY Zenon DEF ShowsNext, Only, showsVars
<1>3. LeaderboardSpec => []LeaderboardTypeOK
  <2>1. LeaderboardInv => LeaderboardTypeOK
    BY DEF BoardTyped, LeaderboardInv
  <2> QED BY <2>1, LeaderboardInitial, LeaderboardStep, PTL DEF LeaderboardSpec
<1>4. LikeSpec => []LikeTypeOK
  <2>1. LikeInv => LikeTypeOK
    BY DEF LikeInv
  <2> QED BY <2>1, LikeInitial, LikeStep, PTL DEF LikeSpec
<1>5. HeartSpec => []HeartTypeOK
  <2>1. HeartInv => HeartTypeOK
    BY DEF HeartInv
  <2> QED BY <2>1, HeartInitial, HeartStep, PTL DEF HeartSpec
<1>6. LiveSpec => []LiveTypeOK
  <2>1. LiveInv => LiveTypeOK
    BY DEF LiveInv
  <2> QED BY <2>1, LiveInitial, LiveStep, PTL DEF LiveSpec
<1>7. JoinSpec => []JoinTypeOK
  <2>1. JoinInv => JoinTypeOK
    BY DEF JoinInv
  <2> QED BY <2>1, JoinInitial, JoinStep, PTL DEF JoinSpec
<1>8. PresenceSpec => []PresenceTypeOK
  <2>1. PresenceInv => PresenceTypeOK
    BY DEF PresenceInv
  <2> QED BY <2>1, PresenceInitial, PresenceStep, PTL DEF PresenceSpec
<1>9. RevenueSpec => []RevenueTypeOK
  <2>1. RevenueInv => RevenueTypeOK
    BY DEF RevenueInv
  <2> QED BY <2>1, RevenueInitial, RevenueStep, PTL DEF RevenueSpec
<1>10. EngagementSpec => []EngagementTypeOK
  <2>1. EngagementInv => EngagementTypeOK
    BY DEF EngagementInv
  <2> QED BY <2>1, EngagementInitial, EngagementStep, PTL DEF EngagementSpec
<1>11.
      /\ focus \in Parts
      /\ DuelTypeOK
      /\ RankTypeOK
      /\ StageTypeOK
      /\ ReminderTypeOK
      /\ BadgeTypeOK
      /\ SeasonTypeOK
      /\ LeaderboardTypeOK
      /\ ApprovalTypeOK
      /\ ReportTypeOK
      /\ LikeTypeOK
      /\ HeartTypeOK
      /\ LiveTypeOK
      /\ JoinTypeOK
      /\ ListTypeOK
      /\ PresenceTypeOK
      /\ RevenueTypeOK
      /\ EngagementTypeOK
      => ShowsTypeOK
  BY DEF ShowsTypeOK
<1> QED BY <1>1, <1>2, <1>3, <1>4, <1>5, <1>6, <1>7, <1>8, <1>9, <1>10, <1>11,
        DuelsAnswered, RankingIsOne, StageIsRecorded, RemindersTellOnce, BadgesOfOneRun,
        WinnersAreServed, ConcertsAreVetted, VerdictsOfLog, CursorPagesAreComplete,
        ShowsAreParts, PTL DEF ShowsSpec
=============================================================================
