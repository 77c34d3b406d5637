------------------------------ MODULE Audience ------------------------------
(***************************************************************************)
(* What an audience does. Likes of a comment, a video or a replay          *)
(* (LikeSpec): a toggle looks for the user's like, makes it or takes it    *)
(* back, counts, and saves the number, while views are counted and the     *)
(* author edits. The likes of lives (HeartSpec). The status of a live      *)
(* (LiveSpec), saved by id after a look at the row and then told to the    *)
(* room. A viewer who asks to join it (JoinSpec). Who is in the room       *)
(* (PresenceSpec, realtime/index.js).                                      *)
(*                                                                         *)
(* One item, one live, one viewer who asks: state machines that share no   *)
(* row. comment_likes and replay_likes have a unique key on item and user; *)
(* video_interactions and live_join_requests have none. live_likes has a   *)
(* primary key on likes_count: the generator of the schema took the first  *)
(* column, as there is neither an id nor a user_id.                        *)
(***************************************************************************)
EXTENDS Null, Integers, Sequences, FiniteSets, FiniteSetsExt

CONSTANTS
    Likers,         \* users who like
    Togglers,       \* requests that toggle a like, one at a time each
    MaxLikes,       \* bound: rows of likes
    MaxViews,       \* bound: views of the item
    Rooms,          \* lives that are liked
    Fans,           \* requests that like one
    MaxHearts,      \* bound: likes of a live
    LiveUpdates,    \* requests that change the status of the live
    Joiners,        \* the viewer's requests to join
    Hosts,          \* requests that answer, or cancel, one
    MaxJoins,       \* bound: rows of the viewer
    Sockets,        \* connections to the room of the live
    MaxRecounts     \* bound: recounts of the room that are due

ASSUME AudienceAssumption ==
    /\ IsFiniteSet(Likers) /\ IsFiniteSet(Rooms) /\ IsFiniteSet(Joiners)
    /\ IsFiniteSet(Sockets)
    /\ MaxRecounts \in Nat
    /\ MaxLikes \in Nat /\ MaxViews \in Nat /\ MaxHearts \in Nat /\ MaxJoins \in Nat

VARIABLES
    lkKind,         \* what is liked; NULL before there is something
    lkItem,         \* its likes_count (a replay has none) and views_count
    lkRows,         \* whose like each row is, or NULL
    lkToggle,       \* what a toggle has in hand, or NULL
    lkEdit,         \* the item as its author's edit read it, or NULL
    \* history:
    lkSeen,         \* views
    lkTwice,        \* users whose toggles overlapped
    lkDrift         \* the last toggle was not alone, or broke off

likeVars == <<lkKind, lkItem, lkRows, lkToggle, lkEdit, lkSeen, lkTwice,
              lkDrift>>

LikeRows == 1..MaxLikes
Item == [count : Nat, views : Nat]
Toggle ==
    [user : Likers, at : {"begun", "found", "changed", "counted"},
     read : Nat,                        \* likes_count, as the toggle found it
     found : LikeRows \cup {NULL},      \* the user's like
     likes : Nat,                       \* what it counted
     alone : BOOLEAN]                   \* no other toggle was at work so far

ASSUME LikeAssumption ==
    /\ NULL \notin {"comment", "video", "replay"} /\ NULL \notin Likers
    /\ NULL \notin LikeRows /\ NULL \notin Toggle /\ NULL \notin Item

LikeTypeOK ==
    /\ lkKind \in {"comment", "video", "replay", NULL}
    /\ lkItem \in Item
    /\ lkRows \in [LikeRows -> Likers \cup {NULL}]
    /\ lkToggle \in [Togglers -> Toggle \cup {NULL}]
    /\ lkEdit \in Item \cup {NULL}
    /\ lkSeen \in 0..MaxViews /\ lkTwice \subseteq Likers /\ lkDrift \in BOOLEAN

LikeInit ==
    /\ lkKind = NULL
    /\ lkItem = [count |-> 0, views |-> 0]
    /\ lkRows = [n \in LikeRows |-> NULL]
    /\ lkToggle = [t \in Togglers |-> NULL]
    /\ lkEdit = NULL
    /\ lkSeen = 0 /\ lkTwice = {} /\ lkDrift = FALSE

LikesOf(u) == {n \in LikeRows : lkRows[n] = u}
Likes == {n \in LikeRows : lkRows[n] # NULL}
Toggling == {t \in Togglers : lkToggle[t] # NULL}
\* An id no row has or had for a toggle at work.
NewRow ==
    LET free == LikeRows \ (Likes \cup {lkToggle[s].found : s \in Toggling})
    IN  {n \in free : \A m \in free : n <= m}
To(t, at) == [lkToggle EXCEPT ![t].at = at]

-----------------------------------------------------------------------------
Appears(kind) ==
    /\ lkKind = NULL
    /\ lkKind' = kind
    /\ UNCHANGED <<lkItem, lkRows, lkToggle, lkEdit, lkSeen, lkTwice, lkDrift>>

\* createComment, createVideo, createReplay.
WriteComment == Appears("comment")
PublishVideo == Appears("video")
PublishReplay == Appears("replay")

\* Comment.findByPk, LifestyleVideo.findByPk; nothing is read of a replay.
ReadItem(t, u) ==
    /\ lkKind # NULL /\ lkToggle[t] = NULL
    /\ lkToggle' =
         [s \in Togglers |->
            IF s = t
            THEN [user |-> u, at |-> "begun", read |-> lkItem.count, found |-> NULL,
                  likes |-> 0, alone |-> Toggling = {}]
            ELSE IF s \in Toggling THEN [lkToggle[s] EXCEPT !.alone = FALSE] ELSE NULL]
    /\ lkTwice' = IF \E s \in Toggling : lkToggle[s].user = u
                    THEN lkTwice \cup {u} ELSE lkTwice
    /\ UNCHANGED <<lkKind, lkItem, lkRows, lkEdit, lkSeen, lkDrift>>

FindLike(t) ==
    /\ t \in Toggling /\ lkToggle[t].at = "begun"
    /\ LET mine == LikesOf(lkToggle[t].user)
       IN  \E n \in IF mine = {} THEN {NULL} ELSE mine :
             lkToggle' = [To(t, "found") EXCEPT ![t].found = n]
    /\ UNCHANGED <<lkKind, lkItem, lkRows, lkEdit, lkSeen, lkTwice, lkDrift>>

\* destroy, of a row that may be gone; or create, which the unique key refuses.
ChangeLike(t) ==
    /\ t \in Toggling /\ lkToggle[t].at = "found"
    /\ LET it == lkToggle[t]
       IN  \/ /\ it.found # NULL
              /\ lkRows' = [lkRows EXCEPT ![it.found] = IF @ = it.user THEN NULL ELSE @]
              /\ lkToggle' = [To(t, "changed") EXCEPT ![t].found = NULL]
           \/ /\ it.found = NULL
              /\ lkKind = "video" \/ LikesOf(it.user) = {}
              /\ \E n \in NewRow : lkRows' = [lkRows EXCEPT ![n] = it.user]
              /\ lkToggle' = To(t, "changed")
           \/ /\ it.found = NULL
              /\ lkKind # "video" /\ LikesOf(it.user) # {}
              /\ lkToggle' = [lkToggle EXCEPT ![t] = NULL]
              /\ UNCHANGED lkRows
    /\ UNCHANGED <<lkKind, lkItem, lkEdit, lkSeen, lkTwice, lkDrift>>

\* mutant: one more than it read
OneMore(it) == it.read + 1
Counted(it) == Cardinality(Likes)

\* The count; a replay's toggle answers with it.
CountLikes(t) ==
    /\ t \in Toggling /\ lkToggle[t].at = "changed"
    /\ lkToggle' = [To(t, "counted") EXCEPT ![t].likes = Counted(lkToggle[t])]
    /\ UNCHANGED <<lkKind, lkItem, lkRows, lkEdit, lkSeen, lkTwice, lkDrift>>

\* save() writes the number if it is not the one that was read.
SaveCount(t) ==
    /\ t \in Toggling /\ lkToggle[t].at = "counted"
    /\ LET it == lkToggle[t]
       IN  /\ lkItem' = IF lkKind = "replay" \/ it.likes = it.read THEN lkItem
                        ELSE [lkItem EXCEPT !.count = it.likes]
           /\ lkDrift' = ~it.alone
    /\ lkToggle' = [lkToggle EXCEPT ![t] = NULL]
    /\ UNCHANGED <<lkKind, lkRows, lkEdit, lkSeen, lkTwice>>

ToggleBreaksOff(t) ==
    /\ t \in Toggling
    /\ lkDrift' = (lkDrift \/ lkToggle[t].at \in {"changed", "counted"})
    /\ lkToggle' = [lkToggle EXCEPT ![t] = NULL]
    /\ UNCHANGED <<lkKind, lkItem, lkRows, lkEdit, lkSeen, lkTwice>>

\* incrementViews: in the database.
View ==
    /\ lkKind \in {"video", "replay"} /\ lkSeen < MaxViews
    /\ lkItem' = [lkItem EXCEPT !.views = @ + 1]
    /\ lkSeen' = lkSeen + 1
    /\ UNCHANGED <<lkKind, lkRows, lkToggle, lkEdit, lkTwice, lkDrift>>

\* assertCanEdit.
AuthorReads ==
    /\ lkKind \in {"video", "replay"} /\ lkEdit = NULL
    /\ lkEdit' = lkItem
    /\ UNCHANGED <<lkKind, lkItem, lkRows, lkToggle, lkSeen, lkTwice, lkDrift>>

\* mutant: the whole row is written
WholeRow(read, item) == read
\* The columns of the patch, and no number is among them.
SavedItem(read, item) == item

AuthorSaves ==
    /\ lkEdit # NULL
    /\ lkItem' = SavedItem(lkEdit, lkItem)
    /\ lkEdit' = NULL
    /\ UNCHANGED <<lkKind, lkRows, lkToggle, lkSeen, lkTwice, lkDrift>>

LikeNext ==
    \/ WriteComment \/ PublishVideo \/ PublishReplay
    \/ \E t \in Togglers :
         \/ \E u \in Likers : ReadItem(t, u)
         \/ FindLike(t) \/ ChangeLike(t) \/ CountLikes(t)
         \/ SaveCount(t) \/ ToggleBreaksOff(t)
    \/ View \/ AuthorReads \/ AuthorSaves

LikeSpec == LikeInit /\ [][LikeNext]_likeVars

-----------------------------------------------------------------------------
(* Likes of lives.                                                         *)

VARIABLES
    htRows,         \* live_likes, by primary key: the live whose likes_count it is
    htCall,         \* what a request to like a live has in hand, or NULL
    htTold,         \* the number the room of a live was told last
    \* history:
    htGiven         \* the likes that were accepted

heartVars == <<htRows, htCall, htTold, htGiven>>

HeartCall == [room : Rooms, likes : 0..2 \cup {NULL}]

ASSUME HeartAssumption ==
    NULL \notin Rooms /\ NULL \notin HeartCall /\ NULL \notin 0..2

HeartTypeOK ==
    /\ htRows \in [1..2 -> Rooms \cup {NULL}]
    /\ htCall \in [Fans -> HeartCall \cup {NULL}]
    /\ htTold \in [Rooms -> 0..2] /\ htGiven \in [Rooms -> 0..MaxHearts]

HeartInit ==
    /\ htRows = [n \in 1..2 |-> NULL]
    /\ htCall = [f \in Fans |-> NULL]
    /\ htTold = [l \in Rooms |-> 0] /\ htGiven = [l \in Rooms |-> 0]

\* mutant: the row of the same number stays, as under a key on live_id
BesideIt(l) ==
    IF htRows[1] = NULL THEN [htRows EXCEPT ![1] = l] ELSE [htRows EXCEPT ![2] = l]
\* INSERT (live_id, 1) ON DUPLICATE KEY UPDATE likes_count + 1: the key that is
\* there twice is the 1, whichever live it counts.
Counting(l) ==
    IF htRows[1] = NULL THEN [htRows EXCEPT ![1] = l]
    ELSE [n \in 1..2 |-> IF n = 1 THEN NULL ELSE htRows[1]]

\* The UPDATE, in turn, is refused when there is a 2.
HeartInserts(f, l) ==
    /\ htCall[f] = NULL /\ htGiven[l] < MaxHearts
    /\ htRows[1] = NULL \/ htRows[2] = NULL
    /\ htRows' = Counting(l)
    /\ htCall' = [htCall EXCEPT ![f] = [room |-> l, likes |-> NULL]]
    /\ htGiven' = [htGiven EXCEPT ![l] = @ + 1]
    /\ UNCHANGED htTold

\* The numbers of a live; no row is a 0.
NumbersOf(l) ==
    LET n == {m \in 1..2 : htRows[m] = l} IN IF n = {} THEN {0} ELSE n

HeartReads(f) ==
    /\ htCall[f] # NULL /\ htCall[f].likes = NULL
    /\ \E n \in NumbersOf(htCall[f].room) :
         htCall' = [htCall EXCEPT ![f].likes = n]
    /\ UNCHANGED <<htRows, htTold, htGiven>>

\* emitToRoom, and the answer.
HeartTells(f) ==
    /\ htCall[f] # NULL /\ htCall[f].likes # NULL
    /\ htTold' = [htTold EXCEPT ![htCall[f].room] = htCall[f].likes]
    /\ htCall' = [htCall EXCEPT ![f] = NULL]
    /\ UNCHANGED <<htRows, htGiven>>

HeartNext ==
    \E f \in Fans :
      (\E l \in Rooms : HeartInserts(f, l)) \/ HeartReads(f) \/ HeartTells(f)

HeartSpec == HeartInit /\ [][HeartNext]_heartVars

-----------------------------------------------------------------------------
(* Lives.                                                                  *)

VARIABLES
    lvStatus,       \* of the live; NULL before it starts
    lvUpdate,       \* what a change of the status read and makes of it, or NULL
    lvTold,         \* what the room was told last
    \* history:
    lvDrift         \* the last change was not alone, or broke off

liveVars == <<lvStatus, lvUpdate, lvTold, lvDrift>>

LiveStatuses == {"upcoming", "live", "ended"}
LiveUpdate == [to : LiveStatuses, read : LiveStatuses, saved : BOOLEAN, alone : BOOLEAN]

ASSUME LiveAssumption == NULL \notin LiveStatuses /\ NULL \notin LiveUpdate

LiveTypeOK ==
    /\ lvStatus \in LiveStatuses \cup {NULL} /\ lvTold \in LiveStatuses \cup {NULL}
    /\ lvUpdate \in [LiveUpdates -> LiveUpdate \cup {NULL}]
    /\ lvDrift \in BOOLEAN

LiveInit ==
    /\ lvStatus = NULL /\ lvTold = NULL
    /\ lvUpdate = [w \in LiveUpdates |-> NULL]
    /\ lvDrift = FALSE

Updating == {w \in LiveUpdates : lvUpdate[w] # NULL}

\* Who comes to the room reads the row.
StartLive ==
    /\ lvStatus = NULL
    /\ lvStatus' = "live" /\ lvTold' = "live"
    /\ UNCHANGED <<lvUpdate, lvDrift>>

\* endLive, updateLiveStatus: any status may follow any other.
UpdateReadsLive(w, to) ==
    /\ lvStatus # NULL /\ lvUpdate[w] = NULL
    /\ lvUpdate' =
         [v \in LiveUpdates |->
            IF v = w
            THEN [to |-> to, read |-> lvStatus, saved |-> FALSE, alone |-> Updating = {}]
            ELSE IF v \in Updating THEN [lvUpdate[v] EXCEPT !.alone = FALSE] ELSE NULL]
    /\ UNCHANGED <<lvStatus, lvTold, lvDrift>>

UpdateSavesLive(w) ==
    /\ w \in Updating /\ ~lvUpdate[w].saved
    /\ lvStatus' = IF lvUpdate[w].to = lvUpdate[w].read THEN lvStatus
                   ELSE lvUpdate[w].to
    /\ lvUpdate' = [lvUpdate EXCEPT ![w].saved = TRUE]
    /\ UNCHANGED <<lvTold, lvDrift>>

\* mutant: the room is told what was read
WhatWasRead(it) == it.read
Announced(it) == it.to

\* emitToRoom, after the save.
UpdateTells(w) ==
    /\ w \in Updating /\ lvUpdate[w].saved
    /\ lvTold' = Announced(lvUpdate[w])
    /\ lvDrift' = ~lvUpdate[w].alone
    /\ lvUpdate' = [lvUpdate EXCEPT ![w] = NULL]
    /\ UNCHANGED <<lvStatus>>

UpdateBreaksOff(w) ==
    /\ w \in Updating
    /\ lvDrift' = (lvDrift \/ lvUpdate[w].saved)
    /\ lvUpdate' = [lvUpdate EXCEPT ![w] = NULL]
    /\ UNCHANGED <<lvStatus, lvTold>>

LiveNext ==
    \/ StartLive
    \/ \E w \in LiveUpdates :
         \/ \E to \in LiveStatuses : UpdateReadsLive(w, to)
         \/ UpdateSavesLive(w) \/ UpdateTells(w) \/ UpdateBreaksOff(w)

LiveSpec == LiveInit /\ [][LiveNext]_liveVars

-----------------------------------------------------------------------------
(* Requests to join.                                                       *)

VARIABLES
    jnRows,         \* the status of the viewer's requests
    jnCalls,        \* the calls that found none pending
    jnAnswer,       \* what an answer has in hand, or NULL
    \* history:
    jnTwice         \* calls of the viewer overlapped

joinVars == <<jnRows, jnCalls, jnAnswer, jnTwice>>

Answers == {"accepted", "rejected", "ended", "cancelled"}
Waiting == {r \in DOMAIN jnRows : jnRows[r] = "pending"}

JoinTypeOK ==
    /\ \A r \in DOMAIN jnRows : jnRows[r] \in Answers \cup {"pending"}
    /\ jnCalls \subseteq Joiners
    /\ \A h \in Hosts : jnAnswer[h] = NULL \/ jnAnswer[h].row \in DOMAIN jnRows
    /\ jnTwice \in BOOLEAN

JoinInit ==
    /\ jnRows = <<>> /\ jnCalls = {}
    /\ jnAnswer = [h \in Hosts |-> NULL]
    /\ jnTwice = FALSE

\* mutant: every call makes a row
Always == TRUE
\* findOrCreate: no row of the viewer is pending.
NoneWaiting == Waiting = {}

\* The status of the live is not looked at.
JoinLooks(j) ==
    /\ j \notin jnCalls /\ NoneWaiting
    /\ jnCalls' = jnCalls \cup {j}
    /\ jnTwice' = (jnTwice \/ jnCalls # {})
    /\ UNCHANGED <<jnRows, jnAnswer>>

JoinCreates(j) ==
    /\ j \in jnCalls /\ Len(jnRows) < MaxJoins
    /\ jnCalls' = jnCalls \ {j}
    /\ jnRows' = Append(jnRows, "pending")
    /\ UNCHANGED <<jnAnswer, jnTwice>>

\* respondJoin, cancelJoinRequest: neither looks at the status.
AnswerReads(h, r, to) ==
    /\ jnAnswer[h] = NULL
    /\ jnAnswer' = [jnAnswer EXCEPT ![h] = [row |-> r, to |-> to, read |-> jnRows[r]]]
    /\ UNCHANGED <<jnRows, jnCalls, jnTwice>>

AnswerSaves(h) ==
    /\ jnAnswer[h] # NULL
    /\ LET it == jnAnswer[h]
       IN  jnRows' = IF it.to = it.read THEN jnRows
                     ELSE [jnRows EXCEPT ![it.row] = it.to]
    /\ jnAnswer' = [jnAnswer EXCEPT ![h] = NULL]
    /\ UNCHANGED <<jnCalls, jnTwice>>

JoinNext ==
    \/ \E j \in Joiners : JoinLooks(j) \/ JoinCreates(j)
    \/ \E h \in Hosts :
         \/ \E r \in DOMAIN jnRows, to \in Answers : AnswerReads(h, r, to)
         \/ AnswerSaves(h)

JoinSpec == JoinInit /\ [][JoinNext]_joinVars

-----------------------------------------------------------------------------
(* Who is in the room of a live, in one process.                           *)

VARIABLES
    psOpen,     \* open connections
    psRoom,     \* those that are in the room
    psTold,     \* the number each was told last, or NULL
    psDue       \* recounts that wait for their turn

presenceVars == <<psOpen, psRoom, psTold, psDue>>

PresenceTypeOK ==
    /\ psRoom \subseteq psOpen /\ psOpen \subseteq Sockets
    /\ psTold \in [Sockets -> 0..Cardinality(Sockets) \cup {NULL}]
    /\ psDue \in 0..MaxRecounts

PresenceInit ==
    /\ psOpen = {} /\ psRoom = {} /\ psDue = 0
    /\ psTold = [s \in Sockets |-> NULL]

\* mutant: socket.to(room): the others are told
ToldTheOthers(room) ==
    [s \in Sockets |-> IF s \in room \cap psRoom THEN Cardinality(room) ELSE psTold[s]]
\* emitPresence: all in the room are told how many they are.
ToldAll(room) ==
    [s \in Sockets |-> IF s \in room THEN Cardinality(room) ELSE psTold[s]]

Connects(s) ==
    /\ s \notin psOpen /\ psOpen' = psOpen \cup {s}
    /\ psTold' = [psTold EXCEPT ![s] = NULL]
    /\ UNCHANGED <<psRoom, psDue>>

JoinsRoom(s) ==
    /\ s \in psOpen
    /\ psRoom' = psRoom \cup {s} /\ psTold' = ToldAll(psRoom')
    /\ UNCHANGED <<psOpen, psDue>>

LeavesRoom(s) ==
    /\ s \in psOpen
    /\ psRoom' = psRoom \ {s} /\ psTold' = ToldAll(psRoom')
    /\ UNCHANGED <<psOpen, psDue>>

\* On disconnecting the socket is still in its rooms: the recount is put off.
Disconnects(s) ==
    /\ s \in psOpen /\ psOpen' = psOpen \ {s} /\ psRoom' = psRoom \ {s}
    /\ psDue' = IF s \in psRoom THEN psDue + 1 ELSE psDue
    /\ psDue' =< MaxRecounts
    /\ UNCHANGED psTold

Recounts ==
    /\ psDue > 0 /\ psDue' = psDue - 1
    /\ psTold' = ToldAll(psRoom)
    /\ UNCHANGED <<psOpen, psRoom>>

PresenceNext ==
    \/ \E s \in Sockets : Connects(s) \/ JoinsRoom(s) \/ LeavesRoom(s) \/ Disconnects(s)
    \/ Recounts

PresenceSpec == PresenceInit /\ [][PresenceNext]_presenceVars

-----------------------------------------------------------------------------
(* Properties.                                                             *)

\* What is shown as the number of likes. listComments: likeCount.get(id) ??
\* likes_count, so a comment nobody likes shows the number of the last toggle.
Shown ==
    IF lkKind = "replay" \/ (lkKind = "comment" /\ Likes # {})
    THEN Cardinality(Likes) ELSE lkItem.count

\* No view is lost; a user likes an item once, but for a video he toggled twice at
\* once; and the number shown is right, or is put right by the next toggle alone.
LikesAddUp ==
    /\ lkItem.views = lkSeen
    /\ \A u \in Likers :
         Cardinality(LikesOf(u)) > 1 => lkKind = "video" /\ u \in lkTwice
    /\ Toggling = {} /\ ~lkDrift => Shown = Cardinality(Likes)

\* The room was told the status the live has, unless changes of it overlapped or
\* broke off; and a viewer waits with one request, unless he sent several at once.
RoomKnows ==
    /\ Updating = {} /\ ~lvDrift => lvTold = lvStatus
    /\ ~jnTwice => Cardinality(Waiting) <= 1

\* Every like that was accepted is counted, if not for its live.
HeartsAddUp ==
    SumSet({n \in 1..2 : htRows[n] # NULL}) = MapThenSumSet(LAMBDA l : htGiven[l], Rooms)

\* Whoever is in the room knows how many are, once no recount is due.
RoomIsCounted == psDue = 0 => \A s \in psRoom : psTold[s] = Cardinality(psRoom)

\* An audience is counted and told right but for requests that overlap.
AudienceIsServed == LikesAddUp /\ HeartsAddUp /\ RoomKnows /\ RoomIsCounted
=============================================================================
