------------------------------ MODULE Listing ------------------------------
(***************************************************************************)
(* How the lists of the API are read page by page (utils/pagination.js)    *)
(* while rows come and go. A page is the first rows after a cursor, which  *)
(* holds created_at and id of the last row of the page before; or, for     *)
(* ?page=n, those at an offset. All lists are sorted downwards, by a       *)
(* column and then by id.                                                  *)
(*                                                                         *)
(* A list is what its function makes of it: the column it is sorted by,    *)
(* and what becomes of the cursor. Its filters do not change while it is   *)
(* read: a row that ceases to match is gone, one that begins to is new.    *)
(***************************************************************************)
EXTENDS Integers, FiniteSets

CONSTANTS
    Rows,       \* rows there may be
    Id,         \* the order of their ids
    Column,     \* their values in the columns that are sorted by
    Limit       \* rows of a page

Columns == {"created_at", "scheduled_date", "banned_at"}

ASSUME ListingAssumption ==
    /\ IsFiniteSet(Rows)
    /\ Id \in [Rows -> Nat]
    /\ \A r, s \in Rows : Id[r] = Id[s] => r = s
    /\ Column \in [Columns -> [Rows -> Nat]]
    /\ Limit \in Nat \ {0}

-----------------------------------------------------------------------------
(* The lists.                                                              *)

\* The keyset condition is part of the where of the query.
Newest == [sort |-> "created_at", cursor |-> "where"]

listLives == Newest
listBlogs == Newest
listMine == Newest
listAll == Newest
listCompetitions == Newest
listMyCompetitions == Newest
listVideos == Newest
listNotifications == Newest
listReplays == Newest
listReports == Newest
listSponsorRequests == Newest
listCreatorRequests == Newest
listArtists == Newest
listLogs == Newest
listMessages == Newest
listDuels == Newest
\* Sorted by the date of the concert; the cursor has its created_at.
listConcerts == [sort |-> "scheduled_date", cursor |-> "where"]
listArtistConcerts == [sort |-> "scheduled_date", cursor |-> "where"]
\* mine=true: "created by me or mine" takes the place of the condition.
listMyReplays == [sort |-> "created_at", cursor |-> "overwritten"]
\* created_at is not among the attributes: no cursor can be made of a row.
listPlatformBans == [sort |-> "banned_at", cursor |-> "impossible"]

Lists == {listLives, listBlogs, listMine, listAll, listCompetitions,
          listMyCompetitions, listVideos, listNotifications, listReplays, listReports,
          listSponsorRequests, listCreatorRequests, listArtists, listLogs,
          listMessages, listDuels, listConcerts, listArtistConcerts, listMyReplays,
          listPlatformBans}

-----------------------------------------------------------------------------
VARIABLES
    lsTable,    \* the rows that match
    lsList,     \* the list that is read
    lsPaged,    \* by page numbers, or by cursor
    lsAt,       \* the reader: not yet, after so many pages, through, or refused
    lsCursor,   \* the cursor of his next page
    lsSkip,     \* the offset of his next page
    \* history:
    lsSeen,     \* the rows he has got
    lsStayed,   \* those that have matched since he began
    lsAgain,    \* he got a row twice
    lsMoved     \* a row came or went since he began

listVars == <<lsTable, lsList, lsPaged, lsAt, lsCursor, lsSkip, lsSeen, lsStayed,
              lsAgain, lsMoved>>

ListTypeOK ==
    /\ lsTable \subseteq Rows /\ lsSeen \subseteq Rows /\ lsStayed \subseteq lsTable
    /\ lsList \in Lists /\ lsPaged \in BOOLEAN
    /\ lsAt \in {"away", "start", "middle", "end", "error"}
    /\ lsCursor \in [t : Nat, i : Nat] /\ lsSkip \in Nat
    /\ lsAgain \in BOOLEAN /\ lsMoved \in BOOLEAN

ListInit ==
    /\ lsTable = {} /\ lsSeen = {} /\ lsStayed = {}
    /\ lsList = listLives /\ lsPaged = FALSE /\ lsAt = "away"
    /\ lsCursor = [t |-> 0, i |-> 0] /\ lsSkip = 0
    /\ lsAgain = FALSE /\ lsMoved = FALSE

Value(r) == Column[lsList.sort][r]
\* ORDER BY the column DESC, id DESC.
Before(r, s) == Value(r) > Value(s) \/ (Value(r) = Value(s) /\ Id[r] > Id[s])

\* mutant: rows of the same second as the last one are left out
BeyondTheSecond(r) == Value(r) < lsCursor.t
\* Op.lt of the column, or the column equal and Op.lt of the id.
Beyond(r) == Value(r) < lsCursor.t \/ (Value(r) = lsCursor.t /\ Id[r] < lsCursor.i)

Matching ==
    IF lsAt = "middle" /\ lsList.cursor = "where" THEN {r \in lsTable : Beyond(r)}
    ELSE lsTable

\* The first rows of them, as many as fit; and the last one of these.
IsPage(page, rows) ==
    /\ \A r \in page, s \in rows \ page : Before(r, s)
    /\ Cardinality(page) =< Limit
    /\ Cardinality(page) < Limit => page = rows
IsFull(page) == Cardinality(page) = Limit
IsLast(r, page) == r \in page /\ \A s \in page \ {r} : Before(s, r)

-----------------------------------------------------------------------------
RowComes(r) ==
    /\ r \notin lsTable
    /\ lsTable' = lsTable \cup {r} /\ lsMoved' = TRUE
    /\ UNCHANGED <<lsList, lsPaged, lsAt, lsCursor, lsSkip, lsSeen, lsStayed, lsAgain>>

RowGoes(r) ==
    /\ r \in lsTable
    /\ lsTable' = lsTable \ {r} /\ lsStayed' = lsStayed \ {r} /\ lsMoved' = TRUE
    /\ UNCHANGED <<lsList, lsPaged, lsAt, lsCursor, lsSkip, lsSeen, lsAgain>>

\* The first request of a reader, with ?page=1 or without.
Opens(list, paged) ==
    /\ lsAt \in {"away", "end", "error"}
    /\ lsList' = list /\ lsPaged' = paged /\ lsAt' = "start" /\ lsSkip' = 0
    /\ lsSeen' = {} /\ lsStayed' = lsTable /\ lsAgain' = FALSE /\ lsMoved' = FALSE
    /\ UNCHANGED <<lsTable, lsCursor>>

Gets(page) ==
    /\ lsSeen' = lsSeen \cup page
    /\ lsAgain' = (lsAgain \/ lsSeen \cap page # {})
    /\ UNCHANGED <<lsTable, lsList, lsPaged, lsStayed, lsMoved>>

\* A full page ends with a cursor; one that is not is the last.
ReadsPage(page) ==
    /\ ~lsPaged /\ lsAt \in {"start", "middle"}
    /\ IsPage(page, Matching)
    /\ IF ~IsFull(page) THEN lsAt' = "end" /\ UNCHANGED lsCursor
       ELSE /\ lsList.cursor # "impossible"
            /\ lsAt' = "middle"
            /\ \E r \in page :
                 /\ IsLast(r, page)
                 /\ lsCursor' = [t |-> Column["created_at"][r], i |-> Id[r]]
    /\ Gets(page) /\ UNCHANGED lsSkip

\* toISOString of no date throws.
CursorFails(page) ==
    /\ ~lsPaged /\ lsAt = "start" /\ lsList.cursor = "impossible"
    /\ IsPage(page, Matching) /\ IsFull(page)
    /\ lsAt' = "error"
    /\ UNCHANGED <<lsTable, lsList, lsPaged, lsCursor, lsSkip, lsSeen, lsStayed,
                   lsAgain, lsMoved>>

Place(r) == Cardinality({s \in lsTable : Before(s, r)})
\* No total is given: the reader goes on while pages are full.
ReadsOffset ==
    /\ lsPaged /\ lsAt \in {"start", "middle"}
    /\ LET page == {r \in lsTable : Place(r) \in lsSkip .. lsSkip + Limit - 1}
       IN  /\ Gets(page)
           /\ lsAt' = IF IsFull(page) THEN "middle" ELSE "end"
    /\ lsSkip' = lsSkip + Limit
    /\ UNCHANGED lsCursor

ListNext ==
    \/ \E r \in Rows : RowComes(r) \/ RowGoes(r)
    \/ \E list \in Lists, paged \in BOOLEAN : Opens(list, paged)
    \/ \E page \in SUBSET Matching : ReadsPage(page) \/ CursorFails(page)
    \/ ReadsOffset

ListSpec == ListInit /\ [][ListNext]_listVars

-----------------------------------------------------------------------------
(* Properties.                                                             *)

\* The list has a cursor of the column it is sorted by, and uses it.
Keyset == lsList.sort = "created_at" /\ lsList.cursor = "where"

\* utils/pagination.js: "stable, keyset pagination". A reader by cursor gets no row
\* twice, whatever comes and goes meanwhile, and in the end every row that was there
\* all the time. The lists of concerts, of one's own replays and of banned users do not
\* promise it.
ReadByCursor ==
    Keyset /\ ~lsPaged =>
      /\ ~lsAgain
      /\ lsAt = "end" => lsStayed \subseteq lsSeen

\* A reader by page numbers is promised that if nothing comes or goes.
ReadByPages ==
    lsPaged /\ ~lsMoved =>
      /\ ~lsAgain
      /\ lsAt = "end" => lsStayed \subseteq lsSeen

\* A list that is read to its end was listed once, by either way.
ListedOnce == ReadByCursor /\ ReadByPages
=============================================================================
