---------------------------- MODULE PayoutMethods ----------------------------
(***************************************************************************)
(* The payout methods of one user, of which one should be the default.     *)
(* addMethod and updateMethod are transactions that read without a lock,   *)
(* demote every method and write their own; REPEATABLE READ keeps what     *)
(* they read, not what the UPDATE meets. That UPDATE locks the user's rows *)
(* and the gaps between them: two may hold the gap of an empty set, and    *)
(* then neither can insert, and one is broken off as a deadlock.           *)
(***************************************************************************)
EXTENDS Integers, FiniteSets, Null

CONSTANTS
    Methods,        \* rows of user_payout_methods, made or to be made
    Editors         \* requests being handled

VARIABLES
    pmMethod,       \* each row: none, plain or default
    pmEdit,         \* the transaction of each request: how far it is, the row it is
                    \* about, if that is to be the default, and if it read it as such
    \* history:
    pmLost          \* the default was deleted, or set again by a request that had read
                    \* it as the default already, or its row was gone by then

payoutMethodVars == <<pmMethod, pmEdit, pmLost>>

NoEdit == [at |-> "idle", kind |-> "add", row |-> NULL, default |-> FALSE, was |-> FALSE]

PayoutMethodTypeOK ==
    /\ pmMethod \in [Methods -> {"none", "plain", "default"}]
    /\ pmEdit \in [Editors -> {NoEdit} \cup
                     [at : {"read", "demoted"}, kind : {"add", "update"}, row : Methods,
                      default : BOOLEAN, was : BOOLEAN]]
    /\ pmLost \in BOOLEAN

PayoutMethodInit ==
    /\ pmMethod = [m \in Methods |-> "none"]
    /\ pmEdit = [e \in Editors |-> NoEdit]
    /\ pmLost = FALSE

Saved == {m \in Methods : pmMethod[m] # "none"}
Defaults == {m \in Methods : pmMethod[m] = "default"}
Demoting == {e \in Editors : pmEdit[e].at = "demoted"}

\* mutant: the new default leaves the others as they are
AsTheyWere == pmMethod
\* UPDATE ... SET is_default = false WHERE user_id.
Demoted == [m \in Methods |-> IF pmMethod[m] = "default" THEN "plain" ELSE pmMethod[m]]

-----------------------------------------------------------------------------
\* addMethod: the count, and with it whether this one is to be the default.
AddReads(e, m, asked) ==
    /\ pmEdit[e] = NoEdit /\ m \notin Saved
    /\ \A x \in Editors : pmEdit[x].row # m
    /\ pmEdit' = [pmEdit EXCEPT ![e] = [at |-> "read", kind |-> "add", row |-> m,
                                        default |-> asked \/ Saved = {}, was |-> FALSE]]
    /\ UNCHANGED <<pmMethod, pmLost>>

\* updateMethod with is_default: true; it touches no other row's flag without.
UpdateReads(e, m) ==
    /\ pmEdit[e] = NoEdit /\ m \in Saved
    /\ pmEdit' = [pmEdit EXCEPT ![e] = [at |-> "read", kind |-> "update", row |-> m,
                                        default |-> TRUE, was |-> m \in Defaults]]
    /\ UNCHANGED <<pmMethod, pmLost>>

\* The UPDATE that demotes: takes its locks; nobody sees it until the commit.
Demote(e) ==
    /\ pmEdit[e].at = "read" /\ pmEdit[e].default
    /\ Saved = {} \/ Demoting = {}
    /\ pmEdit' = [pmEdit EXCEPT ![e] = [@ EXCEPT !.at = "demoted"]]
    /\ UNCHANGED <<pmMethod, pmLost>>

\* The insert of addMethod and the commit, in no one else's gap.
AddCommits(e) ==
    /\ pmEdit[e].kind = "add"
    /\ pmEdit[e].at = IF pmEdit[e].default THEN "demoted" ELSE "read"
    /\ Demoting \subseteq {e}
    /\ pmMethod' = IF pmEdit[e].default
                     THEN [Demoted EXCEPT ![pmEdit[e].row] = "default"]
                     ELSE [pmMethod EXCEPT ![pmEdit[e].row] = "plain"]
    /\ pmLost' = (pmLost /\ ~pmEdit[e].default)
    /\ pmEdit' = [pmEdit EXCEPT ![e] = NoEdit]

\* The save of updateMethod and the commit: is_default is written if that is a
\* change to what was read, and the row still there.
UpdateCommits(e) ==
    /\ pmEdit[e].kind = "update" /\ pmEdit[e].at = "demoted"
    /\ LET m == pmEdit[e].row
           written == ~pmEdit[e].was /\ m \in Saved
       IN /\ pmMethod' = IF written THEN [Demoted EXCEPT ![m] = "default"] ELSE Demoted
          /\ pmLost' = ~written
    /\ pmEdit' = [pmEdit EXCEPT ![e] = NoEdit]

\* A failing statement, a deadlock, a crash: rolled back.
EditFails(e) ==
    /\ pmEdit[e] # NoEdit
    /\ pmEdit' = [pmEdit EXCEPT ![e] = NoEdit]
    /\ UNCHANGED <<pmMethod, pmLost>>

\* deleteMethod: one statement, which waits for the locks. No other becomes the
\* default in its place.
DeleteMethod(m) ==
    /\ m \in Saved /\ Demoting = {}
    /\ pmMethod' = [pmMethod EXCEPT ![m] = "none"]
    /\ pmLost' = (pmLost \/ m \in Defaults)
    /\ UNCHANGED pmEdit

PayoutMethodNext ==
    \/ \E e \in Editors :
         \/ \E m \in Methods : UpdateReads(e, m) \/ \E asked \in BOOLEAN : AddReads(e, m, asked)
         \/ Demote(e) \/ AddCommits(e) \/ UpdateCommits(e) \/ EditFails(e)
    \/ \E m \in Methods : DeleteMethod(m)

PayoutMethodSpec == PayoutMethodInit /\ [][PayoutMethodNext]_payoutMethodVars

-----------------------------------------------------------------------------
(* Properties.                                                             *)

\* Never two defaults, however requests that each make one overlap; and a user who
\* has methods has a default, unless it was lost: deleted, set again when it was the
\* default already (the save then has nothing to write, and the UPDATE before it
\* has demoted the row), or set on a row that was deleted meanwhile.
AtMostOneDefault ==
    /\ Cardinality(Defaults) =< 1
    /\ Saved # {} /\ ~pmLost => Defaults # {}
=============================================================================
