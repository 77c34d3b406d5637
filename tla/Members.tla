------------------------------ MODULE Members ------------------------------
(***************************************************************************)
(* What the users of the platform have of their own: the requests of a     *)
(* sponsor, accounts that begin and go, sessions, codes, roles,            *)
(* subscriptions, payout methods, PINs, the keys of their payments, their  *)
(* uploads, and what reaches them. As in Shows the parts share no table,   *)
(* and one moves at a time. Erasure is about rows of every table, and only *)
(* about which there are: the other parts assume that nobody erases        *)
(* theirs.                                                                 *)
(***************************************************************************)
EXTENDS Sponsors, Deletion, Sessions, Roles, Subscriptions, PayoutMethods,
        Idempotency, Erasure, Signup, Codes, Inbox, Media

VARIABLE focus      \* the part that moves

Parts == {"sponsors", "ads", "deletion", "sessions", "roles", "subscriptions",
          "payout methods", "keys", "erasure", "signup", "codes", "pins",
          "devices", "preferences", "rows", "uploads"}

membersVars == <<sponsorVars, adVars, deletionVars, sessionVars, roleVars,
                 subscriptionVars, payoutMethodVars, ikVars, erasureVars,
                 signupVars, codeVars, pinVars, deviceVars, preferenceVars,
                 foundVars, mediaVars, focus>>

\* Of the part that moves: the others are as they began.
MembersTypeOK ==
    /\ focus \in Parts
    /\ focus = "sponsors" => SponsorTypeOK
    /\ focus = "ads" => AdTypeOK
    /\ focus = "deletion" => DeletionTypeOK
    /\ focus = "sessions" => SessionTypeOK
    /\ focus = "roles" => RoleTypeOK
    /\ focus = "subscriptions" => SubscriptionTypeOK
    /\ focus = "payout methods" => PayoutMethodTypeOK
    /\ focus = "keys" => KeyTypeOK
    /\ focus = "erasure" => ErasureTypeOK
    /\ focus = "signup" => SignupTypeOK
    /\ focus = "codes" => CodeTypeOK
    /\ focus = "pins" => PinTypeOK
    /\ focus = "devices" => DeviceTypeOK
    /\ focus = "preferences" => PreferenceTypeOK
    /\ focus = "rows" => FoundTypeOK
    /\ focus = "uploads" => MediaTypeOK

MembersInit ==
    /\ focus \in Parts
    /\ SponsorInit
    /\ AdInit
    /\ DeletionInit
    /\ SessionInit
    /\ RoleInit
    /\ SubscriptionInit
    /\ PayoutMethodInit
    /\ KeyInit
    /\ ErasureInit
    /\ SignupInit
    /\ CodeInit
    /\ PinInit
    /\ DeviceInit
    /\ PreferenceInit
    /\ FoundInit
    /\ MediaInit

\* The other parts stand still.
Only(part) ==
    /\ focus = part /\ UNCHANGED focus
    /\ part # "sponsors" => UNCHANGED sponsorVars
    /\ part # "ads" => UNCHANGED adVars
    /\ part # "deletion" => UNCHANGED deletionVars
    /\ part # "sessions" => UNCHANGED sessionVars
    /\ part # "roles" => UNCHANGED roleVars
    /\ part # "subscriptions" => UNCHANGED subscriptionVars
    /\ part # "payout methods" => UNCHANGED payoutMethodVars
    /\ part # "keys" => UNCHANGED ikVars
    /\ part # "erasure" => UNCHANGED erasureVars
    /\ part # "signup" => UNCHANGED signupVars
    /\ part # "codes" => UNCHANGED codeVars
    /\ part # "pins" => UNCHANGED pinVars
    /\ part # "devices" => UNCHANGED deviceVars
    /\ part # "preferences" => UNCHANGED preferenceVars
    /\ part # "rows" => UNCHANGED foundVars
    /\ part # "uploads" => UNCHANGED mediaVars

MembersNext ==
    \/ Only("sponsors") /\ SponsorNext
    \/ Only("ads") /\ AdNext
    \/ Only("deletion") /\ DeletionNext
    \/ Only("sessions") /\ SessionNext
    \/ Only("roles") /\ RoleNext
    \/ Only("subscriptions") /\ SubscriptionNext
    \/ Only("payout methods") /\ PayoutMethodNext
    \/ Only("keys") /\ KeyNext
    \/ Only("erasure") /\ ErasureNext
    \/ Only("signup") /\ SignupNext
    \/ Only("codes") /\ CodeNext
    \/ Only("pins") /\ PinNext
    \/ Only("devices") /\ DeviceNext
    \/ Only("preferences") /\ PreferenceNext
    \/ Only("rows") /\ FoundNext
    \/ Only("uploads") /\ MediaNext

MembersSpec == MembersInit /\ [][MembersNext]_membersVars /\ DeletionFairness

-----------------------------------------------------------------------------
\* A user is reached as he asked to be, what he put up is what was checked, and an
\* ad that is shown is counted.
UsersAreServed == ReachedAsAsked /\ ConfirmedIsChecked /\ AdsAddUp
=============================================================================
