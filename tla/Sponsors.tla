------------------------------ MODULE Sponsors ------------------------------
(***************************************************************************)
(* Sponsor requests: priced from a grid when they are made, priced again   *)
(* by an admin, paid from the requester's wallet by a stored procedure,    *)
(* and approved, with an ad video for the screens, or rejected. Neither    *)
(* the review nor the pricing looks at the payment, nor the payment at the *)
(* status. The admins' handlers read the row without a lock and save the   *)
(* columns that changed; the procedure locks the row to its commit.        *)
(*                                                                         *)
(* An ad video is shown to the room of an event by a play: a row, one more *)
(* in play_count by a statement of its own, and an event to the room. A    *)
(* play may be started of any video, switched off or not.                  *)
(***************************************************************************)
EXTENDS Integers, FiniteSets, FiniteSetsExt, Null

CONSTANTS
    Requests,       \* sponsor_requests of one sponsor
    Payers,         \* calls of pay_sponsor_from_wallet in flight
    Admins,         \* requests of admins
    Prices,         \* of the grid, or set by an admin
    Opening,        \* credits of the sponsor's wallet
    MaxAds,         \* ad videos the model makes room for, of each request
    AdVideos,       \* sponsor_ad_videos to show
    Plays,          \* sponsor_ad_plays
    Hosts           \* requests of hosts that stop a play

ASSUME SponsorAssumption ==
    /\ IsFiniteSet(Requests) /\ IsFiniteSet(Plays) /\ IsFiniteSet(Admins)
    /\ Prices \subseteq Nat /\ Opening \in Nat /\ MaxAds \in Nat
    /\ NULL \notin Requests /\ NULL \notin AdVideos /\ NULL \notin Plays

VARIABLES
    spStatus,       \* sponsor_requests.status, "none" before the row
    spPrice,        \* price_credits
    spPaid,         \* paid_at is set
    spBalance,      \* the wallet
    spPay,          \* the request each payment has locked
    spHand,         \* what each admin's handler has read, and will make of it
    spAds,          \* sponsor_ad_videos made of each request
    \* history:
    spCharged,      \* what was debited for each request
    spRepriced,     \* requests priced again after their payment
    spBroken,       \* requests whose approval broke off before the video

    avActive,       \* is_active of a video, "none" before the row
    avCount,        \* its play_count
    avPlay,         \* the video of a play, NULL before the row
    avStarted,      \* plays counted and told to the room
    avEnded,        \* plays with an ended_at
    avScreen,       \* what the room heard last of a play
    avStop,         \* the play each host has read, and whether it had ended
    avEdit,         \* the video each admin has read, and what is_active becomes
    \* history:
    avLate,         \* plays stopped before they were told, or whose stop was not
    avTwice,        \* plays two stops had read as open
    avStamped       \* plays whose ended_at was written again

sponsorVars == <<spStatus, spPrice, spPaid, spBalance, spPay, spHand, spAds,
                 spCharged, spRepriced, spBroken>>

Reviews == {"approved", "rejected"}
SponsorStatuses == {"pending", "awaiting_payment"} \cup Reviews
NoHand == [at |-> "idle", req |-> NULL, to |-> "pending", price |-> 0, seen |-> "pending"]

SponsorTypeOK ==
    /\ spStatus \in [Requests -> SponsorStatuses \cup {"none"}]
    /\ spPrice \in [Requests -> Prices \cup {0}]
    /\ spPaid \in [Requests -> BOOLEAN]
    /\ spBalance \in 0..Opening
    /\ spPay \in [Payers -> Requests \cup {NULL}]
    /\ spHand \in [Admins -> {NoHand} \cup
                     [at : {"read", "saved"}, req : Requests, to : SponsorStatuses,
                      price : Prices \cup {0}, seen : SponsorStatuses]]
    /\ spAds \in [Requests -> 0..MaxAds]
    /\ spCharged \in [Requests -> Nat]
    /\ spRepriced \subseteq Requests /\ spBroken \subseteq Requests

SponsorInit ==
    /\ spStatus = [r \in Requests |-> "none"]
    /\ spPrice = [r \in Requests |-> 0]
    /\ spPaid = [r \in Requests |-> FALSE]
    /\ spBalance = Opening
    /\ spPay = [p \in Payers |-> NULL]
    /\ spHand = [a \in Admins |-> NoHand]
    /\ spAds = [r \in Requests |-> 0]
    /\ spCharged = [r \in Requests |-> 0]
    /\ spRepriced = {} /\ spBroken = {}

\* mutant: SELECT without FOR UPDATE
NotLocked(r) == TRUE
\* FOR UPDATE, and the saves of the handlers, wait for the row.
Unlocked(r) == \A p \in Payers : spPay[p] # r

\* mutant: the procedure does not look at the balance
OnCredit(p) == TRUE
\* What it asks of the wallet.
Affords(p) == spBalance >= spPrice[spPay[p]]

\* An approval has its video to make still.
AfterSave(h) == IF h.to = "approved" THEN [h EXCEPT !.at = "saved"] ELSE NoHand

RoomForAd(r) == spAds[r] + Cardinality({a \in Admins : spHand[a].req = r}) < MaxAds

-----------------------------------------------------------------------------
\* createRequest: the price of the tier.
Submit(r, price) ==
    /\ spStatus[r] = "none"
    /\ spStatus' = [spStatus EXCEPT ![r] = "pending"]
    /\ spPrice' = [spPrice EXCEPT ![r] = price]
    /\ UNCHANGED <<spPaid, spBalance, spPay, spHand, spAds, spCharged, spRepriced, spBroken>>

\* pay_sponsor_from_wallet: SELECT ... FOR UPDATE; nothing more when it is paid.
StartPayment(p, r) ==
    /\ spPay[p] = NULL
    /\ spStatus[r] # "none" /\ ~spPaid[r] /\ Unlocked(r)
    /\ spPay' = [spPay EXCEPT ![p] = r]
    /\ UNCHANGED <<spStatus, spPrice, spPaid, spBalance, spHand, spAds,
                   spCharged, spRepriced, spBroken>>

\* The debit, if the wallet allows it, paid_at, and the commit.
Pay(p) ==
    /\ spPay[p] # NULL
    /\ Affords(p)
    /\ spBalance' = spBalance - spPrice[spPay[p]]
    /\ spPaid' = [spPaid EXCEPT ![spPay[p]] = TRUE]
    /\ spCharged' = [spCharged EXCEPT ![spPay[p]] = @ + spPrice[spPay[p]]]
    /\ spPay' = [spPay EXCEPT ![p] = NULL]
    /\ UNCHANGED <<spStatus, spPrice, spHand, spAds, spRepriced, spBroken>>

\* insufficient_balance, or a crash: rolled back.
PaymentFails(p) ==
    /\ spPay[p] # NULL
    /\ spPay' = [spPay EXCEPT ![p] = NULL]
    /\ UNCHANGED <<spStatus, spPrice, spPaid, spBalance, spHand, spAds,
                   spCharged, spRepriced, spBroken>>

ReadRequest(a, r, to, price) ==
    /\ spHand[a] = NoHand /\ spStatus[r] # "none"
    /\ spHand' = [spHand EXCEPT ![a] = [at |-> "read", req |-> r, to |-> to,
                                        price |-> price, seen |-> spStatus[r]]]
    /\ UNCHANGED <<spStatus, spPrice, spPaid, spBalance, spPay, spAds,
                   spCharged, spRepriced, spBroken>>

\* setRequestPrice: a price above zero, of a request not reviewed yet.
ReadToPrice(a, r, price) ==
    /\ price > 0
    /\ spStatus[r] \in {"pending", "awaiting_payment"}
    /\ ReadRequest(a, r, "awaiting_payment", price)

\* reviewRequest and approveReuseMedia: any request.
ReadToReview(a, r, decision) ==
    /\ decision = "approved" => RoomForAd(r)
    /\ ReadRequest(a, r, decision, 0)

\* The save, of what changed.
SaveRequest(a) ==
    LET h == spHand[a] IN
    /\ h.at = "read" /\ Unlocked(h.req)
    /\ spStatus' = IF h.to = h.seen THEN spStatus ELSE [spStatus EXCEPT ![h.req] = h.to]
    /\ spPrice' = IF h.price = 0 THEN spPrice ELSE [spPrice EXCEPT ![h.req] = h.price]
    /\ spRepriced' = IF h.price # 0 /\ spPaid[h.req] THEN spRepriced \cup {h.req}
                                                  ELSE spRepriced
    /\ spHand' = [spHand EXCEPT ![a] = AfterSave(h)]
    /\ UNCHANGED <<spPaid, spBalance, spPay, spAds, spCharged, spBroken>>

\* SponsorAdVideo.create.
MakeVideo(a) ==
    /\ spHand[a].at = "saved"
    /\ spAds' = [spAds EXCEPT ![spHand[a].req] = @ + 1]
    /\ spHand' = [spHand EXCEPT ![a] = NoHand]
    /\ UNCHANGED <<spStatus, spPrice, spPaid, spBalance, spPay,
                   spCharged, spRepriced, spBroken>>

\* A failing query or a crash.
AdminFails(a) ==
    /\ spHand[a] # NoHand
    /\ spBroken' = IF spHand[a].at = "saved" THEN spBroken \cup {spHand[a].req} ELSE spBroken
    /\ spHand' = [spHand EXCEPT ![a] = NoHand]
    /\ UNCHANGED <<spStatus, spPrice, spPaid, spBalance, spPay, spAds, spCharged, spRepriced>>

SponsorNext ==
    \/ \E r \in Requests, v \in Prices : Submit(r, v)
    \/ \E p \in Payers : Pay(p) \/ PaymentFails(p) \/ \E r \in Requests : StartPayment(p, r)
    \/ \E a \in Admins :
         \/ \E r \in Requests :
              \/ \E v \in Prices : ReadToPrice(a, r, v)
              \/ \E d \in Reviews : ReadToReview(a, r, d)
         \/ SaveRequest(a) \/ MakeVideo(a) \/ AdminFails(a)

SponsorSpec == SponsorInit /\ [][SponsorNext]_sponsorVars

-----------------------------------------------------------------------------
adVars == <<avActive, avCount, avPlay, avStarted, avEnded, avScreen, avStop, avEdit,
            avLate, avTwice, avStamped>>

NoStop == [play |-> NULL, ended |-> FALSE]
NoAdEdit == [ad |-> NULL, to |-> "off", count |-> 0]

AdTypeOK ==
    /\ avActive \in [AdVideos -> {"none", "on", "off"}]
    /\ avCount \in [AdVideos -> Nat]
    /\ avPlay \in [Plays -> AdVideos \cup {NULL}]
    /\ avStarted \subseteq Plays /\ avEnded \subseteq Plays
    /\ avScreen \in [Plays -> {"none", "start", "stop"}]
    /\ avStop \in [Hosts -> [play : Plays \cup {NULL}, ended : BOOLEAN]]
    /\ avEdit \in [Admins -> [ad : AdVideos \cup {NULL}, to : {"on", "off"}, count : Nat]]
    /\ avLate \subseteq Plays /\ avTwice \subseteq Plays /\ avStamped \subseteq Plays

AdInit ==
    /\ avActive = [v \in AdVideos |-> "none"] /\ avCount = [v \in AdVideos |-> 0]
    /\ avPlay = [p \in Plays |-> NULL] /\ avScreen = [p \in Plays |-> "none"]
    /\ avStarted = {} /\ avEnded = {}
    /\ avStop = [h \in Hosts |-> NoStop] /\ avEdit = [a \in Admins |-> NoAdEdit]
    /\ avLate = {} /\ avTwice = {} /\ avStamped = {}

\* createAdVideo.
CreateAd(v, active) ==
    /\ avActive[v] = "none"
    /\ avActive' = [avActive EXCEPT ![v] = active]
    /\ UNCHANGED <<avCount, avPlay, avStarted, avEnded, avScreen, avStop, avEdit,
                   avLate, avTwice, avStamped>>

\* updateAdVideo: findByPk ...
ReadAd(a, v, to) ==
    /\ avEdit[a] = NoAdEdit /\ avActive[v] # "none"
    /\ avEdit' = [avEdit EXCEPT ![a] = [ad |-> v, to |-> to, count |-> avCount[v]]]
    /\ UNCHANGED <<avActive, avCount, avPlay, avStarted, avEnded, avScreen, avStop,
                   avLate, avTwice, avStamped>>

\* mutant: every column is written, as it was read
CountAsRead(e) == [avCount EXCEPT ![e.ad] = e.count]
\* The save writes what was changed, and leaves play_count.
CountKept(e) == avCount

\* ... and save.
SaveAd(a) ==
    /\ avEdit[a] # NoAdEdit
    /\ avActive' = [avActive EXCEPT ![avEdit[a].ad] = avEdit[a].to]
    /\ avCount' = CountKept(avEdit[a])
    /\ avEdit' = [avEdit EXCEPT ![a] = NoAdEdit]
    /\ UNCHANGED <<avPlay, avStarted, avEnded, avScreen, avStop, avLate, avTwice, avStamped>>

\* startAd: the row of the play, which anyone may list from here on ...
CreatePlay(p, v) ==
    /\ avPlay[p] = NULL /\ avActive[v] # "none"
    /\ avPlay' = [avPlay EXCEPT ![p] = v]
    /\ UNCHANGED <<avActive, avCount, avStarted, avEnded, avScreen, avStop, avEdit,
                   avLate, avTwice, avStamped>>

\* ... and the increment and the event, unless it breaks off before.
CountPlay(p) ==
    /\ avPlay[p] # NULL /\ p \notin avStarted
    /\ avCount' = [avCount EXCEPT ![avPlay[p]] = @ + 1]
    /\ avStarted' = avStarted \cup {p}
    /\ avScreen' = [avScreen EXCEPT ![p] = "start"]
    /\ avLate' = IF p \in avEnded THEN avLate \cup {p} ELSE avLate
    /\ UNCHANGED <<avActive, avPlay, avEnded, avStop, avEdit, avTwice, avStamped>>

\* stopAd: findByPk ...
ReadPlay(h, p) ==
    /\ avStop[h] = NoStop /\ avPlay[p] # NULL
    /\ avStop' = [avStop EXCEPT ![h] = [play |-> p, ended |-> p \in avEnded]]
    /\ avTwice' = IF \E g \in Hosts : avStop[g].play = p /\ ~avStop[g].ended
                  THEN avTwice \cup {p} ELSE avTwice
    /\ UNCHANGED <<avActive, avCount, avPlay, avStarted, avEnded, avScreen, avEdit,
                   avLate, avStamped>>

\* mutant: stamps whatever it read
Stamps(h) == TRUE
\* It stamps a play it read as open.
StampsOpen(h) == ~avStop[h].ended

\* ... ended_at, once, and the event, which a crash may keep back.
StopPlay(h, told) ==
    LET p == avStop[h].play IN
    /\ p # NULL
    /\ avEnded' = IF StampsOpen(h) THEN avEnded \cup {p} ELSE avEnded
    /\ avStamped' = IF StampsOpen(h) /\ p \in avEnded THEN avStamped \cup {p}
                                                    ELSE avStamped
    /\ avScreen' = IF told THEN [avScreen EXCEPT ![p] = "stop"] ELSE avScreen
    /\ avLate' = IF told THEN avLate ELSE avLate \cup {p}
    /\ avStop' = [avStop EXCEPT ![h] = NoStop]
    /\ UNCHANGED <<avActive, avCount, avPlay, avStarted, avEdit, avTwice>>

AdNext ==
    \/ \E v \in AdVideos, to \in {"on", "off"} :
         CreateAd(v, to) \/ \E a \in Admins : ReadAd(a, v, to)
    \/ \E a \in Admins : SaveAd(a)
    \/ \E p \in Plays :
         \/ CountPlay(p)
         \/ \E v \in AdVideos : CreatePlay(p, v)
         \/ \E h \in Hosts : ReadPlay(h, p)
    \/ \E h \in Hosts, told \in BOOLEAN : StopPlay(h, told)

AdSpec == AdInit /\ [][AdNext]_adVars

-----------------------------------------------------------------------------
(* Properties.                                                             *)

\* Each request is paid once, at the price it shows, but for those an admin
\* priced again after they were paid, and nothing else left the wallet; and an
\* approved request has its video, or an approval is about to make it, or one
\* broke off after its save: the two writes are not a transaction.
SponsorBooks ==
    /\ \A r \in Requests \ spRepriced : spCharged[r] = IF spPaid[r] THEN spPrice[r] ELSE 0
    /\ spBalance + MapThenSumSet(LAMBDA r : spCharged[r], Requests) = Opening
    /\ \A r \in Requests \ spBroken : spStatus[r] = "approved" =>
         spAds[r] > 0 \/ \E a \in Admins : spHand[a].at = "saved" /\ spHand[a].req = r

\* A video's play_count is the number of plays told to their rooms, whatever
\* admins save meanwhile; a room does not still show a play that has ended,
\* unless its stop came before its start or broke off; and the end of a play is
\* the time of its first stop, unless a second one had read it as open as well.
AdsAddUp ==
    /\ \A v \in AdVideos : avCount[v] = Cardinality({p \in avStarted : avPlay[p] = v})
    /\ \A p \in avEnded \ avLate : avScreen[p] # "start"
    /\ avStamped \subseteq avTwice
=============================================================================
