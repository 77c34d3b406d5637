# Formal models of the Dual Music backend

TLA+ models of the backend in `src/`, the TLC runs that check them on small
instances, and theorems about them that TLAPS has checked for every instance.
`PROJECT.json` lists the runs, the source lines each definition stands for, the
hazards, the findings and the theorems.

The backend is an Express API over MySQL 8 (Sequelize and stored procedures),
with Redis for jobs and leaderboards, LiveKit for the stage and four payment
providers. Users buy *credits*, spend them on votes, gifts, tickets, replays and
dedications, and artists and managers withdraw what they receive. What makes the
code hard is that everything runs concurrently: several requests of one user,
several webhooks of one payment, several administrators on one queue, jobs next
to handlers, and a crash between any two `await`s. Most services read a row,
decide, and save it by id, the changed columns only; few of them lock.

## Inventory

Paths are relative to `src/src/`.

| Part | State | Operations | Interacts with | Hard | Correct means |
| --- | --- | --- | --- | --- | --- |
| Spending credits (`procedures/wallet.sql`, `competition.sql`, `dedications.sql`, `services/wallet.service.js`) | `user_wallets`, `*_tickets`, `replay_access`, `user_gifts`, `competition_votes`, tallies of candidates | nine procedures, one transaction each | revenue split, idempotency, leaderboards | decisions on snapshots, locks late | no overdraft; gifts are conserved; one ticket per user; capacity |
| Revenue split (`procedures/revenue.sql`) | `economic_config`, `revenue_distributions` | `distribute_event_revenue` | called inside the transactions above | rounding, absent recipients and sections | shares make up the charge |
| Recharging (`procedures/credits.sql`, `services/payments/`, `services/webhook.service.js`) | provider transactions, `webhook_events`, `credit_purchases` | start, webhook, verify, retry job | providers, jobs | repeated, late, lost, concurrent webhooks; crashes | paid, then credited once |
| Withdrawals (`procedures/withdrawals.sql`, `services/withdrawal.service.js`) | `withdrawal_requests`, wallets, PINs, payout methods | request, approve, complete, reject, PIN, methods | wallets, notifications | read, decide, save without a lock | paid or refunded, once; one default method; tries of the PIN are counted |
| Idempotency (`middlewares/idempotency.js`) | `idempotency_keys` | claim, replay, finish | every financial POST | lost connections, errors after the commit | one charge per key |
| Jobs (`jobs/`) | Redis queue, and the rows of the parts they serve | eight scheduled handlers | nearly every part | overlap with handlers and with other processes | each effect at most once, none lost |
| Recordings (`services/recording.service.js`) | `stream_recordings`, `replay_videos` | start, stop, egress webhook, reconcile | competitions, duels, concerts, lives, LiveKit | unawaited calls, webhook against job | one recording at a time, one replay of each |
| Competitions (`services/competition.service.js`) | status, candidates, performer, focus, ranking | create … publish, review, perform, finalize; close job | wallet procedures, recordings | votes against the final ranking, unawaited chains of stop and start | the ranking is one; the performer is recorded |
| Duels (`services/duel.service.js`) | duels, duel requests | request, respond, new date, expire, status | recordings, jobs, administration | two answers at once, expiry against answer | one duel per request |
| Concerts, lives (`services/concert.service.js`, `live.service.js`) | approval, status, likes, join requests, reminders | create, update, review, like, join, remind | wallet procedures, recordings, realtime | update against review; counters | nothing unapproved goes live; counts are right |
| Leaderboards, season rewards (`services/leaderboard*.js`, `procedures/rewards.sql`) | seasons, winners, badges, sorted sets in Redis | close, distribute, notify; record, rebuild | wallets, votes and gifts | rebuild against increments, a cache of a minute | one reward per winner; the set equals the database |
| Sponsors (`services/sponsor.service.js`, `procedures/sponsors.sql`) | requests, videos, plays | request, price, pay, review, start, stop | wallets, realtime | review against payment | paid once at the price shown; plays are counted |
| Accounts (`services/auth`, `token`, `otp`, `oauth`, `referral`, `user`) | users, refresh tokens, codes, links, referrals, dates of deletion | sign up, sign in, rotate, reset, verify, delete, purge | mail, wallets, jobs | requests that overlap, two saves instead of a transaction | sessions end with a reset; tries are counted; welcome and rewards once |
| Roles, subscriptions (`services/creator`, `subscription`, `payments`) | role requests, `user_roles`, `fan_subscriptions` | apply, review, assign, revoke; Stripe's events | administration, Stripe | two reviews at once; events out of order and repeated | roles match reviews; active matches Stripe |
| Moderation (`services/moderation.service.js`) | reports, bans, warnings | report, review, ban, lift | accounts, log of actions | read, decide, save without a lock | verdicts are logged |
| Content (`services/comment`, `video`, `replay`, `gift`, …) | comments, likes, views, videos, the catalog | create, like, view, list, erase | realtime | counts saved after a count | numbers shown are right; pages show all |
| Notifications, realtime (`services/notification`, `push`, `jobs/notify.js`, `realtime/`) | preferences, devices, sockets in rooms | register, notify, join, leave | every part | registration against use, socket events against awaits | who asked for it is reached; the room is counted right |
| Uploads (`services/upload`, `services/storage/`) | objects, presigned URLs | presign, put, confirm, delete | content, sponsors | the object changes between check and use | what is confirmed was checked |
| Administration (`services/admin.service.js`) | sums of what the other parts keep | reports, roles, reviews, erasure | every part | two sums of the same money | sums agree |
| Schema (`migrations/`, `models/`, `scripts/generate-schema.js`) | foreign keys of 100 tables | insert, erase, cascade | every part | keys guessed by the names of columns | what is found can be named; nothing else dangles |
| HTTP, configuration | | wiring | all | little | not modelled |

## Modules

| Module | Models | State and actions, and the code |
| --- | --- | --- |
| `RevenueSplit` | `distribute_event_revenue` | operators only. `Share` is `ROUND(x * pct / 100, 2)` on integers of cents; `Distribute` is the procedure from its arguments to its row; `Received` is what a wallet gets of it |
| `Wallet` (extends `RevenueSplit`) | the nine procedures that spend credits | `balance`, `tickets`, `sold`, `inventory`, `voted`, `tally` are the tables; `tx` the transactions between their snapshot and their writes. A procedure whose first statement locks is one action; one that decides on plain `SELECT`s is `Begin…` and `Commit…`, with `Rollback` between. `held` and `books` are an auditor's history |
| `Withdrawal`, `Payout` | request, approve, complete, reject; and their promise | `request` is the table, `desk` what an administrator's handler has read and not saved. `Reject` is one action (`revert_withdrawal` locks the row), approve and complete are `Read` and `Save`. `Payout` is held, then paid or refunded; `Withdrawal!ImplementsPayout` is the refinement |
| `Payments`, `Settlement` | checkout, webhooks, ledger, credit procedures, retry job; and their promise | `row`, `claim`, `ledger`, `wallet` are tables, `checkout` is the provider's side, `handler` a request between two of its `await`s, `job` the run of `retryWebhooks`. `Settlement` is paid, then credited once; `Payments!ImplementsSettlement` is the refinement |
| `Idempotency` | the middleware and a service behind it | the table `idempotency_keys`, and where each POST is; charges and failures after a charge are history |
| `Recording` | start, stop, egress webhook, `reconcileRecordings` | `status`, `source`, `linked` are columns of `stream_recordings`, `replays` counts rows of `replay_videos`, `egress` is LiveKit's side; `caller`, `final` and `job` say between which two `await`s a start or stop, a `finalizeFromEgress` and the job are; `lost` and `disturbed` are history |
| `Competition` | status, candidates, `finalizeRanking` (`RankSpec`); the performer and his recordings (`StageSpec`) | a finalization is a transaction: read the approved, sort, save row by row; it clears no rank of another, and `cmPassed` are those who had a rank and were rejected when it read who is approved. `stSlots` are rows of `stream_recordings`, `stChain` is where the unawaited chain of stop and start is that `setPerformer` leaves behind, or the stop of a finalization, or a start or stop by hand (`POST /recordings/start`, `/stop`); the admins' mode lets a start pass or not, and a row may be closed by the webhook or the job at any time. `stDue` is what was last asked to be recorded |
| `Duels` | requests of duels and the duels they make | `drStatus`, `drDuels`; each decider reads, and saves by id; an accept is a transaction; `expireDuelRequests` is one of the deciders |
| `Reminders` | `sendEventReminders`, users' own reminders | the job looks for a row, makes it, tells, and may break off between any two |
| `Seasons` | winners, rewards and notices of a season; badges of a month | `notifyWinners` tells and then stamps; `distribute_season_reward` locks; `assignMonthlyBadges` destroys and makes the rows again one by one |
| `Leaderboard` | the sorted set of a season next to the database | votes and gifts are the database, `lbSet` is Redis, `lbBump` additions not awaited, `lbListed` the process's list of active seasons |
| `Approval` (extends `Listing`) | edits and reviews of an artist's concert; reports of users (`ReportSpec`) | one row and what each handler has read of it; `caVetted`: the admin had seen what he approved |
| `Listing` | cursor and offset pagination of 20 lists | a list is the column it is sorted by and what its function makes of the cursor; rows come and go between two pages |
| `Audience` | likes and views, likes of lives, status of a live, requests to join, presence | five state machines; `psDue` counts the recounts that a join or a leave has left behind |
| `Reports` (extends `RevenueSplit`) | what the queries of revenues and rankings sum | `rvRows` with what INTEGER columns keep, `gvGifts`, `gvVotes`; the queries are operators |
| `Sponsors` | sponsor requests (`SponsorSpec`); ad videos and their plays (`AdSpec`) | read and save by id; `pay_sponsor_request` locks; `play_count + 1` is a statement of its own |
| `Deletion` | accounts scheduled for deletion, the purge, bans | a request is checked by `authenticate`, reads the account, and saves the date (`dlCall`); the job lists, and saves each by id |
| `Sessions` | refresh tokens, login, rotation, logout, reset | a refresh is a transaction; a reset saves the password and then revokes |
| `Signup` | registration, OAuth, referrals | a transaction that sees the accounts before its first read |
| `Codes` | codes by mail or phone, the one that makes the PIN anew included (`CodeSpec`); the PIN of withdrawals, its count and its lock (`PinSpec`) | read, compare for a while, save; then what the code was for. `verifyPin` and `setPin` read the row, compare, and save by id; `setPin` looks at no lock and counts no wrong PIN (`RefuseChange`) |
| `Roles` | requests to become artist or manager, roles given directly | apply reads and inserts; a review is a transaction |
| `Subscriptions` | Stripe's events on `fan_subscriptions`, activate, cancel | events in any order and again until marked processed; handlers break off |
| `PayoutMethods` | payout methods and their default | transactions whose UPDATE locks rows and gaps, deadlock included |
| `Inbox` (extends `Tables`) | devices (`DeviceSpec`), preferences (`PreferenceSpec`), rows that are found or made (`FoundSpec`) | search and insert are two steps; a notice clears dead endpoints. `FoundSpec` follows one row, `fdSought`, of a service that calls `findOrCreate`, `upsert` or `create` on it, by the keys of `Tables`: `fdRows` counts the rows there are of it |
| `Media` | one upload | each look at the object is a request; the URL stays good until it expires |
| `Tables`, `Erasure` (extends `Tables`) | the columns that name rows, the keys of the migrations and the models, and every service that inserts or erases a row | `Tables` is data taken from the migrations, its unique keys too; `Erasure` follows one table at a time with what it names |
| `Shows`, `Members` | compositions of the parts above | variables of all parts, and `focus` |
| `Null` | the value `NULL` | shared, as the parts are composed by `EXTENDS` |
| `MC…` | instances for TLC | constants only |
| `Sums` | sums of numbers over finite sets | lemmas only, for the proofs that count: the sum of a function over a set, and what a step that changes one summand does to it |
| `WalletProofs`, `WithdrawalProofs`, `PaymentsProofs`, `RecordingProofs` | theorems | one proof module per component |
| `RevenueSplitProofs` | theorems about distributions | cited by `WalletProofs`, where charges are distributed, and by `ShowsProofs`, where their rows are summed |
| `ShowsProofs` | theorems about the parts of `Shows` | part by part, then the composition |
| `MembersProofs` | theorems about the parts of `Members` | part by part, then the composition |

**Transactions.** `callProcedure` takes a connection of its own and nobody sets
an isolation level, so MySQL's default REPEATABLE READ applies: a plain `SELECT`
sees the snapshot of the first one, `UPDATE`, upserts and `SELECT … FOR UPDATE`
see and lock the latest committed row. The models rest on exactly that. (The
table in `docs/COMPLIANCE.md` speaks of SERIALIZABLE; no code asks for it.)
`save()` of Sequelize is an `UPDATE` by id of the columns that differ from what
was read, and nothing at all when none does.

**Composition.** Where parts share rows they are one module or one extends the
other: `RevenueSplit` runs inside the transaction of the charge, the
recordings of a performer are steps of `Competition`, an artist's concert is listed
while it is edited. `Withdrawal` and `Payments` touch the wallet only through one
conditional debit and through upserts, both atomic on the row, so each keeps its
own view of it; the promises `Payout` and `Settlement` say what the rest of the
system may rely on. The parts in `Shows` and in `Members` share no row that two
of them change; what one has of another (a user exists, a concert has started)
is a constant of it. A state of such a composition is a state of each part, every
interleaving of them is one of each alone, and a property of one part speaks of
no other: so one part, `focus`, moves in a behaviour, and a run checks all of
them in the sum of their states and not in the product.

**Histories.** The code has no locks where it would need them, so the sharp
statement is often: *P, unless two requests had the row in hand at once*. Such an
overlap is a history variable, set by the step that makes it (`drOverlap`,
`caRaced`, `pmLost`, `suDisordered`, `dvMixed`, …) and read by properties only.
They are as narrow as TLC allows: each names the rows, and the overlap, that make
the violation possible, and is cleared where the code comes to rest.

## Runs

| Run | Module, cfg | Checks | Shows |
| --- | --- | --- | --- |
| `wallet` | `MCWallet`, `Wallet.cfg` | `TypeOK`, `TicketsByRaceOnly`, `InventoryMatchesPurchases`, `NoUnpaidGift`, `Solvent` | what holds however purchases, gifts and votes interleave |
| `wallet_race` | `MCWallet`, `WalletRace.cfg` | `OneTicketPerUser`: violated | a double click buys two seats |
| `withdrawal` | `MCWithdrawal`, `Withdrawal.cfg` | `TypeOK`, `Conserved`, `ImplementsPayout` | with requests divided among administrators, each is paid or refunded once |
| `withdrawal_race` | `MCWithdrawal`, `WithdrawalRace.cfg` | `Conserved`: violated | with a common queue, a request is refunded and paid |
| `payments` | `MCPayments`, `Payments.cfg` | `TypeOK`, `ProcessedMeansCredited`, `ImplementsSettlement`, `LostWebhookIsRecovered` | paid, credited once; lost CinetPay webhooks are recovered |
| `stripe_twice` | `MCPayments`, `StripeTwice.cfg` | `CreditedOnce`: violated | overlapping deliveries of a Stripe event credit twice |
| `recording` | `MCRecording`, `Recording.cfg` | `TypeOK`, `EgressAccounted`, `ReplaysMatchRecordings`, `CompletedIsFinal`, `EndedIsClosed` | what holds of recordings however starts, stops, webhooks and the job interleave |
| `shows` | `MCShows`, `Shows.cfg` | `ShowsTypeOK`, and what is below | duels, competitions, reminders, seasons, boards, concerts, reports, audiences, lists, sums |
| `members` | `MCMembers`, `Members.cfg` | `MembersTypeOK`, and what is below | what users have of their own |
| `double_charge` | `MCMembers`, `DoubleCharge.cfg` | `NoDoubleCharge`: violated | an error after the commit frees the key |
| `artist_concert_refused` | `Erasure`, `ErasureRefused.cfg` | `FoundIsAccepted`: violated | foreign keys guessed from names refuse tickets and dedications of artists' concerts |
| `stage_race` | `Competition`, `StageRace.cfg` | `SlotsFollowPerformer`: violated | who left the stage while his recording was being started stays recorded |

What `shows` and `members` check of each part:

| Part | Property | In words |
| --- | --- | --- |
| duels | `DuelsMatchAnswers` | an accepted request has its duel; unless two deciders had it in hand at once, one, and otherwise none |
| ranking | `OneRanking` | the rows hold all of the ranking that was committed last, and no other rank but of candidates it passed over, who had been rejected |
| stage | `PerformerIsRecorded` | when the chains are done, what is open is what was last asked for: the performer on stage, a recording by hand, or nothing |
| reminders | `ToldOnce` | one notice per holder and concert, wherever runs break off |
| seasons | `WinnersServed`, `BadgesAreOneRun` | told once when stamped; who was credited reads received; badges are the ranks of one run |
| board, sums | `TotalsAgree` | the sorted set plus what is to come is the database (`DriftByOverlapOnly`); the queries that sum the same money agree (`RevenuesAddUp`, `EngagementAddsUp`) |
| concerts, reports, lists | `DecisionsStand` | what stands approved was seen by who approved it (`Vetted`); lists show all of it once (`ListedOnce`); verdicts are logged (`VerdictsAreLogged`) |
| audience | `AudienceIsServed` | likes and views add up, the room knows the status and how many are in it |
| sponsors, ads | `SponsorBooks`, `AdsAddUp` | paid once at the price shown; play counts, screens and ends of plays are right |
| deletion | `CancelStands`, `DueIsPurged` | nobody is purged who changed his mind, but while a request of his and the job overlap; who is due is banned in the end |
| sessions | `ResetEndsSessions` | after a reset, what lives was opened with its password |
| roles | `RolesMatchReviews` | an approved request has role and profile, and no role comes from nowhere |
| subscriptions | `ActiveMatchesStripe` | one active row exactly if Stripe said so last |
| payout methods | `AtMostOneDefault` | never two defaults, and one if there are any |
| keys | `KeysKept` | one charge per key, true answers, blocked by a loss only |
| erasure | `NothingElseDangles` | only the columns of `MayDangle` ever name a row that is gone |
| sign-up | `NewcomersAddUp` | welcome and rewards once; one admin if accounts begin one by one |
| codes, PIN | `TriesAreCounted` | a code serves once; tries of `verifyOtp` and `verifyPin` are as many as their limits say |
| devices, preferences, rows, uploads | `UsersAreServed` | devices are pushed on for their users, preferences kept, one row of what has a unique key (`ReachedAsAsked`), a confirmed file was checked (`ConfirmedIsChecked`), and `AdsAddUp` |

The violations are findings: each quotes the line of a document or a
comment that the code does not keep. The runs beside them check what is left
when the cause is excluded, and that part is what the theorems prove. Deadlock
is not checked: each of these instances has finitely much to buy, to pay, to
answer or to post, and stops when it is done.

**Bounds.** Two payers, one with two requests in flight, are enough for a
duplicate ticket, and a pool of two
connections lets two of the three requests race for the last seat of a concert
of one (the process's pool, `config/sequelize.js`, has 10 or 20); 8 cents make
a purchase fail after another one, and a charge of 5 with 20/70/10 %
makes all three shares round up. Three withdrawal requests over two artists
give a second request that a first one's refund makes possible. Two workers and
`MaxDeliveries = 2` give a repeated and a concurrent delivery of each event; the
job is a third actor. Two callers, one of which
starts and stops, two rows, one webhook request, the job and one fault let two
starts race, a stop meet either, the webhook meet the job, and a restart fall
between a replay and its row.

In `Shows.cfg` and `Members.cfg` each part has two requests of a kind in flight
about one row, or three where it takes three to go wrong:
`Deciders` of one invitation (two answers and the job), `Sockets` in the room,
`Donors` for two ranks, `Rows` of a list with two made in one second. `Credit = 10` and
`Amounts = {10}` are small units with which a share is not a whole credit, as 0.70
is not in the code. Five POSTs under two keys give a retry of a retry, a wrong
body and an unrelated key. `Direct` are the roles admins give and take directly:
that of an artist, which is also sought by requests. `MaxPassword`, `MaxAds`,
`MaxCodes`, `MaxDuels`, `MaxScore`, `MaxSlots`, `MaxRuns`, `MaxPaid`, `MaxLikes`,
`MaxViews`, `MaxHearts`, `MaxJoins`, `MaxRecounts`, `MaxRevenues`, `MaxGiven`,
`MaxRegistered` (rows of devices and rows that are found or made) and `MaxEvents`
bound what may be made, `MaxPurgeFaults` and
`MaxStageFaults` what may fail. `MaxAttempts = 1` and `MaxPinAttempts = 2` stand for
five: a limit is reached, and passed, by overlapping checks. `DateCalls` are requests
about the deletion of either account: one in `Members.cfg`, next to the job and the
admins, is what can overlap the job. `StageRace.cfg` has two performers and two requests
of the manager.
`Shows.cfg` has a VIEW (`PartInFocus`): of a state of the composition only the part in
focus is told apart, the others being as they were at first.
Constants that bound a run appear in no proof except as arbitrary values.

**Not in the bounds.** The limit of 100 rows and the two minutes of grace of
`retryWebhooks`, the limits of 100 rows and the ten minutes of
`reconcileRecordings` (the model's job may find any pending rows stale), and the limits
of single amounts (10000 credits a vote, 100 gifts a purchase), which refuse and change
nothing.

**Fairness.** `payments`, `recording` and `members` need it. `retryWebhooks` is scheduled every three
minutes, so `ListPending` and `AskOther` are weakly fair; a single question or a
single settlement may fail or be cut short by a restart, but not for ever, so
`AskAccepted` and `Reconcile` are strongly fair. Nothing is assumed of webhooks
or buyers. The liveness is bounded as the code bounds it: `late` rows, older
than 24 hours, are excused. `reconcileRecordings` is scheduled every five minutes:
`JobStep` is weakly fair. LiveKit ends an egress it was asked to end: `EgressEnds`
of an `ending` egress is weakly fair. Webhooks may all be lost, and no call of
stop is assumed. That an egress LiveKit has forgotten has no webhook at work
(`Forgotten`) rests on its keeping an ended egress far longer than a run of the job.
The purge of accounts runs once a day (`DeletionFairness`): its steps are weakly
fair, and its faults are finitely many.

## Theorems

| Module | Theorem | States |
| --- | --- | --- |
| `RevenueSplitProofs` | `GiftsAreSharedExactly`, `EventsAreSharedWithinACent`, `DistributionWithinACent` | what a distribution books and pays, for every amount and percentage |
| `WalletProofs` | `TypeCorrect` | `Spec => []TypeOK`: no overdraft |
| | `SolventAlways`, `GiftsArePaidFor`, `TicketsPerUser`, `SeatsPerConcert`, `TicketsAreSafe` | the invariants of run `wallet` |
| | `GiftsAreConserved` | `Spec => []InventoryMatchesPurchases` |
| `WithdrawalProofs` | `TypeCorrect`, `Implementation`, `PaidOrGivenBack` | types; `OneDeskPerRequest` gives `Spec => ImplementsPayout` and `Spec => []Conserved` |
| `PaymentsProofs` | `TypeCorrect`, `ProcessedIsCredited`, `RowsAreCreditedOnce`, `CreditsArePaidFor`, `Implementation`, `EveryPurchaseOnce` | the last two under `OneWorkerPerReference` |
| `RecordingProofs` | `TypeCorrect`, `OpenByRace`, `EgressKnown`, `EgressAlwaysAccounted`, `CompletedReplay`, `OneReplay`, `ReplaysCorrespond`, `CompletedFinal` | the safety properties of run `recording` |
| `ShowsProofs` | `DuelsAnswered`, `RankingIsOne`, `StageIsRecorded`, `RemindersTellOnce`, `WinnersAreServed`, `BadgesOfOneRun` | types and the property of a part, as theorems of the specification of that part alone |
| | `ConcertsAreVetted`, `VerdictsOfLog`, `CursorPagesAreComplete`, `PagesAreComplete` | the parts of `DecisionsStand` |
| | `ShowsAreParts`, `ShowsAreSafe`, `DecisionsAreKept`, `AudienceServed`, `TotalsAlwaysAgree`, `ShowsTyped` | `ShowsSpec` implements each of the specifications above and those of the board, the audience and the sums, and so keeps every invariant of run `shows` |
| `MembersProofs` | `CancelsStand`, `SessionsEnded`, `RolesFollowReviews`, `SubscriptionsFollowStripe`, `OneMethodIsDefault`, `NewcomersStart`, `TriesCount` | as above, for accounts |
| | `KeysAreTyped`, `ChargedOncePerKey`, `NoDoubleChargeUnlessFailedLate`, `SuccessIsTrue`, `BlockedKeys`, `KeysAreKept` | `KeysKept`, conjunct by conjunct |
| | `SponsorBooksBalance`, `MembersAreParts`, `MembersAreSafe`, `UsersServed`, `MembersTyped` | sponsors; `MembersSpec` implements each of its parts and keeps the invariants of run `members` |
| | `OnlyTheseDangle` | `MembersSpec => []NothingElseDangles`, from what TLC evaluates of the schema |

**Assumptions.** Each module names its assumptions on constants
(`WalletAssumption`, `PaymentsAssumption`, …); TLC evaluates them in every run.
The one that is a demand on the configuration is `SharesWithinWhole`: the
percentages of a section of `economic_config` add up to no more than 100 %
(the seed does; the code does not check it). `OneDeskPerRequest` and
`OneWorkerPerReference` are hypotheses of the theorems that need them: the code
does not enforce them, and the violation runs show what happens without.
Three assumptions of `Erasure` are not about constants but about the whole of the schema
in `Tables`, which has no parameter: the columns of a table have different names and
keys have their `ON DELETE` (`ColumnsAssumption`), four steps up reach all that
a row can hang on (`AboveAssumption`), and the columns without a key are in `MayDangle` or
of the three kinds the proof treats (`UnkeyedAssumption`). TLC evaluates them column by
column; what a single table says (`SessionColumns`, `DedicationColumn`) is proved.
Beyond that the assumptions say that sets of users, requests and sessions are
finite, that bounds are natural numbers, and that `NULL` is none of the data;
no theorem supposes how many there are of anything.

**Arguments.**
- *Rounding.* `Share` is within half a unit of the exact share, so three of them
  exceed the whole by less than a unit and a half, and being integers by at most
  one (`ThreeShares`). `Solvent` follows step by step: each transaction adds one
  to `splits` and books at most one cent more than it charges.
- *No overdraft.* The debit and its condition are one action, and every other
  action adds; the snapshot decides only whether there is a purchase at all.
- *Tickets and seats.* Invariants about tickets alone are not inductive, as a
  purchase in flight will still add one. Counting `InFlight` purchases with the
  tickets is: `Begin` is guarded by the ticket, `Commit` moves one from one
  count to the other.
- *Withdrawals.* The refinement needs `SavesWhatItRead`: a handler's request is
  still as it was read. It is inductive only if no other session works on it.
- *Payments.* `BooksInv` ties the status of a row to the count of its credits and
  the stage of each handler and of the job to the payment; `CountedInv` says a
  handler that has counted is the only one of its reference.
- *Idempotency.* `OwnersInv` says who owns the row of a key at each stage, so a
  key without a row has no request at work.
- *Recordings.* `LinkInv` and `ReplayInv` tie a handler to its row: starts have
  rows of their own without an egress id, finalizers have complete egresses. With
  them `HandsInv` is inductive: a row that is not `disturbed` is in one hand at
  most, in none once it is completed, so a stale write can neither undo it nor
  lead to a second replay. `OpenByRaceOnly` counts starts under way together with
  the open rows none of them works on: each step moves at most one from the first
  to the second (`CountedStep`), a restart all of them.
- *Lists.* `ReadByCursor` is not inductive: in the middle of a list one must
  know that what was got is not beyond the cursor and what stayed and was not got
  is (`CursorInv`). A row that comes is in neither set, and one that goes leaves both claims
  true; a page moves the cursor to its last row, and the order is total. For pages by
  number (`PagesInv`) a row's place is how many are before it: the places are the
  numbers from nought on, so what has been got is what is placed before the offset.
- *Sums.* `Conserved`, `HeartsAddUp` and `SponsorBooks` add numbers up over a set.
  The sum of the community modules is a fold, which the provers do not unfold by
  themselves; `Sums` shows, by a least counterexample, that a sum over a finite set is
  one summand and the sum over the others, and all else by that: a step changes one
  summand and the sum by as much. `Balanced` then says what a wallet holds and what
  its requests hold or paid is what it had (`PaidOrGivenBack`), `WalletIsCharged` the
  same of sponsors, and `CreditsAddUp` counts the rewards of referrals.
- *The board.* `LeaderboardInv` says of each artist: his score in the set and the points
  that are in the hands of payments (`Awaited`) make up what the database says, with the
  winner the set was filled for (`SetAddsUp`), until overlapping payments have drifted;
  and the same of the rows a reader has in hand, as long as nothing was paid since
  (`RowsAddUp`). The first is `DriftByOverlapOnly`, and the second what a reader
  who fills the set hands on to it.
- *Totals of revenues.* The queries group the same rows by event, by source and one by
  one. A sum over a set is the sum over groups of the sums of the groups
  (`ValuesAddUp`, `GroupsAddUp`), and groups that sum to nothing can be left out, so the three are one sum over the rows of
  the user. That it is what his wallet got is an invariant, row by row: `RevenueInv`
  holds the rows of a user within half a credit per role (`Near`) of `rvGot`, and each row
  within its total (`RowAddsUp`), by the theorems of `RevenueSplitProofs`. What is
  ranked is a number of rows times a price, plus a number of rows: `EngagementInv` says
  a sender's payments are that (`Gave`) until the price changed.
- *Gifts.* `MatchedInv` adds to the property that a purchase that is under way knows
  whether there are rows (`SeesRows`), which is so as long as the payer has no other.
- *What is in hand is so still.* Nearly every service reads, decides and saves later.
  Its property is inductive with one more conjunct: what a request has in hand is as
  it read it, or the history variable of the overlap names the row. That is
  `DuelHands`, `AloneRanks`, `CallsInHand` (winners), `StillDue` and `AskersKnown` (the purge),
  `ReviewsInHand` (roles), `HandsAgree` (sign-up), `UnmixedAreRight` (devices),
  `FlagsAreKnown` (preferences), `ConfirmsKnow` (uploads), `PaymentsHold` and
  `ApprovalsHaveAds` (sponsors), `HandsRead` (approval), `AloneKnows` (lives). Where
  a bound of the model has to be kept, those that are on their way are counted with
  those that are there (`DuelRoom`).
- *One of a kind.* `OneChain`: a stage that is not muddled has one chain of stop and
  start, and its open recording is the one the chain has in hand, or, if there is no
  chain, what is due (`InStep`, `DueIsOpen`). `RankedWereApproved`: who has a rank,
  or is on the list of a finalization under way, is approved or rejected, so a ranking that
  does not list him passed him over (`AloneRanks`). `OneDefault`: there
  is a default already when a request has read that there are methods. `BestOfARun`:
  the badges are the first of the ranks of a run, so many as it came to. `FoundInv`:
  the rows of a profile and the requests that saw none are no more than the requests.
- *Order.* `YoungerThanReset`: a token that lives, and a request that is about to issue
  one, has seen the password of the last reset, or read before it revoked. `AsLastApplied`:
  a subscription whose events came in order has a row since its checkout, and is
  as the last event that was applied says. `TriesOfCodes`: of a code whose checks
  did not overlap the count of tries is right, and who was accepted is the only one.
- *Rows that are erased.* `GoWith` is the least set of rows that has with its roots what
  hangs on it, so what is erased leaves no cascading key behind (`GoWithClosed`), and
  nothing is erased that need not be (`GoWithLeast`). A column with a key then names a row
  there is: when its row is inserted the key holds, and when the row it names goes, its row
  goes too or the column is cleared. What remains are the columns without a key that
  are not in `MayDangle`, and they are safe for three reasons: a sponsor's video is never
  erased (`VideosStay`; `AskedFits` for a row that was asked for before), a dedication is never
  accepted (`NoDedications`: the key of its concert is on the other table), and a session
  goes only with its user, who is that of the one it replaced (`SessionsOfOneUser`,
  `SessionGoesWithUser`). For a session that is asked for this needs `AskedSession`: the
  one it replaces is there, or the user is gone and the insert is refused.
- *Composition.* A step of `Shows` is a step of the part in `focus` and leaves the
  variables of the others, so it is a step or a stutter of each part: `ShowsAreParts`
  and `MembersAreParts` say that the composition implements all of its parts, and
  what a part keeps the composition keeps.

**Only model-checked.** Liveness (`LostWebhookIsRecovered`, `EndedIsClosed`,
`DueIsPurged`), which is out of the prover's reach. Every other property of a passing
run is stated by a theorem.

## What the code does not promise

Properties are stated about what the code does; where a document promises more
and a run shows it, there is a finding. Some divergences met on the way have no
run of their own, because they are seen by looking at one place:

- The foreign keys were guessed by `scripts/generate-schema.js` from the names of
  columns. Purchases of artists' concerts (`artist_concert_refused`) are the
  harshest case; `Wallet` and `Recording` assume the keys as the procedures
  expect them. `MayDangle` lists the columns that no key guards.
- `finalizeRanking` ranks the approved candidates and clears no rank
  (`competition.service.js:385-397`), and `reviewCandidate` works in any status: who was
  ranked and is rejected keeps `final_rank` when a second finalization gives it to
  somebody else. No document says ranks are unique; `OneRanking` says who may be left
  with an old one.
- Codes that reset the PIN are counted and have no limit (`withdrawal.service.js:156-160`);
  `setPin` compares current PINs, of a locked row too, and counts none of them
  (`withdrawal.service.js:70-77`), against `SECURITY.md:21` and `withdrawal.service.js:17`.
  `TriesAreCounted` is about `verifyOtp` and `verifyPin`, which have a limit.
- `cancelAccountDeletion` looks at no ban: `authenticate` did, before it. When the purge
  saves between its read and its save (`user.service.js:103-110, 120-126`), the user is
  told that the deletion is cancelled (`:99`: the account is active again), is banned, and
  has no date. `CancelStands` excepts requests that overlap the job's save.
- The key of `live_likes` is the number itself (migration `0001`, line 562), so
  the likes of one live raise the number of another (`live.service.js:189`, against `:183`).
  `HeartsAddUp` is what is left: no like is lost.
- A recording of a live never gets a replay: `SOURCE_FK` has no entry for it
  (`replay.service.js:24`; `docs/RECORDING.md:16,75`).
- The columns of shares in `revenue_distributions` are INTEGER, wallets DECIMAL:
  of a vote of one credit an artist may get 0.70, and the row says 1.
  `RevenuesAddUp` allows for half a credit per row and column, and for
  the cent by which three rounded shares can exceed what was charged.
- The queries of one's own revenues count one role per row, those of
  administrators all. Rankings count a gift at today's price of the catalog.
- `compareDistribution` shows sections of the configuration
  (`revenue`, `distribution`) that `distribute_event_revenue` never reads.
- `startAd` looks neither at `is_active` nor at `allows_sponsor_ads`.
- A user with no row of preferences is sent mail; opening the page makes a row
  with every flag off (`notify.js:118-121`; `SentAsAsked`).
- Lists of concerts are sorted by date but their cursor is of `created_at`
  (`concert.service.js:190, 270`); `mine=true` of replays drops the cursor's
  condition (`replay.service.js:57-60`); `listPlatformBans` cannot make a cursor
  (`moderation.service.js:322-333`). `ListedOnce` is about the others.
- The cache of active seasons has an invalidation nobody calls, `recordWin` is
  not called either (`leaderboard.realtime.js:14-18`): wins reach the set only
  when it is filled anew.
- Reminders of competitions have no row: each run tells again
  (`handlers.js:125`). Those of concerts are told at most once
  (`handlers.js:70-72`), and a user who removes his reminder removes the mark.
- `distribute_season_reward` does not look at `reward_status`: a second call
  credits again. How often a reward is paid is no part of `WinnersServed` for that reason.
- The revocation of a family of tokens after a reuse is rolled back by the error
  thrown in the same transaction; an older unused code stays valid.
- An upload URL can be used again until it expires, against `local.driver.js:20-22`.
- `listComments` shows the number of the last toggle for a comment nobody likes;
  `cancelJoinRequest` cancels in any status (`live.service.js:265`).

## Not modelled

Wording, formatting, logging; most of the validation of inputs; reads that
change nothing and that nothing sums or pages; generated wiring. Real-time pushes and
notices only where a property is about them (`ToldOnce`, `RoomKnows`, `AdsAddUp`,
`ReachedAsAsked`). Rows that one user edits and nobody else decides on: profiles,
blog posts, plans, chat; of profiles and settings only how many rows there are.
Notices marked as read, artists' meetings, the monthly report.
Presence counts the sockets of one process, as the code does; several processes
share nothing but Redis. What storage, LiveKit, Stripe and the other providers do
inside is external. About seven tenths of the lines of the implementation are of
these kinds.

## Plan

1. Done: the components above, each with the hazards of its own.
2. Done: types and safety of each part of `Shows` and `Members`, the compositions,
   all the sums (of `Withdrawal`, `Wallet`, `Sponsors`, `Audience`, `Leaderboard` and
   `Reports`), and what is left of rows when others are erased. Left: shorter proofs of
   what the large modules share.
3. Larger instances where a run leaves room: a third moderator, two concerts.
