------------------------------- MODULE Tables -------------------------------
(***************************************************************************)
(* Which columns of which tables name rows of other tables, and the        *)
(* foreign keys of the migrations on them. The migration, and the model of *)
(* each table, were generated (scripts/generate-schema.js) from the types  *)
(* of an earlier database, which did not show its keys: a column has the   *)
(* key its name suggests, or none.                                         *)
(*                                                                         *)
(* Columns that name rows of any kind or none (admin_logs.target_id,       *)
(* content_shares.content_id, revenue_distributions.source_id) are left    *)
(* out, and so are tables that name no rows.                               *)
(***************************************************************************)
EXTENDS Null

\* The columns cs name rows of the tables 'names', of one of them each: NOT NULL, or
\* rows or nothing.
Of(cs, names)  == [column : cs, names : {names}, required : {TRUE}]
May(cs, names) == [column : cs, names : {names}, required : {FALSE}]

Users     == {"users"}
OfUser(cs)  == Of(cs, Users)
MayUser(cs) == May(cs, Users)

\* The columns cs have a foreign key on the table t, with its ON DELETE.
Cascade(cs, t) == [column : cs, key : {t}, rule : {"cascade"}]
SetNull(cs, t) == [column : cs, key : {t}, rule : {"set null"}]
CascadeUser(cs) == Cascade(cs, "users")
SetNullUser(cs) == SetNull(cs, "users")

\* What the services put into columns that name rows of several tables.
EventTables == {"duels", "concerts", "artist_concerts", "competitions"}
Streamed  == {"duels", "artist_lives", "artist_concerts", "competitions"}
Commented == {"duels", "artist_lives", "lifestyle_videos", "blogs", "replay_videos"}
Dedicated == {"artist_concerts", "artist_lives"}
Concerts  == {"artist_concerts", "concerts"}

-----------------------------------------------------------------------------
(* The columns (createTable).                                              *)

AccountReport ==
    OfUser({"reported_user_id", "reporter_id"}) \cup MayUser({"reviewed_by"})
AccountWarning == MayUser({"issued_by"}) \cup OfUser({"user_id"})
AdminLog == MayUser({"admin_id"})
ArtistConcert == MayUser({"approved_by"}) \cup OfUser({"artist_id"})
ArtistFollower == OfUser({"artist_id", "follower_id"})
ArtistLive == OfUser({"artist_id"})
ArtistProfile == OfUser({"user_id"})
ArtistRequest == MayUser({"reviewed_by"}) \cup OfUser({"user_id"})
Blog == OfUser({"author_id"})
CinetpayAlert == MayUser({"acknowledged_by"})
CinetpayTransaction ==
    OfUser({"user_id"})
      \cup May({"withdrawal_request_id"}, {"withdrawal_requests"})
CommentLike == Of({"comment_id"}, {"comments"}) \cup OfUser({"user_id"})
Comment ==
    May({"parent_id"}, {"comments"}) \cup OfUser({"user_id"})
      \cup Of({"content_id"}, Commented)
CompetitionAd ==
    Of({"competition_id"}, {"competitions"})
      \cup May({"sponsor_video_id"}, {"sponsor_ad_videos"})
CompetitionBan ==
    Of({"competition_id"}, {"competitions"})
      \cup OfUser({"banned_user_id", "banned_by"})
CompetitionCandidate ==
    OfUser({"artist_id"}) \cup Of({"competition_id"}, {"competitions"})
      \cup MayUser({"reviewed_by"})
CompetitionChatMessage ==
    Of({"competition_id"}, {"competitions"})
      \cup May({"parent_id"}, {"competition_chat_messages"})
      \cup OfUser({"user_id"})
CompetitionGift ==
    Of({"competition_id"}, {"competitions"}) \cup OfUser({"sender_id"})
      \cup Of({"candidate_id"}, {"competition_candidates"})
      \cup Of({"gift_id"}, {"virtual_gifts"})
CompetitionReport ==
    Of({"competition_id"}, {"competitions"}) \cup OfUser({"reporter_id"})
      \cup MayUser({"reviewed_by"})
CompetitionTicket ==
    Of({"competition_id"}, {"competitions"}) \cup OfUser({"user_id"})
CompetitionVote ==
    Of({"competition_id"}, {"competitions"}) \cup OfUser({"voter_id"})
      \cup Of({"candidate_id"}, {"competition_candidates"})
Competition ==
    MayUser({"manager_id", "forced_focus_participant_id"})
      \cup May({"current_performer_id"}, {"competition_candidates"})
ConcertChatMessage ==
    Of({"concert_id"}, {"concerts"})
      \cup May({"parent_id"}, {"concert_chat_messages"})
      \cup OfUser({"user_id"})
ConcertDedication ==
    OfUser({"artist_id", "fan_id"}) \cup Of({"concert_id"}, Dedicated)
ConcertReminder == Of({"concert_id"}, {"concerts"}) \cup OfUser({"user_id"})
ConcertTicket ==
    Of({"concert_id"}, Concerts) \cup OfUser({"user_id"})
      \cup MayUser({"validated_by"})
ContentShare == MayUser({"user_id"})
CreditPurchase == OfUser({"user_id"})
DuelAd == MayUser({"created_by"}) \cup May({"duel_id"}, {"duels"})
DuelChatMessage ==
    Of({"duel_id"}, {"duels"}) \cup May({"parent_id"}, {"duel_chat_messages"})
      \cup OfUser({"user_id"})
DuelReminder == Of({"duel_id"}, {"duels"}) \cup OfUser({"user_id"})
DuelRequest ==
    MayUser({"manager_id"}) \cup OfUser({"opponent_id", "requester_id"})
DuelTicket == Of({"duel_id"}, {"duels"}) \cup OfUser({"user_id"})
DuelVote == OfUser({"artist_id", "user_id"}) \cup May({"duel_id"}, {"duels"})
Duel ==
    OfUser({"artist1_id", "artist2_id"})
      \cup MayUser({"manager_id", "winner_id", "current_timer_target_id"})
EmailNotificationPreference == OfUser({"user_id"})
FanSubscription == OfUser({"user_id"})
GiftConversion == OfUser({"user_id"})
GiftTransaction ==
    May({"duel_id"}, {"duels"}) \cup OfUser({"from_user_id", "to_user_id"})
      \cup May({"gift_id"}, {"virtual_gifts"})
      \cup May({"live_id"}, {"artist_lives"})
LeaderboardReward ==
    May({"virtual_gift_id"}, {"virtual_gifts"})
      \cup Of({"season_id"}, {"leaderboard_seasons"})
LifestyleVideo == OfUser({"artist_id"})
LiveChatMessage == OfUser({"user_id"}) \cup Of({"live_id"}, {"artist_lives"})
LiveJoinRequest == OfUser({"user_id"}) \cup Of({"live_id"}, {"artist_lives"})
LiveLike == Of({"live_id"}, {"artist_lives"})
LiveReport ==
    MayUser({"reviewed_by"}) \cup OfUser({"user_id"})
      \cup Of({"live_id"}, {"artist_lives"})
ManagerProfile == OfUser({"user_id"})
ManagerRequest == MayUser({"reviewed_by"}) \cup OfUser({"user_id"})
MonerooTransaction == OfUser({"user_id"})
Notification == OfUser({"user_id"})
PlatformSetting == MayUser({"updated_by"})
Profile == MayUser({"referred_by"})
PushSubscription == OfUser({"user_id"})
Referral == OfUser({"referred_id", "referrer_id"})
ReplayAccess == OfUser({"user_id"}) \cup Of({"replay_id"}, {"replay_videos"})
ReplayLike == OfUser({"user_id"}) \cup Of({"replay_id"}, {"replay_videos"})
ReplayVideo ==
    MayUser({"artist_id", "created_by"})
      \cup May({"competition_id"}, {"competitions"})
      \cup May({"concert_id"}, Concerts) \cup May({"duel_id"}, {"duels"})
RevenueDistribution ==
    MayUser({"artist1_id", "artist2_id", "manager_id"})
      \cup OfUser({"payer_id"})
SeasonWinner ==
    OfUser({"user_id"}) \cup Of({"season_id"}, {"leaderboard_seasons"})
      \cup MayUser({"meeting_proposed_by"})
SponsorAdPlay ==
    Of({"ad_video_id"}, {"sponsor_ad_videos"})
      \cup May({"request_id"}, {"sponsor_requests"})
      \cup Of({"event_id"}, EventTables) \cup OfUser({"triggered_by"})
SponsorAdVideo == Of({"event_id"}, EventTables) \cup MayUser({"uploaded_by"})
SponsorRequest ==
    OfUser({"requester_id"}) \cup MayUser({"reviewed_by"})
      \cup Of({"event_id"}, EventTables)
StreamBan ==
    OfUser({"banned_user_id", "banned_by"}) \cup Of({"stream_id"}, Streamed)
UserBadge == OfUser({"user_id"})
UserCurrencyPreference == OfUser({"user_id"})
UserGift == OfUser({"user_id"}) \cup May({"gift_id"}, {"virtual_gifts"})
UserPayoutMethod == OfUser({"user_id"})
UserRole == OfUser({"user_id"})
UserUiPreference == OfUser({"user_id"})
UserWallet == OfUser({"user_id"})
UserWithdrawalPin == OfUser({"user_id"})
VideoInteraction ==
    OfUser({"user_id"}) \cup Of({"video_id"}, {"lifestyle_videos"})
WebrtcSignal == OfUser({"sender_id"}) \cup MayUser({"target_id"})
WithdrawalPinResetToken == OfUser({"user_id"})
WithdrawalRequest == MayUser({"processed_by"}) \cup OfUser({"user_id"})
RefreshToken == OfUser({"user_id"}) \cup May({"replaced_by"}, {"refresh_tokens"})
OtpCode == MayUser({"user_id"})
OAuthAccount == OfUser({"user_id"})
IdempotencyKey == MayUser({"user_id"})
StreamRecording ==
    Of({"source_id"}, Streamed) \cup MayUser({"artist_id", "created_by"})
      \cup May({"replay_id"}, {"replay_videos"})
-----------------------------------------------------------------------------
(* The keys (addConstraint).                                               *)

AccountReportKeys ==
    CascadeUser({"reported_user_id", "reporter_id"})
      \cup SetNullUser({"reviewed_by"})
AccountWarningKeys == SetNullUser({"issued_by"}) \cup CascadeUser({"user_id"})
AdminLogKeys == SetNullUser({"admin_id"})
ArtistConcertKeys ==
    SetNullUser({"approved_by"}) \cup CascadeUser({"artist_id"})
ArtistFollowerKeys == CascadeUser({"artist_id", "follower_id"})
ArtistLiveKeys == CascadeUser({"artist_id"})
ArtistProfileKeys == CascadeUser({"user_id"})
ArtistRequestKeys == SetNullUser({"reviewed_by"}) \cup CascadeUser({"user_id"})
BlogKeys == CascadeUser({"author_id"})
CinetpayAlertKeys == SetNullUser({"acknowledged_by"})
CinetpayTransactionKeys ==
    CascadeUser({"user_id"})
      \cup SetNull({"withdrawal_request_id"}, "withdrawal_requests")
CommentLikeKeys ==
    Cascade({"comment_id"}, "comments") \cup CascadeUser({"user_id"})
CommentKeys == Cascade({"parent_id"}, "comments") \cup CascadeUser({"user_id"})
CompetitionAdKeys == Cascade({"competition_id"}, "competitions")
CompetitionBanKeys == Cascade({"competition_id"}, "competitions")
CompetitionCandidateKeys ==
    CascadeUser({"artist_id"}) \cup Cascade({"competition_id"}, "competitions")
      \cup SetNullUser({"reviewed_by"})
CompetitionChatMessageKeys ==
    Cascade({"competition_id"}, "competitions")
      \cup Cascade({"parent_id"}, "competition_chat_messages")
      \cup CascadeUser({"user_id"})
CompetitionGiftKeys ==
    Cascade({"competition_id"}, "competitions") \cup CascadeUser({"sender_id"})
CompetitionReportKeys ==
    Cascade({"competition_id"}, "competitions")
      \cup CascadeUser({"reporter_id"}) \cup SetNullUser({"reviewed_by"})
CompetitionTicketKeys ==
    Cascade({"competition_id"}, "competitions") \cup CascadeUser({"user_id"})
CompetitionVoteKeys ==
    Cascade({"competition_id"}, "competitions") \cup CascadeUser({"voter_id"})
CompetitionKeys == SetNullUser({"manager_id"})
ConcertChatMessageKeys ==
    Cascade({"concert_id"}, "concerts")
      \cup Cascade({"parent_id"}, "concert_chat_messages")
      \cup CascadeUser({"user_id"})
ConcertDedicationKeys ==
    CascadeUser({"artist_id"}) \cup Cascade({"concert_id"}, "concerts")
ConcertReminderKeys ==
    Cascade({"concert_id"}, "concerts") \cup CascadeUser({"user_id"})
ConcertTicketKeys ==
    Cascade({"concert_id"}, "concerts") \cup CascadeUser({"user_id"})
      \cup SetNullUser({"validated_by"})
ContentShareKeys == CascadeUser({"user_id"})
CreditPurchaseKeys == CascadeUser({"user_id"})
DuelAdKeys == SetNullUser({"created_by"}) \cup SetNull({"duel_id"}, "duels")
DuelChatMessageKeys ==
    Cascade({"duel_id"}, "duels")
      \cup Cascade({"parent_id"}, "duel_chat_messages")
      \cup CascadeUser({"user_id"})
DuelReminderKeys == Cascade({"duel_id"}, "duels") \cup CascadeUser({"user_id"})
DuelRequestKeys ==
    SetNullUser({"manager_id"})
      \cup CascadeUser({"opponent_id", "requester_id"})
DuelTicketKeys == Cascade({"duel_id"}, "duels") \cup CascadeUser({"user_id"})
DuelVoteKeys ==
    CascadeUser({"artist_id", "user_id"}) \cup SetNull({"duel_id"}, "duels")
DuelKeys ==
    CascadeUser({"artist1_id", "artist2_id"})
      \cup SetNullUser({"manager_id", "winner_id"})
EmailNotificationPreferenceKeys == CascadeUser({"user_id"})
FanSubscriptionKeys == CascadeUser({"user_id"})
GiftConversionKeys == CascadeUser({"user_id"})
GiftTransactionKeys ==
    SetNull({"duel_id"}, "duels")
      \cup CascadeUser({"from_user_id", "to_user_id"})
LeaderboardRewardKeys == SetNull({"virtual_gift_id"}, "virtual_gifts")
LifestyleVideoKeys == CascadeUser({"artist_id"})
LiveChatMessageKeys == CascadeUser({"user_id"})
LiveJoinRequestKeys == CascadeUser({"user_id"})
LiveReportKeys == SetNullUser({"reviewed_by"}) \cup CascadeUser({"user_id"})
ManagerProfileKeys == CascadeUser({"user_id"})
ManagerRequestKeys == SetNullUser({"reviewed_by"}) \cup CascadeUser({"user_id"})
MonerooTransactionKeys == CascadeUser({"user_id"})
NotificationKeys == CascadeUser({"user_id"})
PushSubscriptionKeys == CascadeUser({"user_id"})
ReferralKeys == CascadeUser({"referred_id", "referrer_id"})
ReplayAccessKeys == CascadeUser({"user_id"})
ReplayLikeKeys == CascadeUser({"user_id"})
ReplayVideoKeys ==
    CascadeUser({"artist_id"}) \cup SetNull({"competition_id"}, "competitions")
      \cup SetNull({"concert_id"}, "concerts") \cup SetNullUser({"created_by"})
      \cup SetNull({"duel_id"}, "duels")
RevenueDistributionKeys ==
    CascadeUser({"artist1_id", "artist2_id"}) \cup SetNullUser({"manager_id"})
SeasonWinnerKeys == CascadeUser({"user_id"})
SponsorRequestKeys ==
    CascadeUser({"requester_id"}) \cup SetNullUser({"reviewed_by"})
UserBadgeKeys == CascadeUser({"user_id"})
UserCurrencyPreferenceKeys == CascadeUser({"user_id"})
UserGiftKeys == CascadeUser({"user_id"})
UserPayoutMethodKeys == CascadeUser({"user_id"})
UserRoleKeys == CascadeUser({"user_id"})
UserUiPreferenceKeys == CascadeUser({"user_id"})
UserWalletKeys == CascadeUser({"user_id"})
UserWithdrawalPinKeys == CascadeUser({"user_id"})
VideoInteractionKeys == CascadeUser({"user_id"})
WebrtcSignalKeys == CascadeUser({"sender_id"})
WithdrawalPinResetTokenKeys == CascadeUser({"user_id"})
WithdrawalRequestKeys ==
    SetNullUser({"processed_by"}) \cup CascadeUser({"user_id"})
RefreshTokenKeys == CascadeUser({"user_id"})
OtpCodeKeys == SetNullUser({"user_id"})
OAuthAccountKeys == CascadeUser({"user_id"})
-----------------------------------------------------------------------------
\* The columns of each table, and the keys on them.
Declared == [
    account_reports |-> <<AccountReport, AccountReportKeys>>,
    account_warnings |-> <<AccountWarning, AccountWarningKeys>>,
    admin_logs |-> <<AdminLog, AdminLogKeys>>,
    artist_concerts |-> <<ArtistConcert, ArtistConcertKeys>>,
    artist_followers |-> <<ArtistFollower, ArtistFollowerKeys>>,
    artist_lives |-> <<ArtistLive, ArtistLiveKeys>>,
    artist_profiles |-> <<ArtistProfile, ArtistProfileKeys>>,
    artist_requests |-> <<ArtistRequest, ArtistRequestKeys>>,
    blogs |-> <<Blog, BlogKeys>>,
    cinetpay_alerts |-> <<CinetpayAlert, CinetpayAlertKeys>>,
    cinetpay_transactions |-> <<CinetpayTransaction, CinetpayTransactionKeys>>,
    comment_likes |-> <<CommentLike, CommentLikeKeys>>,
    comments |-> <<Comment, CommentKeys>>,
    competition_ads |-> <<CompetitionAd, CompetitionAdKeys>>,
    competition_bans |-> <<CompetitionBan, CompetitionBanKeys>>,
    competition_candidates |-> <<CompetitionCandidate, CompetitionCandidateKeys>>,
    competition_chat_messages |-> <<CompetitionChatMessage, CompetitionChatMessageKeys>>,
    competition_gifts |-> <<CompetitionGift, CompetitionGiftKeys>>,
    competition_reports |-> <<CompetitionReport, CompetitionReportKeys>>,
    competition_tickets |-> <<CompetitionTicket, CompetitionTicketKeys>>,
    competition_votes |-> <<CompetitionVote, CompetitionVoteKeys>>,
    competitions |-> <<Competition, CompetitionKeys>>,
    concert_chat_messages |-> <<ConcertChatMessage, ConcertChatMessageKeys>>,
    concert_dedications |-> <<ConcertDedication, ConcertDedicationKeys>>,
    concert_reminders |-> <<ConcertReminder, ConcertReminderKeys>>,
    concert_tickets |-> <<ConcertTicket, ConcertTicketKeys>>,
    content_shares |-> <<ContentShare, ContentShareKeys>>,
    credit_purchases |-> <<CreditPurchase, CreditPurchaseKeys>>,
    duel_ads |-> <<DuelAd, DuelAdKeys>>,
    duel_chat_messages |-> <<DuelChatMessage, DuelChatMessageKeys>>,
    duel_reminders |-> <<DuelReminder, DuelReminderKeys>>,
    duel_requests |-> <<DuelRequest, DuelRequestKeys>>,
    duel_tickets |-> <<DuelTicket, DuelTicketKeys>>,
    duel_votes |-> <<DuelVote, DuelVoteKeys>>, duels |-> <<Duel, DuelKeys>>,
    email_notification_preferences |-> <<EmailNotificationPreference, EmailNotificationPreferenceKeys>>,
    fan_subscriptions |-> <<FanSubscription, FanSubscriptionKeys>>,
    gift_conversions |-> <<GiftConversion, GiftConversionKeys>>,
    gift_transactions |-> <<GiftTransaction, GiftTransactionKeys>>,
    leaderboard_rewards |-> <<LeaderboardReward, LeaderboardRewardKeys>>,
    lifestyle_videos |-> <<LifestyleVideo, LifestyleVideoKeys>>,
    live_chat_messages |-> <<LiveChatMessage, LiveChatMessageKeys>>,
    live_join_requests |-> <<LiveJoinRequest, LiveJoinRequestKeys>>,
    live_likes |-> <<LiveLike, {}>>,
    live_reports |-> <<LiveReport, LiveReportKeys>>,
    manager_profiles |-> <<ManagerProfile, ManagerProfileKeys>>,
    manager_requests |-> <<ManagerRequest, ManagerRequestKeys>>,
    moneroo_transactions |-> <<MonerooTransaction, MonerooTransactionKeys>>,
    notifications |-> <<Notification, NotificationKeys>>,
    platform_settings |-> <<PlatformSetting, {}>>, profiles |-> <<Profile, {}>>,
    push_subscriptions |-> <<PushSubscription, PushSubscriptionKeys>>,
    referrals |-> <<Referral, ReferralKeys>>,
    replay_access |-> <<ReplayAccess, ReplayAccessKeys>>,
    replay_likes |-> <<ReplayLike, ReplayLikeKeys>>,
    replay_videos |-> <<ReplayVideo, ReplayVideoKeys>>,
    revenue_distributions |-> <<RevenueDistribution, RevenueDistributionKeys>>,
    season_winners |-> <<SeasonWinner, SeasonWinnerKeys>>,
    sponsor_ad_plays |-> <<SponsorAdPlay, {}>>,
    sponsor_ad_videos |-> <<SponsorAdVideo, {}>>,
    sponsor_requests |-> <<SponsorRequest, SponsorRequestKeys>>,
    stream_bans |-> <<StreamBan, {}>>, user_badges |-> <<UserBadge, UserBadgeKeys>>,
    user_currency_preferences |-> <<UserCurrencyPreference, UserCurrencyPreferenceKeys>>,
    user_gifts |-> <<UserGift, UserGiftKeys>>,
    user_payout_methods |-> <<UserPayoutMethod, UserPayoutMethodKeys>>,
    user_roles |-> <<UserRole, UserRoleKeys>>,
    user_ui_preferences |-> <<UserUiPreference, UserUiPreferenceKeys>>,
    user_wallets |-> <<UserWallet, UserWalletKeys>>,
    user_withdrawal_pins |-> <<UserWithdrawalPin, UserWithdrawalPinKeys>>,
    video_interactions |-> <<VideoInteraction, VideoInteractionKeys>>,
    webrtc_signaling |-> <<WebrtcSignal, WebrtcSignalKeys>>,
    withdrawal_pin_reset_tokens |-> <<WithdrawalPinResetToken, WithdrawalPinResetTokenKeys>>,
    withdrawal_requests |-> <<WithdrawalRequest, WithdrawalRequestKeys>>,
    refresh_tokens |-> <<RefreshToken, RefreshTokenKeys>>,
    otp_codes |-> <<OtpCode, OtpCodeKeys>>,
    oauth_accounts |-> <<OAuthAccount, OAuthAccountKeys>>,
    idempotency_keys |-> <<IdempotencyKey, {}>>,
    stream_recordings |-> <<StreamRecording, {}>>]

\* The key on the column c, if there is one.
KeyOn(c, keys) ==
    LET found == {k \in keys : k.column = c.column}
    IN  IF found # {} THEN found ELSE {[key |-> NULL, rule |-> "none"]}

\* The columns of each table, each with its key.
Columns ==
    LET Keyed(c, k) == [column |-> c.column, names |-> c.names,
                        required |-> c.required, key |-> k.key, rule |-> k.rule]
    IN  [t \in DOMAIN Declared |->
           UNION {{Keyed(c, k) : k \in KeyOn(c, Declared[t][2])} :
                    c \in Declared[t][1]}]

ColumnsOf(t) == IF t \in DOMAIN Columns THEN Columns[t] ELSE {}

(* How the generator chose the keys (buildForeignKeys).                     *)
OwnerColumns == {
    "user_id", "artist_id", "follower_id", "requester_id", "opponent_id",
    "artist1_id", "artist2_id", "from_user_id", "to_user_id", "reporter_id",
    "reported_user_id", "voter_id", "referrer_id", "referred_id", "author_id",
    "host_id", "sender_id", "guest_id"}
ReviewerColumns == {
    "reviewed_by", "approved_by", "processed_by", "validated_by",
    "acknowledged_by", "issued_by", "created_by", "manager_id", "winner_id",
    "admin_id", "reviewer_id"}
\* <entity>_id suggests the table of that name in the plural, if there is one.
Suggested == [
    comment_id |-> "comments", competition_id |-> "competitions",
    concert_id |-> "concerts", duel_id |-> "duels",
    virtual_gift_id |-> "virtual_gifts",
    withdrawal_request_id |-> "withdrawal_requests"]

ByName(t, c) ==
    IF c.column \in OwnerColumns THEN <<"users", "cascade">>
    ELSE IF c.column \in ReviewerColumns THEN <<"users", "set null">>
    ELSE IF c.column = "parent_id" THEN <<t, "cascade">>
    ELSE IF c.column \in DOMAIN Suggested
      THEN <<Suggested[c.column], IF c.required THEN "cascade" ELSE "set null">>
    ELSE <<NULL, "none">>

\* The tables of the migrations written by hand.
HandWritten == {"otp_codes", "idempotency_keys", "stream_recordings"}

\* Every key of the generated migration is the one its column's name suggests.
ASSUME KeysFollowNames ==
    \A t \in DOMAIN Columns \ HandWritten :
      \A c \in Columns[t] : <<c.key, c.rule>> = ByName(t, c)
-----------------------------------------------------------------------------
\* The unique indexes (addIndex), of the first and of the second half of the tables.
EarlierIndexes == [
    artist_followers |-> {{"artist_id", "follower_id"}},
    comment_likes |-> {{"comment_id", "user_id"}},
    competition_votes |-> {{"competition_id", "voter_id", "candidate_id"}}]
LaterIndexes == [
    profiles |-> {{"referral_code"}}, referrals |-> {{"referrer_id", "referred_id"}},
    replay_likes |-> {{"replay_id", "user_id"}}, user_roles |-> {{"user_id", "role"}}]
\* A table's key is its id, or else its user_id, or else its first column: these have
\* no id.
PrimaryKeys == [
    cinetpay_countries |-> {{"country_code"}}, exchange_rates |-> {{"currency_code"}},
    live_likes |-> {{"likes_count"}}, platform_settings |-> {{"key"}},
    user_currency_preferences |-> {{"user_id"}}, user_ui_preferences |-> {{"user_id"}},
    user_wallets |-> {{"user_id"}}, user_withdrawal_pins |-> {{"user_id"}}]

\* Columns no two rows of t agree in, but for its id.
UniqueKeys(t) ==
    (IF t \in DOMAIN EarlierIndexes THEN EarlierIndexes[t] ELSE {})
      \cup (IF t \in DOMAIN LaterIndexes THEN LaterIndexes[t] ELSE {})
      \cup (IF t \in DOMAIN PrimaryKeys THEN PrimaryKeys[t] ELSE {})
=============================================================================
