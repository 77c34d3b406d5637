------------------------------- MODULE Signup -------------------------------
(***************************************************************************)
(* Accounts that begin: with a password (register), or through Google or   *)
(* Apple, which find the account a user has linked, or the user of the     *)
(* address, or make one. Every new account gets its profile, a wallet with *)
(* the welcome credits and its roles in one transaction: the first account *)
(* of all becomes admin. Whose referral code was used earns a reward, once.*)
(*                                                                         *)
(* A transaction sees the accounts committed before its first read;        *)
(* users.email and (provider, provider_account_id) are unique.             *)
(***************************************************************************)
EXTENDS Null, Integers, FiniteSets

CONSTANTS
    Addresses,          \* of email: one account each
    ProviderAccounts,   \* accounts at Google and Apple
    AddressOf,          \* [ProviderAccounts -> Addresses]
    Signups,            \* requests, one at a time each
    Welcome, Reward     \* credits

ASSUME SignupAssumption ==
    /\ AddressOf \in [ProviderAccounts -> Addresses]
    /\ Welcome \in Nat /\ Reward \in Nat
    /\ IsFiniteSet(Addresses) /\ IsFiniteSet(Signups)
    /\ NULL \notin Addresses \cup ProviderAccounts
    /\ NULL \notin [users : SUBSET Addresses, bare : BOOLEAN]

VARIABLES
    sgUsers,        \* the addresses that have an account
    sgAdmins,       \* those that are admin because they came first
    sgReferrer,     \* referrals: who referred an account, or NULL
    sgClaimed,      \* the referred whose reward was claimed
    sgCredits,      \* credits given, by account
    sgLink,         \* oauth_accounts: the account a provider's account signs in to
    sgSignup        \* what each request has in hand, or NULL

signupVars ==
    <<sgUsers, sgAdmins, sgReferrer, sgClaimed, sgCredits, sgLink, sgSignup>>

Snapshots == [users : SUBSET Addresses, bare : BOOLEAN]
SignupInHand ==
    [address : Addresses, account : ProviderAccounts \cup {NULL},
     code : Addresses \cup {NULL},      \* the account whose referral code it gives
     seen : Snapshots \cup {NULL},      \* what the transaction sees
     inserted : BOOLEAN]                \* the row in users

SignupTypeOK ==
    /\ sgUsers \subseteq Addresses
    /\ sgAdmins \subseteq sgUsers
    /\ sgReferrer \in [Addresses -> Addresses \cup {NULL}]
    /\ sgClaimed \subseteq Addresses
    /\ sgCredits \in [Addresses -> Nat]
    /\ sgLink \in [ProviderAccounts -> Addresses \cup {NULL}]
    /\ sgSignup \in [Signups -> SignupInHand \cup {NULL}]

SignupInit ==
    /\ sgUsers = {} /\ sgAdmins = {} /\ sgClaimed = {}
    /\ sgReferrer = [a \in Addresses |-> NULL]
    /\ sgCredits = [a \in Addresses |-> 0]
    /\ sgLink = [p \in ProviderAccounts |-> NULL]
    /\ sgSignup = [r \in Signups |-> NULL]

\* The first account of all: "aucun admin encore en base".
NoAdminYet == sgAdmins = {}
Snapshot == [users |-> sgUsers, bare |-> NoAdminYet]

\* The row in users is locked until its transaction ends.
Taken(address) ==
    \E r \in Signups : sgSignup[r] # NULL /\ sgSignup[r].inserted
                         /\ sgSignup[r].address = address

KeepAccounts ==
    UNCHANGED <<sgUsers, sgAdmins, sgReferrer, sgClaimed, sgCredits, sgLink>>

-----------------------------------------------------------------------------
\* register: EMAIL_ALREADY_USED, then the password is hashed.
Register(r, address, code) ==
    /\ sgSignup[r] = NULL
    /\ address \notin sgUsers
    /\ sgSignup' = [sgSignup EXCEPT ![r] =
         [address |-> address, account |-> NULL, code |-> code, seen |-> NULL,
          inserted |-> FALSE]]
    /\ KeepAccounts

\* handleGoogleCallback, handleGoogleIdToken, handleAppleIdentityToken: the provider
\* vouches for the account, and tells its address.
Vouched(r, account) ==
    /\ sgSignup[r] = NULL
    /\ sgSignup' = [sgSignup EXCEPT ![r] =
         [address |-> AddressOf[account], account |-> account, code |-> NULL,
          seen |-> NULL, inserted |-> FALSE]]
    /\ KeepAccounts

\* The first read of the transaction: the referrer, or the linked account, with
\* which the user is signed in.
FirstRead(r) ==
    /\ sgSignup[r] # NULL /\ sgSignup[r].seen = NULL
    /\ LET it == sgSignup[r]
           linked == it.account # NULL /\ sgLink[it.account] # NULL
       IN  /\ it.code # NULL \/ it.account # NULL
           /\ sgSignup' = [sgSignup EXCEPT ![r] =
                IF linked THEN NULL ELSE [it EXCEPT !.seen = Snapshot]]
    /\ KeepAccounts

\* User.create: waits for another transaction that has inserted the address. Without
\* a code to look up, the first read of register comes after it. A duplicate fails.
InsertUser(r) ==
    /\ sgSignup[r] # NULL /\ ~sgSignup[r].inserted
    /\ LET it == sgSignup[r]
       IN  /\ it.seen # NULL \/ (it.code = NULL /\ it.account = NULL)
           /\ it.account # NULL => it.address \notin it.seen.users
           /\ ~Taken(it.address)
           /\ sgSignup' = [sgSignup EXCEPT ![r] =
                IF it.address \in sgUsers THEN NULL
                ELSE [it EXCEPT !.inserted = TRUE,
                                !.seen = IF @ = NULL THEN Snapshot ELSE @]]
    /\ KeepAccounts

\* mutant: every account is made admin
AlwaysFirst(seen) == TRUE
\* provisionUserRecords: adminCount === 0.
IsFirst(seen) == seen.bare

ReferrerOf(it) == IF it.code \in it.seen.users THEN it.code ELSE NULL

\* provisionUserRecords, the link of a provider's account, and the commit.
CommitAccount(r) ==
    /\ sgSignup[r] # NULL /\ sgSignup[r].inserted
    /\ LET it == sgSignup[r]
           a == it.address
       IN  /\ it.account # NULL => sgLink[it.account] = NULL
           /\ sgUsers' = sgUsers \cup {a}
           /\ sgAdmins' = IF IsFirst(it.seen) THEN sgAdmins \cup {a} ELSE sgAdmins
           /\ sgReferrer' = [sgReferrer EXCEPT ![a] = ReferrerOf(it)]
           /\ sgCredits' = [sgCredits EXCEPT ![a] = Welcome]
           /\ sgLink' = [p \in ProviderAccounts |->
                           IF p = it.account THEN a ELSE sgLink[p]]
    /\ sgSignup' = [sgSignup EXCEPT ![r] = NULL]
    /\ UNCHANGED sgClaimed

\* "Existing user by email -> link".
CommitLink(r) ==
    /\ sgSignup[r] # NULL /\ sgSignup[r].account # NULL /\ sgSignup[r].seen # NULL
    /\ LET it == sgSignup[r]
       IN  /\ it.address \in it.seen.users
           /\ sgLink[it.account] = NULL
           /\ sgLink' = [sgLink EXCEPT ![it.account] = it.address]
    /\ sgSignup' = [sgSignup EXCEPT ![r] = NULL]
    /\ UNCHANGED <<sgUsers, sgAdmins, sgReferrer, sgClaimed, sgCredits>>

\* A duplicate link, any other error, or a crash: the transaction is rolled back.
SignupFails(r) ==
    /\ sgSignup[r] # NULL
    /\ sgSignup' = [sgSignup EXCEPT ![r] = NULL]
    /\ KeepAccounts

\* mutant: a reward may be claimed again
AnyReferral(a) == sgReferrer[a] # NULL
\* claim_referral_reward: the row is locked and not claimed.
Claimable(a) == sgReferrer[a] # NULL /\ a \notin sgClaimed

ClaimReward(a) ==
    /\ Claimable(a)
    /\ sgClaimed' = sgClaimed \cup {a}
    /\ sgCredits' = [sgCredits EXCEPT ![sgReferrer[a]] = @ + Reward]
    /\ UNCHANGED <<sgUsers, sgAdmins, sgReferrer, sgLink, sgSignup>>

\* An admin loses the role (revokeRole): the next account is the first again.
AdminLeaves(a) ==
    /\ a \in sgAdmins
    /\ sgAdmins' = sgAdmins \ {a}
    /\ UNCHANGED <<sgUsers, sgReferrer, sgClaimed, sgCredits, sgLink, sgSignup>>

SignupNext ==
    \/ \E r \in Signups :
         \/ \E a \in Addresses, code \in Addresses \cup {NULL} : Register(r, a, code)
         \/ \E p \in ProviderAccounts : Vouched(r, p)
         \/ FirstRead(r) \/ InsertUser(r) \/ CommitAccount(r) \/ CommitLink(r)
         \/ SignupFails(r)
    \/ \E a \in Addresses : ClaimReward(a) \/ AdminLeaves(a)

SignupSpec == SignupInit /\ [][SignupNext]_signupVars

-----------------------------------------------------------------------------
(* Properties.                                                             *)

\* "Le TOUT PREMIER compte devient automatiquement admin": accounts that begin at
\* once can each see none, but they and the admins never outnumber the requests that
\* can be at work: one admin if accounts begin one by one.
Bare == {r \in Signups : /\ sgSignup[r] # NULL
                          /\ sgSignup[r].seen # NULL /\ sgSignup[r].seen.bare}
AdminsByRaceOnly ==
    Cardinality(sgAdmins) + Cardinality(Bare) <= Cardinality(Signups)

\* Whatever begins at once, an account got the welcome once, and its referrals'
\* rewards once each; who referred it was there before; and a provider's account
\* signs in to the account of its address.
NewcomersAddUp ==
    /\ AdminsByRaceOnly
    /\ \A a \in sgUsers :
         sgCredits[a] =
           Welcome + Reward * Cardinality({b \in sgClaimed : sgReferrer[b] = a})
    /\ \A a \in Addresses : sgReferrer[a] \in (sgUsers \ {a}) \cup {NULL}
    /\ \A p \in ProviderAccounts :
         sgLink[p] # NULL => sgLink[p] = AddressOf[p] /\ AddressOf[p] \in sgUsers
=============================================================================
