------------------------------- MODULE Codes -------------------------------
(***************************************************************************)
(* Codes sent to a user's phone or address (otp_codes: to verify it, or to *)
(* reset the password; or withdrawal_pin_reset_tokens, to make the PIN     *)
(* anew), and the PIN of the withdrawals (user_withdrawal_pins). A check   *)
(* reads a row, compares for a while, and saves by id what it changed;     *)
(* what a code was for is done after that.                                 *)
(*                                                                         *)
(* One destination, with codes of one kind: each has a table, or a         *)
(* purpose, of its own. One user with a PIN. The codes (CodeSpec) and the  *)
(* PIN (PinSpec) are two state machines that share no row.                 *)
(***************************************************************************)
EXTENDS Null, Integers, Sequences

CONSTANTS
    Askers,         \* requests that send a code, one at a time each
    Verifiers,      \* requests that check one
    MaxAttempts,    \* MAX_ATTEMPTS
    MaxCodes,       \* bound: codes sent
    PinChecks,      \* requests about the PIN, one at a time each
    MaxPinAttempts  \* MAX_PIN_ATTEMPTS

ASSUME CodesAssumption ==
    /\ MaxAttempts \in Nat \ {0} /\ MaxCodes \in Nat
    /\ NULL \notin {"otp", "reset"}

VARIABLES
    cdKind,         \* "otp" or "reset"; NULL before the first code
    cdCodes,        \* the codes, in the order they were sent
    cdAsk,          \* the requests that are about to send one
    cdTry,          \* the code a request read and what it makes of it, or NULL
    \* history:
    cdServed,       \* how often each code served, two for more
    cdWrong,        \* wrong tries of each code, MaxAttempts + 1 for more
    cdRaced         \* codes whose row had changed when it was saved

codeVars == <<cdKind, cdCodes, cdAsk, cdTry, cdServed, cdWrong, cdRaced>>

Ages == {"fresh", "valid", "expired"}   \* within RESEND_COOLDOWN_MS, expires_at
SentCodes == DOMAIN cdCodes

CodeTypeOK ==
    /\ cdKind \in {"otp", "reset", NULL}
    /\ cdCodes \in Seq([age : Ages, attempts : Nat, used : BOOLEAN]) /\ Len(cdCodes) <= MaxCodes
    /\ cdAsk \subseteq Askers
    /\ cdTry \in [Verifiers -> {NULL} \cup [code : SentCodes, attempts : Nat,
                                           right : BOOLEAN, accepted : BOOLEAN]]
    /\ cdRaced \subseteq SentCodes
    /\ cdServed \in [1..MaxCodes -> Nat] /\ cdWrong \in [1..MaxCodes -> Nat]

CodeInit ==
    /\ cdKind = NULL /\ cdCodes = <<>> /\ cdAsk = {}
    /\ cdTry = [v \in Verifiers |-> NULL]
    /\ cdServed = [c \in 1..MaxCodes |-> 0] /\ cdWrong = [c \in 1..MaxCodes |-> 0]
    /\ cdRaced = {}

-----------------------------------------------------------------------------
\* sendOtp: OTP_RATE_LIMITED. requestPinReset looks at nothing.
AskCode(s, kind) ==
    /\ s \notin cdAsk
    /\ cdKind \in {kind, NULL}
    /\ kind = "otp" => \A c \in SentCodes : cdCodes[c].age # "fresh"
    /\ cdKind' = kind
    /\ cdAsk' = cdAsk \cup {s}
    /\ UNCHANGED <<cdCodes, cdTry, cdServed, cdWrong, cdRaced>>

SendCode(s) ==
    /\ s \in cdAsk /\ Len(cdCodes) < MaxCodes
    /\ cdAsk' = cdAsk \ {s}
    /\ cdCodes' = Append(cdCodes, [age |-> "fresh", attempts |-> 0, used |-> FALSE])
    /\ UNCHANGED <<cdKind, cdTry, cdServed, cdWrong, cdRaced>>

\* Time passes: codes grow old in the order they were sent.
Age(c) ==
    /\ cdCodes[c].age # "expired"
    /\ c > 1 => cdCodes[c - 1].age # cdCodes[c].age
    /\ cdCodes' = [cdCodes EXCEPT ![c].age =
                     IF @ = "fresh" THEN "valid" ELSE "expired"]
    /\ UNCHANGED <<cdKind, cdAsk, cdTry, cdServed, cdWrong, cdRaced>>

UpTo(bound, n) == IF n > bound THEN bound ELSE n
Newest(cs) == CHOOSE c \in cs : \A d \in cs : d <= c

\* mutant: as many tries as one likes
AnyTry(row) == TRUE
\* confirmPinReset counts the attempts as well, but looks at them nowhere.
MayTry(row) == cdKind = "otp" => row.attempts < MaxAttempts

\* verifyOtp, confirmPinReset: the newest code that is not used; the one that was
\* typed may be another.
ReadCode(v, right) ==
    /\ cdTry[v] = NULL
    /\ LET unused == {c \in SentCodes : ~cdCodes[c].used}
           row == cdCodes[Newest(unused)]
       IN  /\ unused # {} /\ row.age # "expired" /\ MayTry(row)
           /\ row.attempts <= MaxAttempts     \* bound
           /\ cdTry' = [cdTry EXCEPT ![v] =
                [code |-> Newest(unused), attempts |-> row.attempts, right |-> right,
                 accepted |-> FALSE]]
    /\ UNCHANGED <<cdKind, cdCodes, cdAsk, cdServed, cdWrong, cdRaced>>

\* mutant: a code that was accepted is not marked
NotMarked(row) == row
Consumed(row) == [row EXCEPT !.used = TRUE]

\* The save: attempts, or consumed_at.
SaveCode(v) ==
    /\ cdTry[v] # NULL /\ ~cdTry[v].accepted
    /\ LET try == cdTry[v]
           row == cdCodes[try.code]
       IN  /\ cdRaced' = IF row.used \/ row.attempts # try.attempts
                           THEN cdRaced \cup {try.code} ELSE cdRaced
           /\ IF try.right
                THEN /\ cdCodes' = [cdCodes EXCEPT ![try.code] = Consumed(@)]
                     /\ cdTry' = [cdTry EXCEPT ![v].accepted = TRUE]
                     /\ UNCHANGED cdWrong
                ELSE /\ cdCodes' =
                          [cdCodes EXCEPT ![try.code].attempts = try.attempts + 1]
                     /\ cdTry' = [cdTry EXCEPT ![v] = NULL]
                     /\ cdWrong' = [cdWrong EXCEPT ![try.code] =
                          UpTo(MaxAttempts + 1, @ + 1)]
    /\ UNCHANGED <<cdKind, cdAsk, cdServed>>

\* What the code was for: verifyPhoneOtp, verifyEmailOtp and resetPassword save the
\* user, confirmPinReset the PIN (MakePin).
UseCode(v) ==
    /\ cdTry[v] # NULL /\ cdTry[v].accepted
    /\ cdServed' = [cdServed EXCEPT ![cdTry[v].code] = UpTo(2, @ + 1)]
    /\ cdTry' = [cdTry EXCEPT ![v] = NULL]
    /\ UNCHANGED <<cdKind, cdCodes, cdAsk, cdWrong, cdRaced>>

\* An error or a crash; the code stays used.
CheckBreaksOff(v) ==
    /\ cdTry[v] # NULL
    /\ cdTry' = [cdTry EXCEPT ![v] = NULL]
    /\ UNCHANGED <<cdKind, cdCodes, cdAsk, cdServed, cdWrong, cdRaced>>

CodeNext ==
    \/ \E s \in Askers :
         SendCode(s) \/ \E kind \in {"otp", "reset"} : AskCode(s, kind)
    \/ \E c \in SentCodes : Age(c)
    \/ \E v \in Verifiers :
         \/ SaveCode(v) \/ UseCode(v) \/ CheckBreaksOff(v)
         \/ \E right \in BOOLEAN : ReadCode(v, right)

CodeSpec == CodeInit /\ [][CodeNext]_codeVars

-----------------------------------------------------------------------------
(* The PIN. verifyPin compares a PIN, counts the wrong ones and locks the  *)
(* row. setPin asks for the current PIN, compares it whether or not the    *)
(* row is locked, and counts nothing.                                      *)

ASSUME PinAssumption ==
    /\ MaxPinAttempts \in Nat \ {0}
    /\ NULL \notin [failed : Nat, locked : {"none", "locked", "lapsed"}]

VARIABLES
    pnRow,          \* failed_attempts and locked_until; or NULL
    pnTry,          \* what a request read and makes of it, or NULL
    \* history:
    pnWrong,        \* wrong PINs verified since a right one, or the last new PIN
    pnRaced         \* the row had changed when it was saved

pinVars == <<pnRow, pnTry, pnWrong, pnRaced>>

PinLocks == {"none", "locked", "lapsed"}
PinRow == [failed : 0..(MaxPinAttempts + 1), locked : PinLocks]
NewPin == [failed |-> 0, locked |-> "none"]
\* right, wrong: verifyPin. change, guess: setPin with the current PIN, and with another.
PinUses == {"right", "wrong", "change", "guess"}

PinTypeOK ==
    /\ pnRow \in PinRow \cup {NULL}
    /\ pnTry \in [PinChecks -> {NULL} \cup [read : PinRow, does : PinUses]]
    /\ pnWrong \in 0..(MaxPinAttempts + 1) /\ pnRaced \in BOOLEAN

PinInit ==
    /\ pnRow = NULL
    /\ pnTry = [w \in PinChecks |-> NULL]
    /\ pnWrong = 0 /\ pnRaced = FALSE

\* setPin for the first time; confirmPinReset: upsert.
MakePin ==
    /\ pnRow' = NewPin
    /\ pnWrong' = 0
    /\ UNCHANGED <<pnTry, pnRaced>>

\* PIN_LOCKED, of verifyPin.
NotLockedOut(row) == row.locked # "locked"

\* verifyPin, setPin: findByPk.
ReadPin(w, does) ==
    /\ pnTry[w] = NULL /\ pnRow # NULL
    /\ does \in {"right", "wrong"} => NotLockedOut(pnRow)
    /\ does = "wrong" => pnRow.failed <= MaxPinAttempts     \* bound
    /\ pnTry' = [pnTry EXCEPT ![w] = [read |-> pnRow, does |-> does]]
    /\ UNCHANGED <<pnRow, pnWrong, pnRaced>>

\* mutant: a right try leaves the count as it is
AfterUncounted(try) ==
    IF try.does = "change" THEN NewPin
    ELSE LET failed == try.read.failed + (IF try.does = "wrong" THEN 1 ELSE 0)
         IN  [failed |-> failed,
              locked |-> IF failed >= MaxPinAttempts THEN "locked" ELSE "none"]
After(try) ==
    IF try.does # "wrong" THEN NewPin
    ELSE LET failed == try.read.failed + 1
         IN  [failed |-> failed,
              locked |-> IF failed >= MaxPinAttempts THEN "locked" ELSE "none"]

SavePin(w) ==
    /\ pnTry[w] # NULL /\ pnTry[w].does # "guess"
    /\ LET try == pnTry[w]
           new == After(try)
       IN  /\ pnRow' = [n \in {"failed", "locked"} |->
                          IF new[n] = try.read[n] THEN pnRow[n] ELSE new[n]]
           /\ pnRaced' = (pnRaced \/ pnRow # try.read)
           /\ pnWrong' = IF try.does # "wrong" THEN 0
                         ELSE UpTo(MaxPinAttempts + 1, pnWrong + 1)
    /\ pnTry' = [pnTry EXCEPT ![w] = NULL]

\* PIN_WRONG_CURRENT: nothing is saved, and nothing counted.
RefuseChange(w) ==
    /\ pnTry[w] # NULL /\ pnTry[w].does = "guess"
    /\ pnTry' = [pnTry EXCEPT ![w] = NULL]
    /\ UNCHANGED <<pnRow, pnWrong, pnRaced>>

\* LOCK_MINUTES later.
LockLapses ==
    /\ pnRow # NULL /\ pnRow.locked = "locked"
    /\ pnRow' = [pnRow EXCEPT !.locked = "lapsed"]
    /\ UNCHANGED <<pnTry, pnWrong, pnRaced>>

PinNext ==
    \/ MakePin \/ LockLapses
    \/ \E w \in PinChecks :
         SavePin(w) \/ RefuseChange(w) \/ \E does \in PinUses : ReadPin(w, does)

PinSpec == PinInit /\ [][PinNext]_pinVars

-----------------------------------------------------------------------------
(* Properties.                                                             *)

\* A code serves once, and only so many wrong tries are compared with a code that
\* verifies, or resets the password, unless checks of it overlapped. The tries of a
\* code that resets the PIN are counted and have no limit.
CodesServeOnce ==
    \A c \in SentCodes \ cdRaced :
      /\ cdServed[c] <= 1
      /\ cdKind = "otp" => cdWrong[c] <= MaxAttempts

\* The PIN is locked after so many wrong tries of verifyPin since a right one and not
\* before, and its lock goes with time, or with a new PIN; unless requests about it
\* overlapped. What setPin compares is not among these tries.
LocksFollowTries ==
    pnRow # NULL /\ ~pnRaced =>
      /\ pnRow.locked = "locked" => pnWrong >= MaxPinAttempts
      /\ pnRow.locked = "none" => pnWrong < MaxPinAttempts

\* A code serves once; a code of verifyOtp is tried, and the PIN is verified, no more
\* often than the limits say; unless requests about the same row overlapped. Codes that
\* reset the PIN, and current PINs given to change it, are under no limit.
TriesAreCounted == CodesServeOnce /\ LocksFollowTries
=============================================================================
