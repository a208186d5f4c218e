------------------------------- MODULE LoginGate -------------------------------
(***************************************************************************)
(* One account: sign-up, login with lockout and second factor, password    *)
(* reset and TOTP enrolment (services/api/internal/auth).                  *)
(*                                                                         *)
(* A login holds the user's row (SELECT ... FOR UPDATE) from its read to   *)
(* its commit. The other handlers read and write the row in autocommit     *)
(* statements: a write waits for the row lock, a read does not.            *)
(*                                                                         *)
(* Time is counted in TOTP steps of 30 s and kept relative to now: how     *)
(* long the lock still holds, how long ago something happened. A code is   *)
(* the secret it was made from and its step, counted from the present one. *)
(***************************************************************************)
EXTENDS Integers, FiniteSets

CONSTANTS
    Handlers,           \* requests about the account, open at the same time
    Threshold,          \* LockoutThreshold
    Tiers,              \* lockoutTiers: a set of [atLeast, duration]
    ResetWindow,        \* LockoutResetWindow
    ReplayWindow,       \* totpReplayWindow
    MaxGuesses,         \* bound on the guesses of one spree
    MaxEnrolments       \* bound on the TOTP secrets remembered

Skew == 1               \* totp.Validate accepts one step to either side

ASSUME LoginBounds ==
    /\ ResetWindow \in Nat /\ ReplayWindow \in Nat
    /\ MaxGuesses \in Nat /\ MaxEnrolments \in Nat
    /\ Tiers \subseteq [atLeast: Nat, duration: Nat]

\* Of the tiers that a count has reached, one is the highest.
Highest(t, reached) == \A u \in reached : t.atLeast >= u.atLeast

ASSUME LadderHasTop ==
    \A reached \in SUBSET Tiers : reached # {} => \E t \in reached : Highest(t, reached)

ASSUME LadderOutlasted ==
    /\ \A t \in Tiers : t.duration \in 1..(ResetWindow - 1) /\ t.atLeast >= Threshold
    /\ \E t \in Tiers : t.atLeast = Threshold
    /\ ReplayWindow > 2 * Skew

VARIABLES
    account,        \* the row of users
    handler,        \* handler[h]: the request h
    spree,          \* wrong guesses since the counter was last rightly cleared
    quiet,          \* steps since the last wrong guess, up to ResetWindow
    lost,           \* a failure was not recorded: nothing is counted till the next clearing
    proven,         \* secrets some device made a valid code from
    overtaken,      \* secrets generated while a verification had read another
    reused          \* the last code accepted was accepted again

loginVars ==
    <<account, handler, spree, quiet, lost, proven, overtaken, reused>>
ghosts == <<spree, quiet, lost, proven, overtaken, reused>>

Secrets == 1..MaxEnrolments
Code == [secret: Secrets, step: (-ReplayWindow - Skew)..Skew]
Account == [
    status: {"absent", "unverified", "active"},
    attempts: 0..MaxGuesses,
    locked: 0..ResetWindow,             \* until locked_until
    failed: SUBSET (0..ResetWindow),    \* since last_failed_login_at
    secret: SUBSET Secrets,             \* totp_secret
    pending: SUBSET Secrets,            \* totp_pending_secret
    spent: SUBSET Code,                 \* totp_last_code
    spentFor: 0..ReplayWindow,          \* since totp_last_used_at
    resetToken: BOOLEAN]                \* password_reset_token, not expired
LoginHandler == [next: {"idle", "decide", "promote", "reset"}, row: SUBSET Account,
            made: SUBSET Code]

LoginTypeOK ==
    /\ account \in Account
    /\ \A h \in Handlers :
           /\ DOMAIN handler[h] = {"next", "row", "made"}
           /\ handler[h].next \in {"idle", "decide", "promote", "reset"}
           /\ \A row \in handler[h].row : row \in Account
           /\ handler[h].made \subseteq Code
    /\ spree \in 0..MaxGuesses /\ quiet \in 0..ResetWindow
    /\ lost \in BOOLEAN
    /\ proven \subseteq Secrets /\ overtaken \subseteq Secrets
    /\ reused \in BOOLEAN

AtDoor == [next |-> "idle", row |-> {}, made |-> {}]

LoginInit ==
    /\ account = [status |-> "absent", attempts |-> 0, locked |-> 0, failed |-> {},
                  secret |-> {}, pending |-> {}, spent |-> {}, spentFor |-> 0,
                  resetToken |-> FALSE]
    /\ handler = [h \in Handlers |-> AtDoor]
    /\ spree = 0 /\ quiet = ResetWindow /\ lost = FALSE
    /\ proven = {} /\ overtaken = {} /\ reused = FALSE

LeaveDoor(h) == handler' = [handler EXCEPT ![h] = AtDoor]
\* Mutant: SELECT without FOR UPDATE.
RowShared == TRUE
RowFree == \A h \in Handlers : handler[h].next # "decide"

(***************************************************************************)
(* The lockout ladder and the second factor (lockout.go, totp.go).         *)
(***************************************************************************)
IsLocked(row) == row.locked > 0

Duration(attempts) ==
    LET reached == {t \in Tiers : attempts >= t.atLeast}
    IN  IF reached = {} THEN 0 ELSE (CHOOSE t \in reached : Highest(t, reached)).duration

\* Mutant: only the guess that reaches a tier locks.
LockAtTier(row) ==
    LET attempts == IF \E n \in row.failed : n >= ResetWindow THEN 1 ELSE row.attempts + 1
    IN  [row EXCEPT !.attempts = attempts, !.failed = {0},
             !.locked = IF \E t \in Tiers : t.atLeast = attempts THEN Duration(attempts) ELSE 0]

AfterFailure(row) ==
    LET idle == \E n \in row.failed : n >= ResetWindow
        attempts == IF idle THEN 1 ELSE row.attempts + 1
    IN  [row EXCEPT !.attempts = attempts, !.failed = {0}, !.locked = Duration(attempts)]

Cleared(row) == [row EXCEPT !.attempts = 0, !.locked = 0, !.failed = {}]

\* Mutant: a code is remembered for its own step only.
ReplayedInStep(row, code) == row.spent = {code} /\ row.spentFor < Skew
Replayed(row, code) == row.spent = {code} /\ row.spentFor < ReplayWindow
Validates(secret, code) == code.secret = secret /\ code.step \in (-Skew)..Skew
Burned(row, code) == [row EXCEPT !.spent = {code}, !.spentFor = 0]

(***************************************************************************)
(* HandleSignup, HandleVerifyEmail, HandleForgotPassword.                  *)
(***************************************************************************)
\* The firm and its first user are inserted in one transaction.
Signup ==
    /\ account.status = "absent"
    /\ account' = [account EXCEPT !.status = "unverified"]
    /\ UNCHANGED <<handler, ghosts>>

VerifyEmail ==
    /\ account.status = "unverified"
    /\ RowFree
    /\ account' = [account EXCEPT !.status = "active"]
    /\ UNCHANGED <<handler, ghosts>>

ForgotPassword ==
    /\ account.status # "absent" /\ ~account.resetToken
    /\ RowFree
    /\ account' = [account EXCEPT !.resetToken = TRUE]
    /\ UNCHANGED <<handler, ghosts>>

ResetTokenExpires ==
    /\ account.resetToken
    /\ RowFree
    /\ account' = [account EXCEPT !.resetToken = FALSE]
    /\ UNCHANGED <<handler, ghosts>>

\* HandleResetPassword tests the token in one statement and writes in another.
ReadResetToken(h) ==
    /\ handler[h].next = "idle"
    /\ account.resetToken
    /\ handler' = [handler EXCEPT ![h].next = "reset"]
    /\ UNCHANGED <<account, ghosts>>

WritePassword(h) ==
    /\ handler[h].next = "reset"
    /\ RowFree
    /\ account' = [Cleared(account) EXCEPT !.resetToken = FALSE]
    /\ spree' = 0 /\ quiet' = ResetWindow /\ lost' = FALSE
    /\ LeaveDoor(h)
    /\ UNCHANGED <<proven, overtaken, reused>>

(***************************************************************************)
(* HandleLogin: lock and read the row, decide, write and commit.           *)
(***************************************************************************)
LockRow(h) ==
    /\ handler[h].next = "idle"
    /\ account.status # "absent"
    /\ RowFree
    /\ ~IsLocked(account)       \* otherwise refused before the password is looked at
    /\ handler' = [handler EXCEPT ![h] = [next |-> "decide", row |-> {account}, made |-> {}]]
    /\ UNCHANGED <<account, ghosts>>

\* A wrong password, or the right one with a wrong or spent code.
Guess ==
    LET earlier == IF quiet >= ResetWindow THEN 0 ELSE spree
    IN  /\ earlier < MaxGuesses
        /\ spree' = earlier + 1
        /\ quiet' = 0

CountedGuess(h) ==
    /\ handler[h].next = "decide"
    /\ \E row \in handler[h].row :
           /\ row.attempts < MaxGuesses
           /\ account' = AfterFailure(row)
    /\ IF lost THEN UNCHANGED <<spree, quiet>> ELSE Guess
    /\ LeaveDoor(h)
    /\ UNCHANGED <<lost, proven, overtaken, reused>>

\* The failure could not be written or committed; the answer is still 401.
UncountedGuess(h) ==
    /\ handler[h].next = "decide"
    /\ spree' = 0 /\ quiet' = ResetWindow /\ lost' = TRUE
    /\ LeaveDoor(h)
    /\ UNCHANGED <<account, proven, overtaken, reused>>

\* E-mail not verified, no code sent, or a commit that fails: nothing is written.
TurnedAway(h) ==
    /\ handler[h].next = "decide"
    /\ LeaveDoor(h)
    /\ UNCHANGED <<account, ghosts>>

PasswordLogin(h) ==
    /\ handler[h].next = "decide"
    /\ \E row \in handler[h].row :
           /\ row.status = "active" /\ row.secret = {}
           /\ account' = Cleared(row)
    /\ spree' = 0 /\ quiet' = ResetWindow /\ lost' = FALSE
    /\ LeaveDoor(h)
    /\ UNCHANGED <<proven, overtaken, reused>>

CodeLogin(h, code) ==
    /\ handler[h].next = "decide"
    /\ \E row \in handler[h].row :
           /\ row.status = "active"
           /\ \E secret \in row.secret : Validates(secret, code)
           /\ ~Replayed(row, code)
           /\ account' = Burned(Cleared(row), code)
    /\ reused' = (reused \/ account.spent = {code})
    /\ spree' = 0 /\ quiet' = ResetWindow /\ lost' = FALSE
    /\ LeaveDoor(h)
    /\ UNCHANGED <<proven, overtaken>>

(***************************************************************************)
(* HandleEnableTOTP and HandleVerifyTOTP, for a user who is signed in.     *)
(***************************************************************************)
Remembered == UNION {account.secret, account.pending, proven, overtaken}

\* Mutant: the new secret is live at once.
EnableAtOnce(secret) ==
    /\ account.status = "active"
    /\ RowFree
    /\ secret \in Secrets \ Remembered
    /\ account' = [account EXCEPT !.secret = {secret}]
    /\ UNCHANGED <<handler, ghosts>>

\* A new secret; one that nobody remembers may stand for it.
EnableTOTP(secret) ==
    /\ account.status = "active"
    /\ RowFree
    /\ secret \in Secrets \ Remembered
    /\ \A s \in Secrets \ Remembered : secret <= s
    /\ account' = [account EXCEPT !.pending = {secret}]
    /\ overtaken' = IF \E h \in Handlers : handler[h].next = "promote"
                    THEN overtaken \cup {secret} ELSE overtaken
    /\ UNCHANGED <<handler, spree, quiet, lost, proven, reused>>

\* The pending secret is read, and the code validated against it.
ReadPending(h, code) ==
    /\ handler[h].next = "idle"
    /\ \E secret \in account.pending :
           /\ Validates(secret, code)
           /\ proven' = proven \cup {secret}
    /\ handler' = [handler EXCEPT ![h] = [next |-> "promote", row |-> {}, made |-> {code}]]
    /\ UNCHANGED <<account, spree, quiet, lost, overtaken, reused>>

\* One UPDATE promotes whatever secret is pending by now.
Promote(h) ==
    /\ handler[h].next = "promote"
    /\ RowFree
    /\ account.pending # {}
    /\ \E code \in handler[h].made :
           account' = [Burned(account, code) EXCEPT !.secret = account.pending, !.pending = {}]
    /\ LeaveDoor(h)
    /\ UNCHANGED <<ghosts>>

AlreadyPromoted(h) ==
    /\ handler[h].next = "promote"
    /\ RowFree
    /\ account.pending = {}
    /\ LeaveDoor(h)
    /\ UNCHANGED <<account, ghosts>>

\* A write outside a transaction fails, or its client is gone: a 500.
LoginWriteFails(h) ==
    /\ handler[h].next \in {"promote", "reset"}
    /\ LeaveDoor(h)
    /\ UNCHANGED <<account, ghosts>>

\* No request spans a step: hashing a password takes a fraction of a second.
Older(n, cap) == IF n < cap THEN n + 1 ELSE cap
Aged(codes) == {[code EXCEPT !.step = @ - 1] : code \in codes}

Step30s ==
    /\ \A h \in Handlers : handler[h].next = "idle"
    /\ account' = [account EXCEPT
           !.locked = IF @ > 0 THEN @ - 1 ELSE 0,
           !.failed = {Older(n, ResetWindow) : n \in @},
           !.spent = IF account.spentFor < ReplayWindow THEN Aged(@) ELSE @,
           !.spentFor = IF account.spent = {} THEN 0 ELSE Older(@, ReplayWindow)]
    /\ account # account' \/ quiet < ResetWindow
    /\ quiet' = Older(quiet, ResetWindow)
    /\ UNCHANGED <<handler, spree, lost, proven, overtaken, reused>>

Current == [secret: Secrets, step: (-Skew)..Skew]

LoginNext ==
    \/ Signup \/ VerifyEmail \/ ForgotPassword \/ ResetTokenExpires \/ Step30s
    \/ \E h \in Handlers :
           \/ ReadResetToken(h) \/ WritePassword(h)
           \/ LockRow(h) \/ CountedGuess(h) \/ UncountedGuess(h) \/ TurnedAway(h) \/ PasswordLogin(h)
           \/ \E code \in Current : CodeLogin(h, code) \/ ReadPending(h, code)
           \/ Promote(h) \/ AlreadyPromoted(h) \/ LoginWriteFails(h)
    \/ \E secret \in Secrets : EnableTOTP(secret)

LoginSpec == LoginInit /\ [][LoginNext]_loginVars

------------------------------------------------------------------------------
(***************************************************************************)
(* As long as no record of a failure is lost, no guess goes uncounted:     *)
(* logins that race do not overwrite each other's count                    *)
(* (auth.go:374-382, 521-559).                                             *)
(***************************************************************************)
EveryGuessCounted == quiet < ResetWindow => spree <= account.attempts

(***************************************************************************)
(* A guess waits for the lock that the guesses before it earn it, all of   *)
(* them and not only those that reach a tier (lockout.go:67-82, 128-154).  *)
(***************************************************************************)
GuessWaits ==
    [][(spree' > spree /\ quiet < ResetWindow) => quiet >= Duration(spree)]_loginVars

(***************************************************************************)
(* The code accepted last, at login or to enrol, is not accepted again     *)
(* while it still validates (totp.go:21-25, 43-47, 105-115).               *)
(***************************************************************************)
SpentCodeRefused == ~reused

(***************************************************************************)
(* A secret becomes the second factor only after a device made a code from *)
(* it (auth.go:784-787), unless enrolment was started again between the    *)
(* read of a verification and its UPDATE (auth.go:875-906).                *)
(***************************************************************************)
LiveSecretProven == account.secret \subseteq proven \cup overtaken
==============================================================================
