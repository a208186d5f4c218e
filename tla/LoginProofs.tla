------------------------------ MODULE LoginProofs ------------------------------
(***************************************************************************)
(* Theorems of LoginGate: what a login finds in the row, for any number of *)
(* requests at the same time, every ladder of locks and every window.      *)
(*                                                                         *)
(* All of them follow from one inductive invariant, LoginInv. Its core is  *)
(* that a login decides on the row as it is (DecideInv), so that what it   *)
(* writes adds to what others wrote.                                       *)
(***************************************************************************)
EXTENDS LoginGate, TLAPS

\* The lock that a count earns is a number of steps.
LEMMA DurationBounded == \A attempts \in Nat : Duration(attempts) \in Nat
<1> SUFFICES ASSUME NEW attempts \in Nat PROVE Duration(attempts) \in Nat
  OBVIOUS
<1> DEFINE reached == {t \in Tiers : attempts >= t.atLeast}
<1>1. CASE reached = {}
  BY <1>1 DEF Duration
<1>2. CASE reached # {}
  <2>1. (CHOOSE t \in reached : Highest(t, reached)) \in reached
    BY <1>2, LadderHasTop
  <2>2. (CHOOSE t \in reached : Highest(t, reached)) \in Tiers
    BY <2>1
  <2>3. Duration(attempts) = (CHOOSE t \in reached : Highest(t, reached)).duration
    BY <1>2 DEF Duration
  <2> HIDE DEF reached
  <2> QED
    BY <2>2, <2>3, LoginBounds
<1> QED
  BY <1>1, <1>2

\* The types, without the bounds of the instance.
CodeSeen == [secret: Secrets, step: Int]
Row == [status: {"absent", "unverified", "active"}, attempts: Nat, locked: Nat,
        failed: SUBSET (0..ResetWindow), secret: SUBSET Secrets, pending: SUBSET Secrets,
        spent: SUBSET CodeSeen, spentFor: 0..ReplayWindow, resetToken: BOOLEAN]
Hand == [next: {"idle", "decide", "promote", "reset"}, row: SUBSET Row, made: SUBSET Code]

LoginShape ==
    /\ account \in Row
    /\ handler \in [Handlers -> Hand]
    /\ spree \in Nat /\ quiet \in 0..ResetWindow /\ lost \in BOOLEAN

\* A login decides on the row as it is, alone and unlocked.
DecideInv ==
    /\ \A h \in Handlers : handler[h].next = "decide" =>
           handler[h].row = {account} /\ account.locked = 0 /\ account.status # "absent"
    /\ \A g, h \in Handlers :
           (handler[g].next = "decide" /\ handler[h].next = "decide") => g = h

\* While no failure is lost, the row counts what was guessed, since the last
\* guess, and its lock is what that count has earned.
CountInv ==
    /\ account.failed = {} => account.attempts = 0
    /\ IF lost THEN quiet = ResetWindow
               ELSE account.failed = {quiet} \/ (account.failed = {} /\ quiet = ResetWindow)
    /\ quiet < ResetWindow =>
           /\ spree = account.attempts
           /\ \/ account.locked + quiet = Duration(spree)
              \/ account.locked = 0 /\ quiet >= Duration(spree)

\* What may be promoted was proven, or overtook a verification.
PendingInv ==
    /\ \A x, y \in account.pending : x = y
    /\ \A h \in Handlers : handler[h].next = "promote" => account.pending \subseteq proven \cup overtaken
    /\ LiveSecretProven

\* A code no longer remembered no longer validates.
SpentInv ==
    /\ \A code \in account.spent : code.step <= Skew - account.spentFor
    /\ SpentCodeRefused

LoginInv == LoginShape /\ DecideInv /\ CountInv /\ PendingInv /\ SpentInv

\* Before sign-up.
LEMMA LoginInitInv == LoginInit => LoginInv
<1> SUFFICES ASSUME LoginInit PROVE LoginInv
  OBVIOUS
<1>1. LoginShape
  <2>1. 0 \in Nat /\ 0 \in 0..ReplayWindow /\ ResetWindow \in 0..ResetWindow
    BY LoginBounds
  <2>2. account \in Row
    BY <2>1, Zenon DEF LoginInit, Row
  <2>3. AtDoor \in Hand
    BY DEF Hand, AtDoor
  <2>4. handler \in [Handlers -> Hand]
    BY <2>3 DEF LoginInit
  <2>5. lost \in BOOLEAN
    BY DEF LoginInit
  <2> QED
    BY <2>1, <2>2, <2>4, <2>5 DEF LoginInit, LoginShape
<1>2. /\ \A h \in Handlers : handler[h].next = "idle"
      /\ account.failed = {} /\ account.attempts = 0 /\ account.secret = {} /\ account.pending = {}
      /\ account.spent = {} /\ quiet = ResetWindow /\ ~lost /\ ~reused
  BY DEF LoginInit, AtDoor
<1> QED
  BY <1>1, <1>2, LoginBounds DEF LoginInv, DecideInv, CountInv, PendingInv, LiveSecretProven,
     SpentInv, SpentCodeRefused

\* The steps of a handler that write no row.
LEMMA ReadingPreserves ==
    ASSUME LoginInv, NEW h \in Handlers,
           \/ LockRow(h) \/ ReadResetToken(h) \/ TurnedAway(h) \/ AlreadyPromoted(h)
           \/ LoginWriteFails(h) \/ UncountedGuess(h)
           \/ \E code \in Current : ReadPending(h, code)
    PROVE  LoginInv'
<1> USE DEF LoginInv
<1>1. account' = account /\ reused' = reused /\ overtaken' = overtaken /\ proven \subseteq proven'
  BY DEF LockRow, ReadResetToken, TurnedAway, AlreadyPromoted, LoginWriteFails, UncountedGuess,
     ReadPending, ghosts
<1>2. UNCHANGED <<spree, quiet, lost>> \/ (spree' = 0 /\ quiet' = ResetWindow /\ lost' = TRUE)
  BY DEF LockRow, ReadResetToken, TurnedAway, AlreadyPromoted, LoginWriteFails, UncountedGuess,
     ReadPending, ghosts
<1> DEFINE Next(at) == /\ handler' = [handler EXCEPT ![h] = at]
                       /\ at.next = "decide" => /\ at.row = {account} /\ account.locked = 0
                                                /\ account.status # "absent" /\ RowFree
                       /\ at.next = "promote" => account.pending \subseteq proven'
<1>3. account \in Row /\ handler[h] \in Hand /\ AtDoor \in Hand
  BY DEF LoginShape, Hand, AtDoor
<1>4. \E at \in Hand : Next(at)
  <2>1. CASE LockRow(h)
    <3> DEFINE at == [next |-> "decide", row |-> {account}, made |-> {}]
    <3>1. at \in Hand
      BY <1>3 DEF Hand
    <3>2. handler' = [handler EXCEPT ![h] = at]
      BY <2>1 DEF LockRow
    <3>3. RowFree /\ account.locked = 0 /\ account.status # "absent"
      BY <2>1, <1>3 DEF LockRow, IsLocked, Row
    <3> QED
      BY <3>1, <3>2, <3>3
  <2>2. CASE ReadResetToken(h)
    <3> DEFINE at == [handler[h] EXCEPT !.next = "reset"]
    <3>1. at \in Hand /\ at.next = "reset"
      BY <1>3 DEF Hand
    <3>2. handler' = [handler EXCEPT ![h] = at]
      BY <2>2 DEF ReadResetToken
    <3> QED
      BY <3>1, <3>2
  <2>3. ASSUME NEW code \in Current, ReadPending(h, code)
        PROVE  \E at \in Hand : Next(at)
    <3> DEFINE at == [next |-> "promote", row |-> {}, made |-> {code}]
    <3>1. code \in Code
      BY LoginBounds DEF Current, Code, Skew
    <3>2. at \in Hand
      BY <3>1 DEF Hand
    <3>3. handler' = [handler EXCEPT ![h] = at]
      BY <2>3 DEF ReadPending
    <3>4. account.pending \subseteq proven'
      BY <2>3 DEF ReadPending, PendingInv
    <3> QED
      BY <3>2, <3>3, <3>4
  <2>4. CASE LeaveDoor(h)
    <3>1. AtDoor.next = "idle"
      BY DEF AtDoor
    <3>2. handler' = [handler EXCEPT ![h] = AtDoor]
      BY <2>4 DEF LeaveDoor
    <3> QED
      BY <1>3, <3>1, <3>2
  <2> QED
    BY <2>1, <2>2, <2>3, <2>4 DEF TurnedAway, AlreadyPromoted, LoginWriteFails, UncountedGuess
<1>5. PICK at \in Hand : Next(at)
  BY <1>4
<1>6. /\ handler' \in [Handlers -> Hand] /\ handler'[h] = at
      /\ \A g \in Handlers \ {h} : handler'[g] = handler[g]
  BY <1>5 DEF LoginShape
<1>7. LoginShape'
  <2>1. lost' \in BOOLEAN
    BY <1>2 DEF LoginShape
  <2>2. spree' \in Nat /\ quiet' \in 0..ResetWindow
    BY <1>2, LoginBounds DEF LoginShape
  <2> QED
    BY <1>1, <1>6, <2>1, <2>2 DEF LoginShape
<1>8. DecideInv'
  BY <1>1, <1>5, <1>6 DEF DecideInv, RowFree
<1>9. CountInv'
  BY <1>1, <1>2, LoginBounds DEF CountInv, LoginShape
<1>10. PendingInv' /\ SpentInv'
  BY <1>1, <1>5, <1>6 DEF PendingInv, LiveSecretProven, SpentInv, SpentCodeRefused
<1> QED
  BY <1>7, <1>8, <1>9, <1>10

\* Signing up, verifying the address and asking for a reset touch neither
\* count nor secret, and no login holds the row.
LEMMA MarkingPreserves ==
    ASSUME LoginInv, Signup \/ VerifyEmail \/ ForgotPassword \/ ResetTokenExpires
    PROVE  LoginInv'
<1> USE DEF LoginInv
<1>1. RowFree
  BY DEF Signup, VerifyEmail, ForgotPassword, ResetTokenExpires, RowFree, DecideInv
<1>2. UNCHANGED <<handler, spree, quiet, lost, proven, overtaken, reused>>
  BY DEF Signup, VerifyEmail, ForgotPassword, ResetTokenExpires, ghosts
<1>3. \/ \E status \in {"unverified", "active"} : account' = [account EXCEPT !.status = status]
      \/ \E token \in BOOLEAN : account' = [account EXCEPT !.resetToken = token]
  BY DEF Signup, VerifyEmail, ForgotPassword, ResetTokenExpires
<1>4. /\ account' \in Row
      /\ account'.attempts = account.attempts /\ account'.locked = account.locked
      /\ account'.failed = account.failed /\ account'.secret = account.secret
      /\ account'.pending = account.pending /\ account'.spent = account.spent
      /\ account'.spentFor = account.spentFor
  <2>1. CASE \E status \in {"unverified", "active"} : account' = [account EXCEPT !.status = status]
    BY <2>1 DEF LoginShape, Row
  <2>2. CASE \E token \in BOOLEAN : account' = [account EXCEPT !.resetToken = token]
    BY <2>2 DEF LoginShape, Row
  <2> QED
    BY <1>3, <2>1, <2>2
<1>5. LoginShape'
  BY <1>2, <1>4 DEF LoginShape
<1>6. DecideInv'
  BY <1>1, <1>2 DEF DecideInv, RowFree
<1>7. CountInv' /\ PendingInv' /\ SpentInv'
  BY <1>2, <1>4 DEF CountInv, PendingInv, LiveSecretProven, SpentInv, SpentCodeRefused
<1> QED
  BY <1>5, <1>6, <1>7

\* A new secret overtakes the verifications under way.
LEMMA EnablePreserves ==
    ASSUME LoginInv, NEW secret \in Secrets, EnableTOTP(secret)
    PROVE  LoginInv'
<1> USE DEF LoginInv
<1>1. /\ RowFree /\ account' = [account EXCEPT !.pending = {secret}]
      /\ UNCHANGED <<handler, spree, quiet, lost, proven, reused>>
      /\ overtaken \subseteq overtaken'
      /\ (\E h \in Handlers : handler[h].next = "promote") => secret \in overtaken'
  BY DEF EnableTOTP
<1>2. /\ account' \in Row
      /\ account'.attempts = account.attempts /\ account'.locked = account.locked
      /\ account'.failed = account.failed /\ account'.secret = account.secret
      /\ account'.pending = {secret} /\ account'.spent = account.spent
      /\ account'.spentFor = account.spentFor
  BY <1>1 DEF LoginShape, Row
<1>3. LoginShape'
  BY <1>1, <1>2 DEF LoginShape
<1>4. DecideInv'
  BY <1>1 DEF DecideInv, RowFree
<1>5. CountInv' /\ SpentInv'
  BY <1>1, <1>2 DEF CountInv, SpentInv, SpentCodeRefused
<1>6. PendingInv'
  BY <1>1, <1>2 DEF PendingInv, LiveSecretProven
<1> QED
  BY <1>3, <1>4, <1>5, <1>6

\* A handler that is done leaves nobody deciding on an older row.
LEMMA Leaving ==
    ASSUME LoginInv, NEW h \in Handlers, LeaveDoor(h), RowFree \/ handler[h].next = "decide"
    PROVE  /\ handler' \in [Handlers -> Hand] /\ DecideInv'
           /\ \A g \in Handlers : handler'[g].next = "promote" => handler[g].next = "promote"
<1>1. AtDoor \in Hand /\ AtDoor.next = "idle"
  BY DEF AtDoor, Hand
<1>2. /\ handler' \in [Handlers -> Hand] /\ handler'[h] = AtDoor
      /\ \A g \in Handlers \ {h} : handler'[g] = handler[g]
  BY <1>1 DEF LeaveDoor, LoginInv, LoginShape
<1>3. \A g \in Handlers : handler'[g].next # "decide"
  BY <1>1, <1>2 DEF RowFree, LoginInv, DecideInv
<1> QED
  BY <1>1, <1>2, <1>3 DEF DecideInv

\* A wrong guess is counted on the row as it is.
LEMMA GuessPreserves ==
    ASSUME LoginInv, NEW h \in Handlers, CountedGuess(h)
    PROVE  LoginInv'
<1> USE DEF LoginInv
<1> DEFINE idle == \E n \in account.failed : n >= ResetWindow
           attempts == IF idle THEN 1 ELSE account.attempts + 1
<1>1. handler[h].next = "decide" /\ LeaveDoor(h) /\ UNCHANGED <<lost, proven, overtaken, reused>>
  BY DEF CountedGuess
<1>2. account' = AfterFailure(account) /\ account.locked = 0
  BY DEF CountedGuess, DecideInv
<1>3. account \in Row /\ attempts \in Nat /\ Duration(attempts) \in Nat
  BY DurationBounded DEF LoginShape, Row
<1>4. account' = [account EXCEPT !.attempts = attempts, !.failed = {0}, !.locked = Duration(attempts)]
  BY <1>2 DEF AfterFailure
<1> HIDE DEF attempts
<1>5. /\ account' \in Row
      /\ account'.attempts = attempts /\ account'.locked = Duration(attempts)
      /\ account'.failed = {0} /\ account'.secret = account.secret
      /\ account'.pending = account.pending /\ account'.spent = account.spent
      /\ account'.spentFor = account.spentFor
  <2> DEFINE earned == Duration(attempts)
             none == {0}
  <2>1. earned \in Nat /\ none \subseteq 0..ResetWindow
    BY <1>3, LoginBounds
  <2>2. account' = [account EXCEPT !.attempts = attempts, !.failed = none, !.locked = earned]
    BY <1>4
  <2> HIDE DEF earned, none
  <2>3. [account EXCEPT !.attempts = attempts] \in Row
    BY <1>3 DEF Row
  <2>4. [account EXCEPT !.attempts = attempts, !.failed = none] \in Row
    BY <2>1, <1>3, <2>3 DEF Row
  <2>5. account' \in Row
    BY <1>3, <2>1, <2>2, <2>4 DEF Row
  <2>6. /\ account'.attempts = attempts /\ account'.locked = earned
        /\ account'.failed = none /\ account'.secret = account.secret
        /\ account'.pending = account.pending /\ account'.spent = account.spent
        /\ account'.spentFor = account.spentFor
    BY <1>3, <2>2 DEF Row
  <2> QED
    BY <2>5, <2>6 DEF earned, none
<1>6. lost => UNCHANGED <<spree, quiet>>
  BY DEF CountedGuess
<1>7. ~lost => spree' = attempts /\ quiet' = 0
  <2> SUFFICES ASSUME ~lost PROVE spree' = attempts /\ quiet' = 0
    OBVIOUS
  <2>1. quiet' = 0 /\ spree' = (IF quiet >= ResetWindow THEN 0 ELSE spree) + 1
    BY DEF CountedGuess, Guess
  <2>2. CASE quiet >= ResetWindow
    <3>1. idle \/ (account.failed = {} /\ account.attempts = 0)
      BY <2>2 DEF CountInv, LoginShape
    <3> QED
      BY <2>1, <2>2, <3>1 DEF attempts
  <2>3. CASE ~(quiet >= ResetWindow)
    <3>1. quiet < ResetWindow /\ quiet # ResetWindow
      BY <2>3, LoginBounds DEF LoginShape
    <3>2. account.failed = {quiet} /\ spree = account.attempts
      BY <3>1 DEF CountInv
    <3> QED
      BY <2>1, <2>3, <3>2 DEF attempts
  <2> QED
    BY <2>2, <2>3
<1>8. LoginShape'
  <2>1. spree' \in Nat /\ quiet' \in 0..ResetWindow
    BY <1>3, <1>6, <1>7, LoginBounds DEF LoginShape
  <2> QED
    BY <1>1, <1>5, <2>1, Leaving DEF LoginShape
<1>9. CountInv'
  BY <1>1, <1>3, <1>5, <1>6, <1>7, LoginBounds DEF CountInv, LoginShape
<1>10. PendingInv' /\ SpentInv'
  BY <1>1, <1>5, Leaving DEF PendingInv, LiveSecretProven, SpentInv, SpentCodeRefused
<1> QED
  BY <1>1, <1>8, <1>9, <1>10, Leaving

\* Clearing a row forgets its failures; burning a code remembers it.
LEMMA ClearedRow ==
    ASSUME NEW row \in Row
    PROVE  /\ Cleared(row) \in Row
           /\ Cleared(row).attempts = 0 /\ Cleared(row).locked = 0 /\ Cleared(row).failed = {}
           /\ Cleared(row).secret = row.secret /\ Cleared(row).pending = row.pending
           /\ Cleared(row).spent = row.spent /\ Cleared(row).spentFor = row.spentFor
<1>1. [row EXCEPT !.attempts = 0] \in Row
  BY DEF Row
<1>2. [row EXCEPT !.attempts = 0, !.locked = 0] \in Row
  BY <1>1 DEF Row
<1>3. Cleared(row) \in Row
  BY <1>2 DEF Row, Cleared
<1> QED
  BY <1>3 DEF Row, Cleared

\* Burning a code leaves the rest of the row.
LEMMA BurnedRow ==
    ASSUME NEW row \in Row, NEW code \in CodeSeen
    PROVE  /\ Burned(row, code) \in Row
           /\ Burned(row, code).attempts = row.attempts /\ Burned(row, code).locked = row.locked
           /\ Burned(row, code).failed = row.failed
           /\ Burned(row, code).secret = row.secret /\ Burned(row, code).pending = row.pending
           /\ Burned(row, code).spent = {code} /\ Burned(row, code).spentFor = 0
<1> DEFINE codes == {code}
<1>1. codes \subseteq CodeSeen /\ 0 \in 0..ReplayWindow
  BY LoginBounds
<1>2. Burned(row, code) = [row EXCEPT !.spent = codes, !.spentFor = 0]
  BY DEF Burned
<1> HIDE DEF codes
<1>3. [row EXCEPT !.spent = codes] \in Row
  BY <1>1 DEF Row
<1>4. [row EXCEPT !.spent = codes, !.spentFor = 0] \in Row
  BY <1>1, <1>3 DEF Row
<1>5. /\ Burned(row, code).attempts = row.attempts /\ Burned(row, code).locked = row.locked
      /\ Burned(row, code).failed = row.failed
      /\ Burned(row, code).secret = row.secret /\ Burned(row, code).pending = row.pending
      /\ Burned(row, code).spent = codes /\ Burned(row, code).spentFor = 0
  BY <1>2 DEF Row
<1> QED
  BY <1>2, <1>4, <1>5 DEF codes

\* A login or a reset that succeeds starts the count afresh.
LEMMA ClearingPreserves ==
    ASSUME LoginInv, NEW h \in Handlers,
           WritePassword(h) \/ PasswordLogin(h) \/ \E code \in Current : CodeLogin(h, code)
    PROVE  LoginInv'
<1> USE DEF LoginInv
<1>1. /\ spree' = 0 /\ quiet' = ResetWindow /\ lost' = FALSE /\ LeaveDoor(h)
      /\ RowFree \/ handler[h].next = "decide"
      /\ UNCHANGED <<proven, overtaken>>
  BY DEF WritePassword, PasswordLogin, CodeLogin
<1>2. account \in Row
  BY DEF LoginShape
<1>3. /\ account' \in Row
      /\ account'.attempts = 0 /\ account'.failed = {}
      /\ account'.secret = account.secret /\ account'.pending = account.pending
      /\ SpentInv'
  <2>1. CASE WritePassword(h)
    <3>1. account' = [Cleared(account) EXCEPT !.resetToken = FALSE] /\ reused' = reused
      BY <2>1 DEF WritePassword
    <3> DEFINE row == Cleared(account)
    <3>2. /\ row \in Row /\ row.attempts = 0 /\ row.failed = {}
          /\ row.secret = account.secret /\ row.pending = account.pending
          /\ row.spent = account.spent /\ row.spentFor = account.spentFor
      BY <1>2, ClearedRow
    <3> HIDE DEF row
    <3>3. account' = [row EXCEPT !.resetToken = FALSE]
      BY <3>1 DEF row
    <3>4. account' \in Row
      BY <3>2, <3>3 DEF Row
    <3>5. /\ account'.attempts = 0 /\ account'.failed = {}
          /\ account'.secret = account.secret /\ account'.pending = account.pending
          /\ account'.spent = account.spent /\ account'.spentFor = account.spentFor
      BY <3>2, <3>3 DEF Row
    <3> QED
      BY <3>1, <3>4, <3>5 DEF SpentInv, SpentCodeRefused
  <2>2. CASE PasswordLogin(h)
    <3>1. account' = Cleared(account) /\ reused' = reused
      BY <2>2 DEF PasswordLogin, DecideInv
    <3> QED
      BY <1>2, <3>1, ClearedRow DEF SpentInv, SpentCodeRefused
  <2>3. ASSUME NEW code \in Current, CodeLogin(h, code)
        PROVE  /\ account' \in Row
               /\ account'.attempts = 0 /\ account'.failed = {}
               /\ account'.secret = account.secret /\ account'.pending = account.pending
               /\ SpentInv'
    <3>1. /\ account' = Burned(Cleared(account), code) /\ ~Replayed(account, code)
          /\ reused' = (reused \/ account.spent = {code})
      BY <2>3 DEF CodeLogin, DecideInv
    <3>2. code \in CodeSeen /\ code.step \in Int /\ -Skew <= code.step /\ code.step <= Skew
      BY DEF Current, CodeSeen, Skew
    <3>3. /\ account' \in Row
          /\ account'.attempts = 0 /\ account'.failed = {}
          /\ account'.secret = account.secret /\ account'.pending = account.pending
          /\ account'.spent = {code} /\ account'.spentFor = 0
      BY <1>2, <3>1, <3>2, ClearedRow, BurnedRow
    <3>4. account.spent # {code}
      <4> SUFFICES ASSUME account.spent = {code} PROVE FALSE
        OBVIOUS
      <4>1. account.spentFor \in 0..ReplayWindow /\ ~(account.spentFor < ReplayWindow)
        BY <1>2, <3>1 DEF Row, Replayed
      <4>2. code.step <= Skew - account.spentFor
        BY DEF SpentInv
      <4> QED
        BY <4>1, <4>2, <3>2, LoginBounds, LadderOutlasted DEF Skew
    <3>5. ~reused'
      BY <3>1, <3>4, Zenon DEF SpentInv, SpentCodeRefused
    <3>6. \A c \in account'.spent : c.step <= Skew - account'.spentFor
      BY <3>2, <3>3 DEF Skew
    <3> QED
      BY <3>3, <3>5, <3>6 DEF SpentInv, SpentCodeRefused
  <2> QED
    BY <2>1, <2>2, <2>3
<1>4. LoginShape'
  <2>1. lost' \in BOOLEAN
    BY <1>1
  <2>2. spree' \in Nat /\ quiet' \in 0..ResetWindow
    BY <1>1, LoginBounds
  <2>3. handler' \in [Handlers -> Hand]
    BY <1>1, Leaving
  <2> QED
    BY <1>3, <2>1, <2>2, <2>3 DEF LoginShape
<1>5. CountInv'
  BY <1>1, <1>3, LoginBounds DEF CountInv
<1>6. PendingInv'
  BY <1>1, <1>3, Leaving DEF PendingInv, LiveSecretProven
<1> QED
  BY <1>1, <1>3, <1>4, <1>5, <1>6, Leaving

\* What is promoted was proven or overtook.
LEMMA PromotePreserves ==
    ASSUME LoginInv, NEW h \in Handlers, Promote(h)
    PROVE  LoginInv'
<1> USE DEF LoginInv
<1>1. /\ LeaveDoor(h) /\ RowFree /\ handler[h].next = "promote"
      /\ UNCHANGED <<spree, quiet, lost, proven, overtaken, reused>>
  BY DEF Promote, ghosts
<1>2. PICK code \in handler[h].made :
         account' = [Burned(account, code) EXCEPT !.secret = account.pending, !.pending = {}]
  BY DEF Promote
<1>3. account \in Row /\ code \in CodeSeen /\ code.step <= Skew
  BY LoginBounds DEF LoginShape, Hand, Code, CodeSeen, Skew
<1> DEFINE row == Burned(account, code)
<1>4. /\ row \in Row /\ row.attempts = account.attempts /\ row.locked = account.locked
      /\ row.failed = account.failed /\ row.spent = {code} /\ row.spentFor = 0
  BY <1>3, BurnedRow
<1>5. account' = [row EXCEPT !.secret = account.pending, !.pending = {}]
  BY <1>2
<1> HIDE DEF row
<1>6. [row EXCEPT !.secret = account.pending] \in Row
  BY <1>3, <1>4 DEF Row
<1>7. account' \in Row
  BY <1>5, <1>6 DEF Row
<1>8. /\ account'.attempts = account.attempts /\ account'.locked = account.locked
      /\ account'.failed = account.failed /\ account'.secret = account.pending
      /\ account'.pending = {} /\ account'.spent = {code} /\ account'.spentFor = 0
  BY <1>4, <1>5 DEF Row
<1>9. LoginShape' /\ CountInv'
  BY <1>1, <1>7, <1>8, Leaving DEF LoginShape, CountInv
<1>10. PendingInv'
  BY <1>1, <1>8 DEF PendingInv, LiveSecretProven
<1>11. SpentInv'
  BY <1>1, <1>3, <1>8 DEF SpentInv, SpentCodeRefused, CodeSeen, Skew
<1> QED
  BY <1>1, <1>9, <1>10, <1>11, Leaving

\* A step of 30 s ages the lock, the failures and the code alike.
LEMMA AgeingPreserves ==
    ASSUME LoginInv, Step30s
    PROVE  LoginInv'
<1> USE DEF LoginInv
<1> DEFINE locked == IF account.locked > 0 THEN account.locked - 1 ELSE 0
           failed == {Older(n, ResetWindow) : n \in account.failed}
           spent == IF account.spentFor < ReplayWindow THEN Aged(account.spent) ELSE account.spent
           spentFor == IF account.spent = {} THEN 0 ELSE Older(account.spentFor, ReplayWindow)
<1>1. /\ \A h \in Handlers : handler[h].next = "idle"
      /\ account' = [account EXCEPT !.locked = locked, !.failed = failed, !.spent = spent,
                                    !.spentFor = spentFor]
      /\ quiet' = Older(quiet, ResetWindow)
      /\ UNCHANGED <<handler, spree, lost, proven, overtaken, reused>>
  BY DEF Step30s
<1>2. account \in Row
  BY DEF LoginShape
<1>3. locked \in Nat /\ failed \subseteq 0..ResetWindow /\ spentFor \in 0..ReplayWindow
  BY <1>2, LoginBounds DEF Row, Older
<1>4. /\ spent \subseteq CodeSeen
      /\ \A code \in spent : code.step <= Skew - spentFor
  <2>1. \A code \in account.spent : /\ code \in CodeSeen /\ code.step \in Int
                                    /\ code.step <= Skew - account.spentFor
    BY <1>2 DEF Row, CodeSeen, SpentInv
  <2>2. account.spentFor \in 0..ReplayWindow
    BY <1>2 DEF Row
  <2>3. CASE account.spentFor < ReplayWindow
    <3> SUFFICES ASSUME NEW code \in account.spent
                 PROVE  LET old == [code EXCEPT !.step = @ - 1]
                        IN  old \in CodeSeen /\ old.step <= Skew - spentFor
      BY <2>3 DEF Aged
    <3>1. spentFor = account.spentFor + 1
      BY <2>2, <2>3 DEF Older
    <3>2. [code EXCEPT !.step = @ - 1] \in CodeSeen /\ [code EXCEPT !.step = @ - 1].step = code.step - 1
      BY <2>1 DEF CodeSeen
    <3> QED
      BY <2>1, <2>2, <3>1, <3>2 DEF Skew
  <2>4. CASE ~(account.spentFor < ReplayWindow)
    <3>1. spent = account.spent /\ (spent # {} => spentFor = ReplayWindow /\ account.spentFor = ReplayWindow)
      BY <2>2, <2>4, LoginBounds DEF Older
    <3> QED
      BY <2>1, <3>1
  <2> QED
    BY <2>3, <2>4
<1>5. quiet' \in 0..ResetWindow /\ (quiet' < ResetWindow => quiet < ResetWindow /\ quiet' = quiet + 1)
  BY <1>1, LoginBounds DEF LoginShape, Older
<1>6. /\ (failed = {} <=> account.failed = {})
      /\ (account.failed = {quiet} => failed = {quiet'})
      /\ (quiet = ResetWindow => quiet' = ResetWindow)
  <2>1. failed = {} <=> account.failed = {}
    OBVIOUS
  <2>2. ASSUME account.failed = {quiet} PROVE failed = {Older(quiet, ResetWindow)}
    BY <2>2
  <2>3. quiet = ResetWindow => Older(quiet, ResetWindow) = ResetWindow
    BY LoginBounds DEF Older
  <2> QED
    BY <1>1, <2>1, <2>2, <2>3
<1>7. locked + 1 = account.locked \/ (locked = 0 /\ account.locked = 0)
  BY <1>2 DEF Row
<1> HIDE DEF locked, failed, spent, spentFor
<1>8. /\ [account EXCEPT !.locked = locked] \in Row
      /\ [account EXCEPT !.locked = locked, !.failed = failed] \in Row
      /\ [account EXCEPT !.locked = locked, !.failed = failed, !.spent = spent] \in Row
  <2>1. [account EXCEPT !.locked = locked] \in Row
    BY <1>2, <1>3 DEF Row
  <2>2. [account EXCEPT !.locked = locked, !.failed = failed] \in Row
    BY <2>1, <1>3 DEF Row
  <2>3. [account EXCEPT !.locked = locked, !.failed = failed, !.spent = spent] \in Row
    BY <2>2, <1>4 DEF Row
  <2> QED
    BY <2>1, <2>2, <2>3
<1>9. account' \in Row
  BY <1>1, <1>3, <1>8 DEF Row
<1>10. /\ account'.attempts = account.attempts /\ account'.locked = locked
       /\ account'.failed = failed /\ account'.secret = account.secret
       /\ account'.pending = account.pending /\ account'.spent = spent
       /\ account'.spentFor = spentFor
  BY <1>1, <1>2 DEF Row
<1>11. LoginShape' /\ DecideInv'
  BY <1>1, <1>5, <1>9 DEF LoginShape, DecideInv
<1>12. CountInv'
  <2>1. account.locked \in Nat /\ quiet \in Nat
    BY <1>2, LoginBounds DEF Row, LoginShape
  <2>2. quiet' < ResetWindow =>
           /\ spree' = account'.attempts
           /\ \/ account'.locked + quiet' = Duration(spree')
              \/ account'.locked = 0 /\ quiet' >= Duration(spree')
    <3> SUFFICES ASSUME quiet' < ResetWindow
                 PROVE  /\ spree = account.attempts
                        /\ \/ locked + quiet' = Duration(spree)
                           \/ locked = 0 /\ quiet' >= Duration(spree)
      BY <1>1, <1>10
    <3>1. Duration(spree) \in Nat
      BY DurationBounded DEF LoginShape
    <3>2. /\ spree = account.attempts
          /\ \/ account.locked + quiet = Duration(spree)
             \/ account.locked = 0 /\ quiet >= Duration(spree)
      BY <1>5 DEF CountInv
    <3> QED
      BY <1>3, <1>5, <1>7, <2>1, <3>1, <3>2
  <2> QED
    BY <1>1, <1>6, <1>10, <2>2 DEF CountInv
<1>13. PendingInv' /\ SpentInv'
  BY <1>1, <1>4, <1>10 DEF PendingInv, LiveSecretProven, SpentInv, SpentCodeRefused
<1> QED
  BY <1>11, <1>12, <1>13

\* Logins that race count every guess, keep each lock and each spent code.
LEMMA LoginStep == LoginInv /\ [LoginNext]_loginVars => LoginInv'
<1> SUFFICES ASSUME LoginInv, [LoginNext]_loginVars PROVE LoginInv'
  OBVIOUS
<1>1. CASE LoginNext
  BY <1>1, ReadingPreserves, MarkingPreserves, EnablePreserves, GuessPreserves, ClearingPreserves,
     PromotePreserves, AgeingPreserves DEF LoginNext
<1>2. CASE UNCHANGED loginVars
  <2>1. UNCHANGED <<account, handler, spree, quiet, lost, proven, overtaken, reused>>
    BY <1>2 DEF loginVars
  <2>2. LoginShape' /\ DecideInv'
    BY <2>1 DEF LoginInv, LoginShape, DecideInv
  <2>3. CountInv' /\ PendingInv' /\ SpentInv'
    BY <2>1 DEF LoginInv, CountInv, PendingInv, LiveSecretProven, SpentInv, SpentCodeRefused
  <2> QED
    BY <2>2, <2>3 DEF LoginInv
<1> QED
  BY <1>1, <1>2

\* No guess goes uncounted, for any number of racing logins and any ladder.
THEOREM GuessesCounted == LoginSpec => []EveryGuessCounted
<1>1. LoginInv => EveryGuessCounted
  BY DEF LoginInv, LoginShape, Row, CountInv, EveryGuessCounted
<1> QED
  BY LoginInitInv, LoginStep, <1>1, PTL DEF LoginSpec

\* No guess is heard before the lock of the guesses before it is over.
THEOREM LockHolds == LoginSpec => GuessWaits
<1>1. LoginInv /\ [LoginNext]_loginVars =>
          [(spree' > spree /\ quiet < ResetWindow) => quiet >= Duration(spree)]_loginVars
  <2> SUFFICES ASSUME LoginInv, [LoginNext]_loginVars, spree' > spree, quiet < ResetWindow
               PROVE  quiet >= Duration(spree)
    OBVIOUS
  <2>1. spree \in Nat /\ ~(spree > spree) /\ ~(0 > spree)
    BY DEF LoginInv, LoginShape
  <2>2. PICK h \in Handlers : CountedGuess(h)
    BY <2>1 DEF LoginNext, Signup, VerifyEmail, ForgotPassword, ResetTokenExpires, Step30s, ReadResetToken,
       WritePassword, LockRow, UncountedGuess, TurnedAway, PasswordLogin, CodeLogin, ReadPending,
       Promote, AlreadyPromoted, LoginWriteFails, EnableTOTP, ghosts, loginVars
  <2>3. account.locked = 0
    BY <2>2 DEF CountedGuess, LoginInv, DecideInv
  <2>4. account.locked + quiet = Duration(spree) \/ quiet >= Duration(spree)
    BY DEF LoginInv, CountInv
  <2>5. Duration(spree) \in Nat /\ quiet \in Nat
    BY <2>1, DurationBounded, LoginBounds DEF LoginInv, LoginShape
  <2> QED
    BY <2>3, <2>4, <2>5
<1> QED
  BY LoginInitInv, LoginStep, <1>1, PTL DEF LoginSpec, GuessWaits

\* The last code is not accepted twice while it validates, for every window
\* that is wider than the skew on both sides.
THEOREM CodeSpentOnce == LoginSpec => []SpentCodeRefused
<1>1. LoginInv => SpentCodeRefused
  BY DEF LoginInv, SpentInv
<1> QED
  BY LoginInitInv, LoginStep, <1>1, PTL DEF LoginSpec

\* The live secret is one that some device has shown, or one that overtook.
THEOREM SecretProven == LoginSpec => []LiveSecretProven
<1>1. LoginInv => LiveSecretProven
  BY DEF LoginInv, PendingInv
<1> QED
  BY LoginInitInv, LoginStep, <1>1, PTL DEF LoginSpec

-----------------------------------------------------------------------------
(* Types, with the bounds of the instance.                                 *)

\* The count and its lock stay within their bounds, and the code remembered is no
\* older than it was remembered for.
RowLimits(row) ==
    /\ row.attempts <= MaxGuesses /\ row.locked <= ResetWindow
    /\ \A code \in row.spent : -Skew - row.spentFor <= code.step

LimitsInv ==
    /\ RowLimits(account)
    /\ spree <= MaxGuesses
    /\ proven \subseteq Secrets /\ overtaken \subseteq Secrets /\ reused \in BOOLEAN
    /\ \A h \in Handlers : handler[h].made \subseteq Current /\ handler[h].row \subseteq Account

\* Within its limits the row is typed.
LEMMA AccountTyped ==
    ASSUME LoginInv, RowLimits(account)
    PROVE  account \in Account
<1>1. /\ account \in Row /\ MaxGuesses \in Nat /\ ResetWindow \in Nat /\ ReplayWindow \in Nat
      /\ \A code \in account.spent : code.step <= Skew - account.spentFor
  BY LoginBounds DEF LoginInv, LoginShape, SpentInv
<1>2. account.attempts \in 0..MaxGuesses /\ account.locked \in 0..ResetWindow
  BY <1>1 DEF Row, RowLimits
<1>3. account.spent \subseteq Code
  <2> SUFFICES ASSUME NEW code \in account.spent PROVE code \in Code
    OBVIOUS
  <2>1. code \in CodeSeen /\ account.spentFor \in 0..ReplayWindow
    BY <1>1 DEF Row
  <2>2. code.step \in (-ReplayWindow - Skew)..Skew
    BY <1>1, <2>1 DEF RowLimits, CodeSeen, Skew
  <2> QED
    BY <2>1, <2>2 DEF CodeSeen, Code
<1> QED
  BY <1>1, <1>2, <1>3 DEF Row, Account

\* Every lock is shorter than the window.
LEMMA DurationFits ==
    ASSUME NEW attempts \in Nat
    PROVE  Duration(attempts) \in 0..ResetWindow
<1> DEFINE reached == {t \in Tiers : attempts >= t.atLeast}
<1>1. CASE reached = {}
  BY <1>1, LoginBounds DEF Duration
<1>2. CASE reached # {}
  <2>1. (CHOOSE t \in reached : Highest(t, reached)) \in reached
    BY <1>2, LadderHasTop
  <2>2. (CHOOSE t \in reached : Highest(t, reached)) \in Tiers
    BY <2>1
  <2>3. Duration(attempts) = (CHOOSE t \in reached : Highest(t, reached)).duration
    BY <1>2 DEF Duration
  <2> HIDE DEF reached
  <2> QED
    BY <2>2, <2>3, LoginBounds, LadderOutlasted
<1> QED
  BY <1>1, <1>2

\* Every step keeps the row within its limits.
LEMMA RowLimitsStep ==
    ASSUME LoginInv, LoginInv', LimitsInv, LoginNext
    PROVE  RowLimits(account)'
<1>1. /\ account \in Row /\ handler \in [Handlers -> Hand] /\ RowLimits(account)
      /\ MaxGuesses \in Nat /\ ResetWindow \in Nat /\ ReplayWindow \in Nat
      /\ account.attempts \in Nat /\ account.spentFor \in 0..ReplayWindow
      /\ \A h \in Handlers : handler[h].next = "decide" => handler[h].row = {account}
  BY LoginBounds DEF LoginInv, LoginShape, DecideInv, LimitsInv, Row
<1>2. CASE UNCHANGED <<account.attempts, account.locked, account.spent, account.spentFor>>
  BY <1>1, <1>2 DEF RowLimits
<1>3. CASE Signup \/ VerifyEmail \/ ForgotPassword \/ ResetTokenExpires
  <2>1. \/ \E status \in {"unverified", "active"} : account' = [account EXCEPT !.status = status]
        \/ \E token \in BOOLEAN : account' = [account EXCEPT !.resetToken = token]
    BY <1>3 DEF Signup, VerifyEmail, ForgotPassword, ResetTokenExpires
  <2> QED
    BY <1>1, <1>2, <2>1 DEF Row
<1>4. ASSUME NEW secret \in Secrets, EnableTOTP(secret) PROVE RowLimits(account)'
  BY <1>1, <1>2, <1>4 DEF EnableTOTP, Row
<1>5. ASSUME NEW h \in Handlers,
             \/ LockRow(h) \/ ReadResetToken(h) \/ TurnedAway(h) \/ AlreadyPromoted(h)
             \/ LoginWriteFails(h) \/ UncountedGuess(h)
             \/ \E code \in Current : ReadPending(h, code)
      PROVE  RowLimits(account)'
  BY <1>2, <1>5 DEF LockRow, ReadResetToken, TurnedAway, AlreadyPromoted, LoginWriteFails,
     UncountedGuess, ReadPending, ghosts
<1>6. ASSUME NEW h \in Handlers, CountedGuess(h) PROVE RowLimits(account)'
  <2> DEFINE attempts == IF \E n \in account.failed : n >= ResetWindow THEN 1 ELSE account.attempts + 1
  <2>1. /\ account.attempts < MaxGuesses
        /\ account' = [account EXCEPT !.attempts = attempts, !.failed = {0}, !.locked = Duration(attempts)]
    <3>1. account' = AfterFailure(account) /\ account.attempts < MaxGuesses
      BY <1>1, <1>6 DEF CountedGuess
    <3> QED
      BY <3>1 DEF AfterFailure
  <2>2. attempts \in Nat /\ attempts <= MaxGuesses
    BY <1>1, <2>1
  <2> HIDE DEF attempts
  <2>3. Duration(attempts) \in 0..ResetWindow
    BY <2>2, DurationFits
  <2>4. /\ account'.attempts = attempts /\ account'.locked = Duration(attempts)
        /\ account'.spent = account.spent /\ account'.spentFor = account.spentFor
    BY <1>1, <2>1 DEF Row
  <2> QED
    BY <1>1, <2>2, <2>3, <2>4 DEF RowLimits
<1>7. ASSUME NEW h \in Handlers, WritePassword(h) PROVE RowLimits(account)'
  <2> DEFINE row == Cleared(account)
  <2>1. /\ row \in Row /\ row.attempts = 0 /\ row.locked = 0
        /\ row.spent = account.spent /\ row.spentFor = account.spentFor
    BY <1>1, ClearedRow
  <2>2. account' = [row EXCEPT !.resetToken = FALSE]
    BY <1>7 DEF WritePassword
  <2> HIDE DEF row
  <2>3. /\ account'.attempts = 0 /\ account'.locked = 0
        /\ account'.spent = account.spent /\ account'.spentFor = account.spentFor
    BY <2>1, <2>2 DEF Row
  <2> QED
    BY <1>1, <2>3 DEF RowLimits
<1>8. ASSUME NEW h \in Handlers, PasswordLogin(h) PROVE RowLimits(account)'
  <2>1. account' = Cleared(account)
    BY <1>1, <1>8 DEF PasswordLogin
  <2> QED
    BY <1>1, <2>1, ClearedRow DEF RowLimits
<1>9. ASSUME NEW h \in Handlers, NEW code \in Current, CodeLogin(h, code) PROVE RowLimits(account)'
  <2>1. account' = Burned(Cleared(account), code)
    BY <1>1, <1>9 DEF CodeLogin
  <2>2. code \in CodeSeen /\ code.step \in (-Skew)..Skew
    BY DEF Current, CodeSeen, Skew
  <2>3. /\ account'.attempts = 0 /\ account'.locked = 0
        /\ account'.spent = {code} /\ account'.spentFor = 0
    BY <1>1, <2>1, <2>2, ClearedRow, BurnedRow
  <2> QED
    BY <1>1, <2>2, <2>3 DEF RowLimits, Skew
<1>10. ASSUME NEW h \in Handlers, Promote(h) PROVE RowLimits(account)'
  <2>1. PICK code \in handler[h].made :
            account' = [Burned(account, code) EXCEPT !.secret = account.pending, !.pending = {}]
    BY <1>10 DEF Promote
  <2>2. code \in CodeSeen /\ code.step \in (-Skew)..Skew
    BY DEF LimitsInv, Current, CodeSeen, Skew
  <2> DEFINE row == Burned(account, code)
  <2>3. /\ row \in Row /\ row.attempts = account.attempts /\ row.locked = account.locked
        /\ row.spent = {code} /\ row.spentFor = 0
    BY <1>1, <2>2, BurnedRow
  <2>4. account' = [row EXCEPT !.secret = account.pending, !.pending = {}]
    BY <2>1
  <2> HIDE DEF row
  <2>5. /\ account'.attempts = account.attempts /\ account'.locked = account.locked
        /\ account'.spent = {code} /\ account'.spentFor = 0
    BY <2>3, <2>4 DEF Row
  <2> QED
    BY <1>1, <2>2, <2>5 DEF RowLimits, Skew
<1>11. CASE Step30s
  <2> DEFINE locked == IF account.locked > 0 THEN account.locked - 1 ELSE 0
             failed == {Older(n, ResetWindow) : n \in account.failed}
             spent == IF account.spentFor < ReplayWindow THEN Aged(account.spent) ELSE account.spent
             spentFor == IF account.spent = {} THEN 0 ELSE Older(account.spentFor, ReplayWindow)
  <2>1. account' = [account EXCEPT !.locked = locked, !.failed = failed, !.spent = spent,
                                   !.spentFor = spentFor]
    BY <1>11 DEF Step30s
  <2>2. locked <= ResetWindow
    BY <1>1 DEF Row, RowLimits
  <2>3. \A code \in spent : -Skew - spentFor <= code.step
    <3>1. \A code \in account.spent : code \in CodeSeen /\ code.step \in Int
                                      /\ -Skew - account.spentFor <= code.step
      BY <1>1 DEF Row, CodeSeen, RowLimits
    <3>2. CASE account.spentFor < ReplayWindow
      <4> SUFFICES ASSUME NEW code \in account.spent
                   PROVE  -Skew - spentFor <= [code EXCEPT !.step = @ - 1].step
        BY <3>2 DEF Aged
      <4>1. spentFor = account.spentFor + 1
        BY <1>1, <3>2 DEF Older
      <4>2. [code EXCEPT !.step = @ - 1].step = code.step - 1
        BY <3>1 DEF CodeSeen
      <4> QED
        BY <1>1, <3>1, <4>1, <4>2 DEF Skew
    <3>3. CASE ~(account.spentFor < ReplayWindow)
      <4>1. spent = account.spent /\ (spent # {} => spentFor = account.spentFor)
        BY <1>1, <3>3 DEF Older
      <4> QED
        BY <3>1, <4>1
    <3> QED
      BY <3>2, <3>3
  <2> HIDE DEF locked, failed, spent, spentFor
  <2>4. /\ account'.attempts = account.attempts /\ account'.locked = locked
        /\ account'.spent = spent /\ account'.spentFor = spentFor
    BY <1>1, <2>1 DEF Row
  <2> QED
    BY <1>1, <2>2, <2>3, <2>4 DEF RowLimits
<1> QED
  BY <1>3, <1>4, <1>5, <1>6, <1>7, <1>8, <1>9, <1>10, <1>11 DEF LoginNext

\* And everything around it.
LEMMA LimitsStep == LoginInv /\ LoginInv' /\ LimitsInv /\ [LoginNext]_loginVars => LimitsInv'
<1> SUFFICES ASSUME LoginInv, LoginInv', LimitsInv, LoginNext PROVE LimitsInv'
  BY DEF LimitsInv, RowLimits, loginVars
<1>1. RowLimits(account)'
  BY RowLimitsStep
<1>2. /\ handler \in [Handlers -> Hand] /\ spree \in Nat /\ MaxGuesses \in Nat
      /\ proven \subseteq Secrets /\ overtaken \subseteq Secrets /\ reused \in BOOLEAN
      /\ account.pending \subseteq Secrets /\ account \in Account /\ spree <= MaxGuesses
      /\ \A h \in Handlers : handler[h].made \subseteq Current /\ handler[h].row \subseteq Account
  BY LoginBounds, AccountTyped DEF LoginInv, LoginShape, LimitsInv, Row
<1>3. spree' <= MaxGuesses
  <2>1. spree' = spree \/ spree' = 0 \/ \E h \in Handlers : CountedGuess(h)
    BY DEF LoginNext, Signup, VerifyEmail, ForgotPassword, ResetTokenExpires, Step30s, ReadResetToken,
       WritePassword, LockRow, UncountedGuess, TurnedAway, PasswordLogin, CodeLogin, ReadPending,
       Promote, AlreadyPromoted, LoginWriteFails, EnableTOTP, ghosts
  <2>2. ASSUME NEW h \in Handlers, CountedGuess(h) PROVE spree' <= MaxGuesses
    BY <1>2, <2>2 DEF CountedGuess, Guess
  <2> QED
    BY <1>2, <2>1, <2>2
<1>4. proven' \subseteq Secrets /\ overtaken' \subseteq Secrets
  BY <1>2 DEF LoginNext, Signup, VerifyEmail, ForgotPassword, ResetTokenExpires, Step30s, ReadResetToken,
     WritePassword, LockRow, CountedGuess, UncountedGuess, TurnedAway, PasswordLogin, CodeLogin,
     ReadPending, Promote, AlreadyPromoted, LoginWriteFails, EnableTOTP, ghosts
<1>5. reused' \in BOOLEAN
  <2>1. reused' = reused \/ \E code \in Current : reused' = (reused \/ account.spent = {code})
    BY Zenon DEF LoginNext, Signup, VerifyEmail, ForgotPassword, ResetTokenExpires, Step30s,
       ReadResetToken, WritePassword, LockRow, CountedGuess, UncountedGuess, TurnedAway, PasswordLogin,
       CodeLogin, ReadPending, Promote, AlreadyPromoted, LoginWriteFails, EnableTOTP, ghosts
  <2> QED
    BY <1>2, <2>1, Zenon
<1>6. ASSUME NEW g \in Handlers
      PROVE  handler'[g].made \subseteq Current /\ handler'[g].row \subseteq Account
  <2>1. \/ UNCHANGED handler
        \/ \E h \in Handlers :
               \/ LeaveDoor(h) \/ ReadResetToken(h) \/ LockRow(h)
               \/ \E code \in Current : ReadPending(h, code)
    BY DEF LoginNext, Signup, VerifyEmail, ForgotPassword, ResetTokenExpires, Step30s, WritePassword,
       CountedGuess, UncountedGuess, TurnedAway, PasswordLogin, CodeLogin, Promote, AlreadyPromoted,
       LoginWriteFails, EnableTOTP, ghosts
  <2>2. ASSUME NEW h \in Handlers, LeaveDoor(h)
        PROVE  handler'[g].made \subseteq Current /\ handler'[g].row \subseteq Account
    BY <1>2, <2>2 DEF LeaveDoor, AtDoor
  <2>3. ASSUME NEW h \in Handlers, ReadResetToken(h)
        PROVE  handler'[g].made = handler[g].made /\ handler'[g].row = handler[g].row
    BY <1>2, <2>3 DEF ReadResetToken, Hand
  <2>4. ASSUME NEW h \in Handlers, LockRow(h)
        PROVE  handler'[g].made \subseteq Current /\ handler'[g].row \subseteq Account
    BY <1>2, <2>4 DEF LockRow
  <2>5. ASSUME NEW h \in Handlers, NEW code \in Current, ReadPending(h, code)
        PROVE  handler'[g].made \subseteq Current /\ handler'[g].row \subseteq Account
    BY <1>2, <2>5 DEF ReadPending
  <2> QED
    BY <1>2, <2>1, <2>2, <2>3, <2>4, <2>5
<1> QED
  BY <1>1, <1>3, <1>4, <1>5, <1>6 DEF LimitsInv

\* The row, the requests about it and what is remembered of them keep their types.
LEMMA LoginTyped == LoginSpec => []LoginTypeOK
<1>1. LoginInit => LimitsInv
  <2> SUFFICES ASSUME LoginInit PROVE LimitsInv
    OBVIOUS
  <2>1. reused \in BOOLEAN
    BY DEF LoginInit
  <2>2. RowLimits(account) /\ spree <= MaxGuesses /\ proven = {} /\ overtaken = {}
    BY LoginBounds DEF LoginInit, RowLimits
  <2>3. \A h \in Handlers : handler[h].made = {} /\ handler[h].row = {}
    BY DEF LoginInit, AtDoor
  <2> QED
    BY <2>1, <2>2, <2>3 DEF LimitsInv
<1>2. LoginInv /\ LimitsInv => LoginTypeOK
  <2> SUFFICES ASSUME LoginInv, LimitsInv PROVE LoginTypeOK
    OBVIOUS
  <2>1. account \in Account
    BY AccountTyped DEF LimitsInv
  <2>2. ASSUME NEW h \in Handlers
        PROVE  /\ DOMAIN handler[h] = {"next", "row", "made"}
               /\ handler[h].next \in {"idle", "decide", "promote", "reset"}
               /\ \A row \in handler[h].row : row \in Account
               /\ handler[h].made \subseteq Code
    BY DEF LoginInv, LoginShape, Hand, LimitsInv
  <2>3. spree \in 0..MaxGuesses /\ quiet \in 0..ResetWindow
    BY LoginBounds DEF LoginInv, LoginShape, LimitsInv
  <2>4. lost \in BOOLEAN /\ reused \in BOOLEAN /\ proven \subseteq Secrets /\ overtaken \subseteq Secrets
    BY DEF LoginInv, LoginShape, LimitsInv
  <2> QED
    BY <2>1, <2>2, <2>3, <2>4 DEF LoginTypeOK
<1> QED
  BY LoginInitInv, LoginStep, LimitsStep, <1>1, <1>2, PTL DEF LoginSpec
==============================================================================
