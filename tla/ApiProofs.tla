------------------------------- MODULE ApiProofs -------------------------------
(***************************************************************************)
(* Theorems of ReportDelivery and GroupMembers, for any number of          *)
(* requests, deliveries, faults, groups, entities and editors, and the     *)
(* types of the eight components that MCApi puts side by side.             *)
(***************************************************************************)
EXTENDS MCApi, RequestProofs, LoginProofs, FunctionTheorems, SequenceTheorems

-----------------------------------------------------------------------------
(* Reports.                                                                *)

\* The requests about to execute one of these statements.
At(statements) == {a \in Attempts : attempt[a].next \in statements}

ToAudit   == At({"audit"})
ToInsert  == At({"insert"})
ToSend    == At({"deliver", "failure"})
ToDisable == At({"disable"})
Unsettled == At({"audit", "match", "deliver", "failure", "disable"})

\* Every report is audited, about to be, or was cut off by a fault; no request
\* makes a report beyond the bound, none audits or loses a disabling of a report
\* that it did not make.
CountsInv ==
    /\ reports <= audited + reportFaults + Cardinality(ToAudit)
    /\ reports + Cardinality(ToInsert) <= MaxReports
    /\ audited + Cardinality(ToAudit) <= reports
    /\ lostDisables + Cardinality(Unsettled) <= reports

\* While the subscription is enabled a third failure is about to disable it, or
\* its disabling was lost; afterwards only the deliveries under way still count.
HookInv ==
    /\ hook.enabled => hook.failures <= 2 + Cardinality(ToDisable) + lostDisables
    /\ ~hook.enabled => hook.failures + Cardinality(ToSend)
                            <= 2 + Cardinality(Attempts) + lostDisables

AttemptRow == [next: ReportStatement, live: BOOLEAN, retry: BOOLEAN]

ReportShape ==
    /\ reports \in Nat /\ audited \in Nat /\ lostDisables \in Nat
    /\ reportFaults \in 0..MaxReportFaults
    /\ keyRow \in {"none", "fresh", "expired"}
    /\ hook \in [enabled: BOOLEAN, failures: Nat]
    /\ attempt \in [Attempts -> AttemptRow]
    /\ answered \in BOOLEAN

ReportInv == ReportShape /\ CountsInv /\ HookInv

\* One where the statement is among these, none where it is not.
Counted(statement, statements) == IF statement \in statements THEN 1 ELSE 0

\* When one request moves on, a set of requests loses it where it was and gains it
\* where it goes.
LEMMA MoveCounts ==
    ASSUME NEW S \in SUBSET Attempts, NEW T \in SUBSET Attempts, NEW a,
           S \ {a} = T \ {a}
    PROVE  /\ Cardinality(S) \in Nat /\ Cardinality(T) \in Nat
           /\ Cardinality(T) = Cardinality(S) - (IF a \in S THEN 1 ELSE 0)
                                              + (IF a \in T THEN 1 ELSE 0)
<1>1. IsFiniteSet(S) /\ IsFiniteSet(T)
  BY ReportBounds, FS_Subset
<1>2. /\ Cardinality(S \ {a}) = IF a \in S THEN Cardinality(S) - 1 ELSE Cardinality(S)
      /\ Cardinality(T \ {a}) = IF a \in T THEN Cardinality(T) - 1 ELSE Cardinality(T)
  BY <1>1, FS_RemoveElement
<1>3. Cardinality(S) \in Nat /\ Cardinality(T) \in Nat
  BY <1>1, FS_CardinalityType
<1> QED
  BY <1>2, <1>3

\* How the five counts follow a request from statement s to statement t.
CountsMoved(s, t) ==
    /\ /\ Cardinality(ToAudit) \in Nat /\ Cardinality(ToAudit') \in Nat
       /\ Cardinality(ToAudit') =
              Cardinality(ToAudit) - Counted(s, {"audit"}) + Counted(t, {"audit"})
    /\ /\ Cardinality(ToInsert) \in Nat /\ Cardinality(ToInsert') \in Nat
       /\ Cardinality(ToInsert') =
              Cardinality(ToInsert) - Counted(s, {"insert"}) + Counted(t, {"insert"})
    /\ /\ Cardinality(ToSend) \in Nat /\ Cardinality(ToSend') \in Nat
       /\ Cardinality(ToSend') = Cardinality(ToSend) - Counted(s, {"deliver", "failure"})
                                                     + Counted(t, {"deliver", "failure"})
    /\ /\ Cardinality(ToDisable) \in Nat /\ Cardinality(ToDisable') \in Nat
       /\ Cardinality(ToDisable') =
              Cardinality(ToDisable) - Counted(s, {"disable"}) + Counted(t, {"disable"})
    /\ /\ Cardinality(Unsettled) \in Nat /\ Cardinality(Unsettled') \in Nat
       /\ Cardinality(Unsettled') =
              Cardinality(Unsettled)
                  - Counted(s, {"audit", "match", "deliver", "failure", "disable"})
                  + Counted(t, {"audit", "match", "deliver", "failure", "disable"})

\* A step of one request moves the counts.
LEMMA StepCounts ==
    ASSUME NEW a \in Attempts, NEW t,
           \A b \in Attempts : attempt'[b].next = IF b = a THEN t ELSE attempt[b].next
    PROVE  CountsMoved(attempt[a].next, t)
<1>1. ASSUME NEW statements
      PROVE  /\ Cardinality(At(statements)) \in Nat /\ Cardinality(At(statements)') \in Nat
             /\ Cardinality(At(statements)') =
                    Cardinality(At(statements)) - Counted(attempt[a].next, statements)
                                                + Counted(t, statements)
  <2> DEFINE S == At(statements)
             T == At(statements)'
  <2>1. /\ S \in SUBSET Attempts /\ T \in SUBSET Attempts
        /\ S \ {a} = T \ {a}
        /\ (a \in S) <=> (attempt[a].next \in statements)
        /\ (a \in T) <=> (t \in statements)
    BY DEF At
  <2> HIDE DEF S, T
  <2>2. /\ Cardinality(S) \in Nat /\ Cardinality(T) \in Nat
        /\ Cardinality(T) = Cardinality(S) - (IF a \in S THEN 1 ELSE 0)
                                           + (IF a \in T THEN 1 ELSE 0)
    BY <2>1, MoveCounts
  <2> QED
    BY <2>1, <2>2 DEF S, T, Counted
<1> QED
  BY <1>1 DEF CountsMoved, ToAudit, ToInsert, ToSend, ToDisable, Unsettled

\* Before the first request.
LEMMA ReportInitInv == ReportInit => ReportInv
<1> SUFFICES ASSUME ReportInit PROVE ReportInv
  OBVIOUS
<1>1. \A statements : "idle" \notin statements => At(statements) = {}
  BY DEF ReportInit, NoAttempt, At
<1>2. Cardinality({}) = 0
  BY FS_EmptySet
<1>3. ReportShape
  <2>1. NoAttempt \in AttemptRow /\ [enabled |-> TRUE, failures |-> 0] \in [enabled: BOOLEAN, failures: Nat]
    BY DEF NoAttempt, AttemptRow, ReportStatement
  <2>2. attempt \in [Attempts -> AttemptRow]
    BY <2>1 DEF ReportInit
  <2>3. reportFaults \in 0..MaxReportFaults
    BY ReportBounds DEF ReportInit
  <2> QED
    BY <2>1, <2>2, <2>3 DEF ReportInit, ReportShape
<1>4. CountsInv
  BY <1>1, <1>2, ReportBounds DEF ReportInit, CountsInv, ToAudit, ToInsert, Unsettled
<1>5. HookInv
  BY <1>1, <1>2 DEF ReportInit, HookInv, ToDisable
<1> QED
  BY <1>3, <1>4, <1>5 DEF ReportInv

\* Those about to disable and those whose delivery is under way are different ones.
LEMMA SendersAndDisablers ==
    ASSUME ReportShape
    PROVE  Cardinality(ToSend) + Cardinality(ToDisable) <= Cardinality(Attempts)
<1>1. ToSend \subseteq Attempts /\ ToDisable \subseteq Attempts /\ ToSend \cap ToDisable = {}
  BY DEF ToSend, ToDisable, At
<1>2. /\ IsFiniteSet(ToSend) /\ IsFiniteSet(ToDisable)
      /\ Cardinality(ToSend \cup ToDisable) <= Cardinality(Attempts)
  BY <1>1, ReportBounds, FS_Subset
<1>3. Cardinality(ToSend \cup ToDisable) = Cardinality(ToSend) + Cardinality(ToDisable) - 0
  BY <1>1, <1>2, FS_Union, FS_EmptySet
<1>4. Cardinality(ToSend) \in Nat /\ Cardinality(ToDisable) \in Nat
  BY <1>2, FS_CardinalityType
<1> QED
  BY <1>2, <1>3, <1>4

\* What a request writes into its row.
LEMMA Rows ==
    ASSUME ReportShape, NEW a \in Attempts, NEW statement \in ReportStatement
    PROVE  /\ Proceed(a, statement) =>
                  /\ attempt' \in [Attempts -> AttemptRow]
                  /\ \A b \in Attempts :
                         attempt'[b].next = IF b = a THEN statement ELSE attempt[b].next
           /\ FinishAttempt(a) =>
                  /\ attempt' \in [Attempts -> AttemptRow]
                  /\ \A b \in Attempts :
                         attempt'[b].next = IF b = a THEN "idle" ELSE attempt[b].next
           /\ attempt' = [attempt EXCEPT ![a].live = FALSE] =>
                  /\ attempt' \in [Attempts -> AttemptRow]
                  /\ \A b \in Attempts : attempt'[b].next = attempt[b].next
           /\ attempt' = [attempt EXCEPT ![a] = [next |-> statement, live |-> TRUE, retry |-> answered]] =>
                  /\ attempt' \in [Attempts -> AttemptRow]
                  /\ \A b \in Attempts :
                         attempt'[b].next = IF b = a THEN statement ELSE attempt[b].next
<1>1. attempt \in [Attempts -> AttemptRow] /\ attempt[a] \in AttemptRow /\ answered \in BOOLEAN
  BY DEF ReportShape
<1>2. ASSUME NEW r \in AttemptRow, attempt' = [attempt EXCEPT ![a] = r]
      PROVE  /\ attempt' \in [Attempts -> AttemptRow]
             /\ \A b \in Attempts : attempt'[b].next = IF b = a THEN r.next ELSE attempt[b].next
  BY <1>1, <1>2
<1>3. /\ [attempt[a] EXCEPT !.next = statement] \in AttemptRow
      /\ [attempt[a] EXCEPT !.next = statement].next = statement
  BY <1>1 DEF AttemptRow
<1>4. /\ [attempt[a] EXCEPT !.live = FALSE] \in AttemptRow
      /\ [attempt[a] EXCEPT !.live = FALSE].next = attempt[a].next
  BY <1>1 DEF AttemptRow
<1>5. NoAttempt \in AttemptRow /\ NoAttempt.next = "idle"
  BY DEF NoAttempt, AttemptRow, ReportStatement
<1>6. [next |-> statement, live |-> TRUE, retry |-> answered] \in AttemptRow
  BY <1>1 DEF AttemptRow
<1>7. Proceed(a, statement) =>
          /\ attempt' \in [Attempts -> AttemptRow]
          /\ \A b \in Attempts : attempt'[b].next = IF b = a THEN statement ELSE attempt[b].next
  BY <1>1, <1>2, <1>3 DEF Proceed
<1>8. FinishAttempt(a) =>
          /\ attempt' \in [Attempts -> AttemptRow]
          /\ \A b \in Attempts : attempt'[b].next = IF b = a THEN "idle" ELSE attempt[b].next
  BY <1>2, <1>5 DEF FinishAttempt
<1>9. attempt' = [attempt EXCEPT ![a].live = FALSE] =>
          /\ attempt' \in [Attempts -> AttemptRow]
          /\ \A b \in Attempts : attempt'[b].next = attempt[b].next
  BY <1>1, <1>2, <1>4
<1>10. attempt' = [attempt EXCEPT ![a] = [next |-> statement, live |-> TRUE, retry |-> answered]] =>
          /\ attempt' \in [Attempts -> AttemptRow]
          /\ \A b \in Attempts : attempt'[b].next = IF b = a THEN statement ELSE attempt[b].next
  BY <1>2, <1>6
<1> QED
  BY <1>7, <1>8, <1>9, <1>10

\* A request that only moves on keeps the counts, if what it takes up had room or
\* was taken up before, and what it leaves undone is put down to a fault.
LEMMA MovesOn ==
    ASSUME ReportInv, ReportShape', NEW a \in Attempts, NEW t,
           \A b \in Attempts : attempt'[b].next = IF b = a THEN t ELSE attempt[b].next,
           UNCHANGED <<reports, audited, hook, lostDisables>>, reportFaults' >= reportFaults,
           t = "insert" => attempt[a].next = "insert" \/ reports + Cardinality(ToInsert) < MaxReports,
           attempt[a].next = "audit" /\ t # "audit" => reportFaults' = reportFaults + 1,
           t \in {"audit", "disable"} => attempt[a].next = t,
           t = "match" => attempt[a].next \in {"audit", "match"},
           t \in {"deliver", "failure"} => \/ attempt[a].next \in {"deliver", "failure"}
                                           \/ hook.enabled /\ attempt[a].next = "match",
           attempt[a].next = "disable" => t = "disable"
    PROVE  ReportInv'
<1>0. CountsMoved(attempt[a].next, t)
  BY StepCounts
<1>1. /\ reports \in Nat /\ audited \in Nat /\ lostDisables \in Nat /\ MaxReports \in Nat
      /\ reportFaults \in Nat /\ reportFaults' \in Nat
      /\ hook.enabled \in BOOLEAN /\ hook.failures \in Nat
      /\ Cardinality(Attempts) \in Nat
  BY ReportBounds, FS_CardinalityType DEF ReportInv, ReportShape
<1> DEFINE s == attempt[a].next
<1> HIDE DEF s
<1>2. CountsInv'
  BY <1>0, <1>1 DEF s, ReportInv, CountsInv, CountsMoved, Counted
<1>3. HookInv'
  BY <1>0, <1>1 DEF s, ReportInv, HookInv, CountsMoved, Counted
<1> QED
  BY <1>2, <1>3 DEF ReportInv

\* A step of one request keeps every count within its bound.
LEMMA AttemptPreserves ==
    ASSUME ReportInv, NEW a \in Attempts, AttemptStep(a)
    PROVE  ReportInv'
<1>0. /\ ReportShape /\ CountsInv /\ HookInv
      /\ reports \in Nat /\ audited \in Nat /\ lostDisables \in Nat /\ reportFaults \in Nat
      /\ MaxReports \in Nat /\ Cardinality(Attempts) \in Nat
      /\ hook.enabled \in BOOLEAN /\ hook.failures \in Nat
      /\ attempt[a].next \in ReportStatement
  BY ReportBounds, FS_CardinalityType DEF ReportInv, ReportShape, AttemptRow
<1>1. CASE Lookup(a) \/ LookupFails(a)
  <2>1. /\ attempt' \in [Attempts -> AttemptRow]
        /\ \A b \in Attempts : attempt'[b].next = IF b = a THEN "insert" ELSE attempt[b].next
    BY <1>0, <1>1, Rows DEF Lookup, LookupFails, ReportStatement
  <2>2. reports + Cardinality(ToInsert) < MaxReports
    <3>1. ToInsert = {b \in Attempts : attempt[b].next = "insert"}
      BY DEF ToInsert, At
    <3> QED
      BY <1>1, <3>1 DEF Lookup, LookupFails
  <2>3. /\ attempt[a].next = "idle"
        /\ UNCHANGED <<reports, audited, keyRow, hook, answered, lostDisables>>
        /\ reportFaults' \in 0..MaxReportFaults /\ reportFaults' >= reportFaults
    BY <1>0, <1>1, ReportBounds DEF Lookup, LookupFails, ReportShape
  <2>4. ReportShape'
    BY <1>0, <2>1, <2>3 DEF ReportShape
  <2> QED
    BY <2>1, <2>2, <2>3, <2>4, MovesOn
<1>2. CASE InsertReport(a)
  <2>1. /\ attempt' \in [Attempts -> AttemptRow]
        /\ \A b \in Attempts : attempt'[b].next = IF b = a THEN "audit" ELSE attempt[b].next
    BY <1>0, <1>2, Rows DEF InsertReport, ReportStatement
  <2>2. /\ attempt[a].next = "insert" /\ reports' = reports + 1
        /\ UNCHANGED <<audited, keyRow, hook, answered, lostDisables, reportFaults>>
    BY <1>2 DEF InsertReport
  <2>3. ReportShape'
    BY <1>0, <2>1, <2>2 DEF ReportShape
  <2>4. CountsMoved("insert", "audit")
    BY <2>1, <2>2, StepCounts
  <2>5. CountsInv' /\ HookInv'
    BY <1>0, <2>2, <2>4 DEF CountsMoved, CountsInv, HookInv, Counted
  <2> QED
    BY <2>3, <2>5 DEF ReportInv
<1>3. CASE InsertReplyLost(a)
  <2>1. /\ attempt' \in [Attempts -> AttemptRow]
        /\ \A b \in Attempts : attempt'[b].next = IF b = a THEN "idle" ELSE attempt[b].next
    BY <1>0, <1>3, Rows DEF InsertReplyLost, ReportStatement
  <2>2. /\ attempt[a].next = "insert" /\ reports' = reports + 1
        /\ reportFaults' = reportFaults + 1 /\ reportFaults < MaxReportFaults
        /\ UNCHANGED <<audited, keyRow, hook, answered, lostDisables>>
    BY <1>3 DEF InsertReplyLost
  <2>3. ReportShape'
    BY <1>0, <2>1, <2>2, ReportBounds DEF ReportShape
  <2>4. CountsMoved("insert", "idle")
    BY <2>1, <2>2, StepCounts
  <2>5. CountsInv' /\ HookInv'
    BY <1>0, <2>2, <2>4 DEF CountsMoved, CountsInv, HookInv, Counted
  <2> QED
    BY <2>3, <2>5 DEF ReportInv
<1>4. CASE RecordAccess(a)
  <2>1. /\ attempt' \in [Attempts -> AttemptRow]
        /\ \A b \in Attempts : attempt'[b].next = IF b = a THEN "match" ELSE attempt[b].next
    BY <1>0, <1>4, Rows DEF RecordAccess, ReportStatement
  <2>2. /\ attempt[a].next = "audit" /\ audited' = audited + 1
        /\ UNCHANGED <<reports, keyRow, hook, answered, lostDisables, reportFaults>>
    BY <1>4 DEF RecordAccess
  <2>3. ReportShape'
    BY <1>0, <2>1, <2>2 DEF ReportShape
  <2>4. CountsMoved("audit", "match")
    BY <2>1, <2>2, StepCounts
  <2>5. CountsInv' /\ HookInv'
    BY <1>0, <2>2, <2>4 DEF CountsMoved, CountsInv, HookInv, Counted
  <2> QED
    BY <2>3, <2>5 DEF ReportInv
<1>5. CASE MatchSubscriptions(a)
  <2>1. PICK t \in {"deliver", "store"} :
            /\ attempt' \in [Attempts -> AttemptRow]
            /\ \A b \in Attempts : attempt'[b].next = IF b = a THEN t ELSE attempt[b].next
            /\ t = "deliver" => hook.enabled
    <3>1. PICK t \in {"deliver", "store"} : Proceed(a, t) /\ (t = "deliver" => hook.enabled)
      BY <1>5 DEF MatchSubscriptions
    <3>2. t \in ReportStatement
      BY DEF ReportStatement
    <3> QED
      BY <1>0, <3>1, <3>2, Rows
  <2>2. /\ attempt[a].next = "match"
        /\ UNCHANGED <<reports, audited, keyRow, hook, answered, lostDisables, reportFaults>>
    BY <1>5 DEF MatchSubscriptions
  <2>3. ReportShape'
    BY <1>0, <2>1, <2>2 DEF ReportShape
  <2>4. reportFaults' >= reportFaults
    BY <1>0, <2>2 DEF ReportShape
  <2>5. CASE t = "deliver"
    BY <1>0, <2>1, <2>2, <2>3, <2>4, <2>5, MovesOn
  <2>6. CASE t = "store"
    BY <1>0, <2>1, <2>2, <2>3, <2>4, <2>6, MovesOn
  <2> QED
    BY <2>1, <2>5, <2>6
<1>6. ASSUME NEW outcome, DeliverEvent(a, outcome) PROVE ReportInv'
  <2>1. PICK t \in {"store", "failure"} :
            /\ attempt' \in [Attempts -> AttemptRow]
            /\ \A b \in Attempts : attempt'[b].next = IF b = a THEN t ELSE attempt[b].next
    <3> DEFINE row(t) == [attempt[a] EXCEPT !.next = t, !.live = @ /\ outcome # "hangs"]
    <3>1. PICK t \in {"store", "failure"} : attempt' = [attempt EXCEPT ![a] = row(t)]
      BY <1>0, <1>6 DEF DeliverEvent, ReportShape
    <3>2. (attempt[a].live /\ outcome # "hangs") \in BOOLEAN
      BY Zenon
    <3>3. row(t) \in AttemptRow /\ row(t).next = t
      BY <1>0, <3>2 DEF ReportShape, AttemptRow, ReportStatement
    <3> HIDE DEF row
    <3> QED
      BY <1>0, <3>1, <3>3 DEF ReportShape
  <2>2. /\ attempt[a].next = "deliver"
        /\ UNCHANGED <<reports, audited, keyRow, hook, answered, lostDisables, reportFaults>>
    BY <1>6 DEF DeliverEvent
  <2>3. ReportShape'
    BY <1>0, <2>1, <2>2 DEF ReportShape
  <2>4. reportFaults' >= reportFaults
    BY <1>0, <2>2 DEF ReportShape
  <2>5. CASE t = "store"
    BY <1>0, <2>1, <2>2, <2>3, <2>4, <2>5, MovesOn
  <2>6. CASE t = "failure"
    BY <1>0, <2>1, <2>2, <2>3, <2>4, <2>6, MovesOn
  <2> QED
    BY <2>1, <2>5, <2>6
<1>7. CASE CountFailure(a)
  <2>1. /\ attempt[a].next = "failure"
        /\ hook' \in [enabled: BOOLEAN, failures: Nat]
        /\ hook'.enabled = hook.enabled /\ hook'.failures = hook.failures + 1
        /\ UNCHANGED <<reports, audited, keyRow, answered, lostDisables, reportFaults>>
    BY <1>0, <1>7 DEF CountFailure, ReportShape
  <2>2. PICK t \in {"disable", "store"} : Proceed(a, t) /\ (t = "store" => hook.failures + 1 < 3)
    BY <1>0, <1>7, <2>1 DEF CountFailure, DisableAfter
  <2>3. /\ attempt' \in [Attempts -> AttemptRow]
        /\ \A b \in Attempts : attempt'[b].next = IF b = a THEN t ELSE attempt[b].next
    <3>1. t \in ReportStatement
      BY DEF ReportStatement
    <3> QED
      BY <1>0, <2>2, <3>1, Rows
  <2>4. ReportShape'
    BY <1>0, <2>1, <2>3 DEF ReportShape
  <2>5. CountsMoved("failure", t)
    BY <2>1, <2>3, StepCounts
  <2>6. CountsInv' /\ HookInv'
    BY <1>0, <2>1, <2>2, <2>5 DEF CountsMoved, CountsInv, HookInv, Counted
  <2> QED
    BY <2>4, <2>6 DEF ReportInv
<1>8. CASE Disable(a)
  <2>1. /\ attempt' \in [Attempts -> AttemptRow]
        /\ \A b \in Attempts : attempt'[b].next = IF b = a THEN "store" ELSE attempt[b].next
    BY <1>0, <1>8, Rows DEF Disable, ReportStatement
  <2>2. /\ attempt[a].next = "disable"
        /\ hook' \in [enabled: BOOLEAN, failures: Nat]
        /\ hook'.enabled = FALSE /\ hook'.failures = hook.failures
        /\ UNCHANGED <<reports, audited, keyRow, answered, lostDisables, reportFaults>>
    BY <1>0, <1>8 DEF Disable, ReportShape
  <2>3. ReportShape'
    BY <1>0, <2>1, <2>2 DEF ReportShape
  <2>4. CountsMoved("disable", "store")
    BY <2>1, <2>2, StepCounts
  <2>5. Cardinality(ToSend) + Cardinality(ToDisable) <= Cardinality(Attempts)
    BY <1>0, SendersAndDisablers
  <2>6. CountsInv' /\ HookInv'
    BY <1>0, <2>2, <2>4, <2>5 DEF CountsMoved, CountsInv, HookInv, Counted
  <2> QED
    BY <2>3, <2>6 DEF ReportInv
<1>9. CASE StoreResponse(a)
  <2>1. /\ attempt' \in [Attempts -> AttemptRow]
        /\ \A b \in Attempts : attempt'[b].next = IF b = a THEN "idle" ELSE attempt[b].next
    BY <1>0, <1>9, Rows DEF StoreResponse, ReportStatement
  <2>2. /\ attempt[a].next = "store"
        /\ UNCHANGED <<reports, audited, hook, lostDisables, reportFaults>>
    BY <1>9 DEF StoreResponse
  <2>3. ReportShape'
    BY <1>0, <1>9, <2>1, <2>2 DEF StoreResponse, ReportShape
  <2>4. reportFaults' >= reportFaults
    BY <1>0, <2>2 DEF ReportShape
  <2> QED
    BY <1>0, <2>1, <2>2, <2>3, <2>4, MovesOn
<1>10. CASE GiveUp(a)
  <2>1. /\ attempt' \in [Attempts -> AttemptRow]
        /\ \A b \in Attempts : attempt'[b].next = IF b = a THEN attempt[a].next ELSE attempt[b].next
    BY <1>0, <1>10, Rows DEF GiveUp
  <2>2. UNCHANGED <<reports, audited, keyRow, hook, answered, lostDisables, reportFaults>>
    BY <1>10 DEF GiveUp
  <2>3. ReportShape'
    BY <1>0, <2>1, <2>2 DEF ReportShape
  <2>4. reportFaults' >= reportFaults
    BY <1>0, <2>2 DEF ReportShape
  <2> QED
    BY <1>0, <2>1, <2>2, <2>3, <2>4, MovesOn
<1>11. CASE DeadContext(a) \/ ReportStatementFails(a)
  <2>1. /\ AfterError(attempt[a].next) \in ReportStatement
        /\ attempt' \in [Attempts -> AttemptRow]
        /\ \A b \in Attempts :
               attempt'[b].next = IF b = a THEN AfterError(attempt[a].next) ELSE attempt[b].next
    <3>1. AfterError(attempt[a].next) \in ReportStatement
      BY DEF AfterError, ReportStatement
    <3>2. \/ AfterError(attempt[a].next) = "idle" /\ FinishAttempt(a)
          \/ Proceed(a, AfterError(attempt[a].next))
      BY <1>11 DEF DeadContext, ReportStatementFails, Abandon
    <3> QED
      BY <1>0, <3>1, <3>2, Rows
  <2>2. /\ UNCHANGED <<reports, audited, keyRow, hook>>
        /\ reportFaults' \in 0..MaxReportFaults /\ reportFaults' >= reportFaults
        /\ attempt[a].next = "audit" => reportFaults' = reportFaults + 1
        /\ attempt[a].next # "disable" => UNCHANGED lostDisables
        /\ attempt[a].next = "disable" => lostDisables' = lostDisables + 1
        /\ attempt[a].next \in {"insert", "audit", "failure", "disable", "store"}
    BY <1>0, <1>11, ReportBounds DEF DeadContext, ReportStatementFails, Abandon, ReportShape
  <2>3. answered' \in BOOLEAN
    BY <1>0, <1>11, Zenon DEF DeadContext, ReportStatementFails, ReportShape
  <2>4. ReportShape'
    BY <1>0, <2>1, <2>2, <2>3 DEF ReportShape
  <2>5. CASE attempt[a].next = "disable"
    <3>1. CountsMoved("disable", "store")
      BY <2>1, <2>5, StepCounts DEF AfterError
    <3>2. CountsInv' /\ HookInv'
      BY <1>0, <2>2, <2>5, <3>1 DEF CountsMoved, CountsInv, HookInv, Counted
    <3> QED
      BY <2>4, <3>2 DEF ReportInv
  <2>6. CASE attempt[a].next # "disable"
    <3>1. /\ AfterError(attempt[a].next) \in {"match", "store", "idle"}
          /\ AfterError(attempt[a].next) = "match" => attempt[a].next = "audit"
      BY <2>2 DEF AfterError
    <3> QED
      BY <1>0, <2>1, <2>2, <2>4, <2>6, <3>1, MovesOn
  <2> QED
    BY <2>5, <2>6
<1> QED
  BY <1>1, <1>2, <1>3, <1>4, <1>5, <1>6, <1>7, <1>8, <1>9, <1>10, <1>11 DEF AttemptStep

\* So does a day that passes, and every stutter.
LEMMA ReportStep == ReportInv /\ [ReportNext]_reportVars => ReportInv'
<1> SUFFICES ASSUME ReportInv, [ReportNext]_reportVars PROVE ReportInv'
  OBVIOUS
<1>1. CASE DayPasses
  <2>1. UNCHANGED <<reports, audited, hook, attempt, lostDisables, reportFaults>>
    BY <1>1 DEF DayPasses
  <2>2. ReportShape'
    BY <1>1, <2>1 DEF DayPasses, ReportInv, ReportShape
  <2>3. \A statements : At(statements)' = At(statements)
    BY <2>1 DEF At
  <2> QED
    BY <2>1, <2>2, <2>3
    DEF ReportInv, CountsInv, HookInv, ToAudit, ToInsert, ToSend, ToDisable, Unsettled
<1>2. CASE UNCHANGED reportVars
  <2>1. \A statements : At(statements)' = At(statements)
    BY <1>2 DEF At, reportVars
  <2> QED
    BY <1>2, <2>1 DEF reportVars, ReportInv, ReportShape, CountsInv, HookInv, ToAudit, ToInsert,
       ToSend, ToDisable, Unsettled
<1> QED
  BY <1>1, <1>2, AttemptPreserves DEF ReportNext

\* No report escapes the access log but by a statement that fails, for any number of
\* copies of a request, retries, dead contexts and days (findings.go:415-434,
\* auditlog.go:45-61).
THEOREM ReportsOnLog == ReportSpec => []ReportsAudited
<1>1. ReportInv => ReportsAudited
  <2>1. ToAudit = {a \in Attempts : attempt[a].next = "audit"}
    BY DEF ToAudit, At
  <2> QED
    BY <2>1 DEF ReportInv, CountsInv, ReportsAudited
<1> QED
  BY ReportInitInv, ReportStep, <1>1, PTL DEF ReportSpec

\* However many deliveries race, a subscription is disabled after its third failure;
\* beyond it only those under way count, and those whose disabling was lost
\* (webhooks.go:142-158).
THEOREM FailuresLimited == ReportSpec => []FailuresBounded
<1>1. ReportInv => FailuresBounded
  <2> SUFFICES ASSUME ReportInv PROVE FailuresBounded
    OBVIOUS
  <2>1. /\ IsFiniteSet(ToDisable) /\ IsFiniteSet(ToSend)
        /\ Cardinality(ToDisable) <= Cardinality(Attempts)
    BY ReportBounds, FS_Subset DEF ToDisable, ToSend, At
  <2>2. /\ Cardinality(ToDisable) \in Nat /\ Cardinality(ToSend) \in Nat
        /\ Cardinality(Attempts) \in Nat
    BY <2>1, ReportBounds, FS_CardinalityType
  <2> QED
    BY <2>1, <2>2 DEF ReportInv, ReportShape, HookInv, FailuresBounded, DisableAfter
<1> QED
  BY ReportInitInv, ReportStep, <1>1, PTL DEF ReportSpec

-----------------------------------------------------------------------------
(* Groups.                                                                 *)

\* A transaction names and holds groups that exist.
SourcesInv == \A u \in Editors : edit[u].held \cup ToSet(edit[u].todo) \subseteq Existing

GroupInv == GroupTypeOK /\ SourcesInv /\ NoneLost

GroupRow == [status: GroupStatus, members: SUBSET Entities]

\* There is a free id for each partition, and no two partitions get the same.
LEMMA FreshIds ==
    ASSUME NEW u, GroupTypeOK, edit[u].parts \in Seq(SUBSET Entities),
           Len(edit[u].parts) <= MaxGroups - Cardinality(Existing)
    PROVE  Fresh(u) \in Injection(1..Len(edit[u].parts), Groups \ Existing)
<1> DEFINE n == Len(edit[u].parts)
           free == Groups \ Existing
<1>1. n \in Nat /\ MaxGroups \in Nat
  BY GroupBounds, LenProperties
<1>2. IsFiniteSet(Groups) /\ Cardinality(Groups) = MaxGroups
  BY <1>1, FS_Interval DEF Groups
<1>3. Existing \subseteq Groups
  BY DEF Existing
<1>4. /\ IsFiniteSet(Existing) /\ IsFiniteSet(free)
      /\ Cardinality(Existing) \in Nat /\ Cardinality(free) \in Nat
      /\ Cardinality(free) = Cardinality(Groups) - Cardinality(Groups \cap Existing)
  BY <1>2, <1>3, FS_Subset, FS_Difference, FS_CardinalityType
<1>5. Groups \cap Existing = Existing
  BY <1>3
<1>6. n <= Cardinality(free)
  BY <1>1, <1>2, <1>4, <1>5
<1>7. ExistsInjection(1..n, 1..Cardinality(free))
  BY <1>1, <1>4, <1>6, Fun_NatInjLeq
<1>8. ExistsInjection(1..Cardinality(free), free)
  <2>1. ExistsBijection(1..Cardinality(free), free)
    BY <1>4, FS_CardinalityType
  <2> QED
    BY <2>1, Fun_ExistsBijEquiv
<1>9. Injection(1..n, free) # {}
  BY <1>7, <1>8, Fun_ExistsInjTransitive DEF ExistsInjection
<1> HIDE DEF n, free
<1>10. (CHOOSE f \in Injection(1..n, free) : TRUE) \in Injection(1..n, free)
  BY <1>9
<1> QED
  BY <1>10 DEF Fresh, n, free

\* The linker's groups, and no transaction.
LEMMA GroupInitInv == GroupInit => GroupInv
<1> SUFFICES ASSUME GroupInit PROVE GroupInv
  OBVIOUS
<1>1. PICK home \in [Entities -> {1, 2}] :
          group = [g \in Groups |->
              LET members == {e \in Entities : home[e] = g}
              IN  [status |-> IF members = {} THEN "absent" ELSE "needs_review", members |-> members]]
  BY DEF GroupInit
<1>2. \A g \in Groups :
          /\ group[g].members = {e \in Entities : home[e] = g}
          /\ group[g].status = IF group[g].members = {} THEN "absent" ELSE "needs_review"
  BY <1>1
<1>3. group \in [Groups -> GroupRow]
  BY <1>1 DEF GroupRow, GroupStatus
<1>4. NoEdit \in Edit /\ NoEdit.held = {} /\ ToSet(NoEdit.todo) = {}
  BY EmptySeq DEF NoEdit, Edit, ToSet
<1>5. /\ edit \in [Editors -> Edit]
      /\ \A u \in Editors : edit[u] = NoEdit
  BY <1>4 DEF GroupInit
<1>6. GroupTypeOK
  BY <1>3, <1>5, GroupBounds DEF GroupInit, GroupTypeOK, GroupRow
<1>7. SourcesInv
  BY <1>4, <1>5 DEF SourcesInv
<1>8. ASSUME NEW e \in Entities
      PROVE  home[e] \in Existing /\ Live(e) = {home[e]}
  <2>1. home[e] \in Groups
    BY GroupBounds DEF Groups
  <2>2. e \in group[home[e]].members
    BY <1>2, <2>1
  <2>3. home[e] \in Existing /\ group[home[e]].status # "superseded"
    BY <1>2, <2>1, <2>2 DEF Existing
  <2>4. \A h \in Groups : e \in group[h].members => h = home[e]
    BY <1>2
  <2> QED
    BY <2>2, <2>3, <2>4 DEF Live, Existing
<1>9. NoneLost
  BY <1>8, Zenon DEF NoneLost
<1> QED
  BY <1>6, <1>7, <1>9 DEF GroupInv

\* The steps of a transaction before its commit change no group.
LEMMA OpenPreserves ==
    ASSUME GroupInv, NEW u \in Editors, UNCHANGED <<group, doubled, leftOut>>,
           regroupings' \in 0..MaxRegroupings, NEW r \in Edit, edit' = [edit EXCEPT ![u] = r],
           r.held \cup ToSet(r.todo) \subseteq Existing
    PROVE  GroupInv'
<1>1. GroupTypeOK'
  BY DEF GroupInv, GroupTypeOK
<1>2. Existing' = Existing
  BY DEF Existing
<1>3. \A v \in Editors : edit'[v] = IF v = u THEN r ELSE edit[v]
  BY DEF GroupInv, GroupTypeOK
<1>4. SourcesInv'
  BY <1>2, <1>3 DEF GroupInv, SourcesInv
<1>5. NoneLost'
  BY <1>2 DEF GroupInv, NoneLost, Live
<1> QED
  BY <1>1, <1>4, <1>5 DEF GroupInv

\* A split or a merge begins.
LEMMA BeginPreserves ==
    ASSUME GroupInv, NEW u \in Editors, NEW sources \in Seq(Groups), NEW parts \in Seq(SUBSET Entities),
           ToSet(sources) \subseteq Existing, Begin(u, sources, parts)
    PROVE  GroupInv'
<1> DEFINE r == [NoEdit EXCEPT !.todo = sources, !.parts = parts]
<1>1. r \in Edit /\ r.held = {} /\ r.todo = sources
  <2>1. NoEdit \in Edit /\ NoEdit.held = {}
    BY EmptySeq DEF NoEdit, Edit
  <2> QED
    BY <2>1 DEF Edit
<1>2. edit' = [edit EXCEPT ![u] = r]
  BY DEF Begin
<1>3. regroupings' \in 0..MaxRegroupings /\ UNCHANGED <<group, doubled, leftOut>>
  BY GroupBounds DEF Begin, GroupInv, GroupTypeOK
<1> HIDE DEF r
<1> QED
  BY <1>1, <1>2, <1>3, OpenPreserves

\* A transaction takes its next source.
LEMMA SupersedePreserves ==
    ASSUME GroupInv, NEW u \in Editors, Supersede(u)
    PROVE  GroupInv'
<1> DEFINE g == Head(edit[u].todo)
           r == [edit[u] EXCEPT !.todo = Tail(@), !.held = @ \cup {g}]
<1>1. /\ edit[u] \in Edit /\ edit[u].todo \in Seq(Groups) /\ edit[u].todo # <<>>
      /\ edit[u].held \subseteq Existing /\ ToSet(edit[u].todo) \subseteq Existing
  BY DEF GroupInv, GroupTypeOK, Edit, SourcesInv, Supersede, Take
<1>2. /\ g \in Groups /\ g \in ToSet(edit[u].todo)
      /\ Tail(edit[u].todo) \in Seq(Groups)
      /\ ToSet(Tail(edit[u].todo)) \subseteq ToSet(edit[u].todo)
  <2>1. Len(edit[u].todo) \in Nat /\ Len(edit[u].todo) > 0 /\ DOMAIN edit[u].todo = 1..Len(edit[u].todo)
    BY <1>1, LenProperties, EmptySeq
  <2> QED
    BY <1>1, <2>1, HeadTailProperties DEF ToSet
<1>3. /\ r \in Edit /\ r.held = edit[u].held \cup {g} /\ r.todo = Tail(edit[u].todo)
  <2> HIDE DEF g
  <2> QED
    BY <1>1, <1>2 DEF Edit
<1>4. edit' = [edit EXCEPT ![u] = r]
  BY DEF Supersede, Take, GroupInv, GroupTypeOK
<1>5. UNCHANGED <<group, doubled, leftOut, regroupings>> /\ regroupings' \in 0..MaxRegroupings
  BY DEF Supersede, Take, GroupInv, GroupTypeOK
<1>6. r.held \cup ToSet(r.todo) \subseteq Existing
  <2> HIDE DEF g, r
  <2> QED
    BY <1>1, <1>2, <1>3
<1> HIDE DEF g, r
<1> QED
  BY <1>3, <1>4, <1>5, <1>6, OpenPreserves

\* It is rolled back.
LEMMA RollbackPreserves ==
    ASSUME GroupInv, NEW u \in Editors, RollbackRegrouping(u)
    PROVE  GroupInv'
<1>1. NoEdit \in Edit /\ NoEdit.held = {} /\ ToSet(NoEdit.todo) = {}
  BY EmptySeq DEF NoEdit, Edit, ToSet
<1>2. /\ edit' = [edit EXCEPT ![u] = NoEdit] /\ regroupings' \in 0..MaxRegroupings
      /\ UNCHANGED <<group, doubled, leftOut>>
  BY DEF RollbackRegrouping, GroupInv, GroupTypeOK
<1> QED
  BY <1>1, <1>2, OpenPreserves

\* A reviewer sets the status of a group that no open transaction holds.
LEMMA ReviewGroupPreserves ==
    ASSUME GroupInv, NEW u \in Editors, NEW g \in Groups, NEW status \in Decisions,
           ReviewGroup(u, g, status)
    PROVE  GroupInv'
<1>1. /\ group \in [Groups -> GroupRow] /\ group[g] \in GroupRow
      /\ status \in {"confirmed", "rejected"} /\ status \in GroupStatus
      /\ g \in Existing /\ UNCHANGED <<edit, leftOut, regroupings>>
      /\ group' = [group EXCEPT ![g].status = status]
  BY GroupBounds DEF GroupInv, GroupTypeOK, GroupRow, GroupStatus, ReviewGroup
<1>2. /\ group' \in [Groups -> GroupRow]
      /\ \A h \in Groups : /\ group'[h].members = group[h].members
                           /\ group'[h].status = IF h = g THEN status ELSE group[h].status
  BY <1>1 DEF GroupRow
<1>3. /\ doubled \subseteq doubled' /\ doubled' \subseteq Entities
      /\ group[g].status = "superseded" => group[g].members \subseteq doubled'
  BY <1>1 DEF ReviewGroup, MembersOf, Stale, GroupInv, GroupTypeOK, GroupRow
<1>4. GroupTypeOK'
  BY <1>1, <1>2, <1>3 DEF GroupInv, GroupTypeOK, GroupRow
<1>5. Existing' = Existing
  BY <1>1, <1>2 DEF Existing
<1>6. SourcesInv'
  BY <1>1, <1>5 DEF GroupInv, SourcesInv
<1>7. ASSUME NEW e \in Entities PROVE Live(e) \subseteq Live(e)'
  BY <1>1, <1>2, <1>5 DEF Live, Existing
<1>8. ASSUME NEW e \in Entities \ doubled' PROVE Live(e)' = Live(e)
  <2>1. e \in group[g].members => group[g].status # "superseded"
    BY <1>3
  <2> QED
    BY <1>1, <1>2, <1>5, <2>1 DEF Live, Existing
<1>9. NoneLost'
  BY <1>1, <1>3, <1>5, <1>7, <1>8, SMTT(30) DEF GroupInv, NoneLost
<1> QED
  BY <1>4, <1>6, <1>9 DEF GroupInv

\* What a commit leaves of each group: the sources are superseded, the other groups
\* are as they were, and a new group is made of one partition of the sources.
LEMMA CommitGroups ==
    ASSUME GroupInv, NEW u \in Editors, CommitRegrouping(u)
    PROVE  /\ group' \in [Groups -> GroupRow]
           /\ edit[u].held \subseteq Existing
           /\ \A g \in edit[u].held :
                  group'[g].status = "superseded" /\ group'[g].members = group[g].members
           /\ \A g \in Existing \ edit[u].held : group'[g] = group[g]
           /\ Fresh(u) \in [1..Len(edit[u].parts) -> Groups \ Existing]
           /\ \A i, j \in 1..Len(edit[u].parts) : Fresh(u)[i] = Fresh(u)[j] => i = j
           /\ \A i \in 1..Len(edit[u].parts) :
                  group'[Fresh(u)[i]] =
                      [status  |-> "needs_review",
                       members |-> edit[u].parts[i] \cap MembersOf(edit[u].held)]
           /\ \A g \in Groups \ Existing :
                  \/ group'[g] = group[g]
                  \/ \E i \in 1..Len(edit[u].parts) : g = Fresh(u)[i]
<1> DEFINE n == Len(edit[u].parts)
           held == edit[u].held
           f == Fresh(u)
           Part(g) == {i \in 1..n : f[i] = g}
           new(g) == [status |-> "needs_review",
                      members |-> UNION {edit[u].parts[i] \cap MembersOf(held) : i \in Part(g)}]
<1>1. /\ group \in [Groups -> GroupRow] /\ edit[u] \in Edit /\ edit[u].parts \in Seq(SUBSET Entities)
      /\ held \subseteq Existing /\ Existing \subseteq Groups
  BY DEF GroupInv, GroupTypeOK, GroupRow, SourcesInv, Edit, Existing
<1>2. /\ f \in [1..n -> Groups \ Existing]
      /\ \A i, j \in 1..n : f[i] = f[j] => i = j
  <2>1. f \in Injection(1..n, Groups \ Existing)
    BY <1>1, FreshIds DEF CommitRegrouping, GroupInv
  <2> QED
    BY <2>1, Fun_InjectionProperties
<1>3. group' = [g \in Groups |->
          IF g \in held THEN [group[g] EXCEPT !.status = "superseded"]
          ELSE IF g \in Existing \/ Part(g) = {} THEN group[g] ELSE new(g)]
  BY DEF CommitRegrouping, Regrouped
<1>4. \A i \in 1..n : edit[u].parts[i] \subseteq Entities
  BY <1>1, ElementOfSeq
<1> HIDE DEF n, held, f
<1>5. ASSUME NEW g \in Groups
      PROVE  /\ new(g) \in GroupRow
             /\ [group[g] EXCEPT !.status = "superseded"] \in GroupRow
             /\ [group[g] EXCEPT !.status = "superseded"].status = "superseded"
             /\ [group[g] EXCEPT !.status = "superseded"].members = group[g].members
  <2>1. group[g] \in GroupRow
    BY <1>1
  <2>2. UNION {edit[u].parts[i] \cap MembersOf(held) : i \in Part(g)} \subseteq Entities
    BY <1>4
  <2> QED
    BY <2>1, <2>2 DEF GroupRow, GroupStatus
<1>6. group' \in [Groups -> GroupRow]
  <2> HIDE DEF new, Part
  <2> QED
    BY <1>1, <1>3, <1>5
<1>7. ASSUME NEW i \in 1..n
      PROVE  group'[f[i]] = [status |-> "needs_review",
                             members |-> edit[u].parts[i] \cap MembersOf(held)]
  <2>1. f[i] \in Groups /\ f[i] \notin Existing /\ f[i] \notin held
    BY <1>1, <1>2
  <2>2. Part(f[i]) = {i}
    BY <1>2
  <2>3. new(f[i]).members = edit[u].parts[i] \cap MembersOf(held)
    BY <2>2
  <2>4. group'[f[i]] = new(f[i])
    BY <1>3, <2>1, <2>2
  <2> QED
    BY <2>3, <2>4
<1>8. \A g \in Groups \ Existing : group'[g] = group[g] \/ \E i \in 1..n : g = f[i]
  <2> SUFFICES ASSUME NEW g \in Groups \ Existing, \A i \in 1..n : g # f[i]
               PROVE  group'[g] = group[g]
    OBVIOUS
  <2>1. Part(g) = {} /\ g \notin held
    BY <1>1
  <2> QED
    BY <1>3, <2>1
<1>9. /\ \A g \in held : group'[g].status = "superseded" /\ group'[g].members = group[g].members
      /\ \A g \in Existing \ held : group'[g] = group[g]
  <2> HIDE DEF new, Part
  <2> QED
    BY <1>1, <1>3, <1>5
<1> QED
  BY <1>1, <1>2, <1>6, <1>7, <1>8, <1>9 DEF n, held, f

\* A commit moves every entity that one partition names from the one source it lived in
\* to one new group, and leaves every other entity where it was.
LEMMA CommitRegroupingPreserves ==
    ASSUME GroupInv, NEW u \in Editors, CommitRegrouping(u)
    PROVE  GroupInv'
<1> DEFINE held == edit[u].held
           parts == edit[u].parts
           f == Fresh(u)
<1>1. /\ group' \in [Groups -> GroupRow] /\ group \in [Groups -> GroupRow]
      /\ held \subseteq Existing /\ Existing \subseteq Groups
      /\ \A g \in held : group'[g].status = "superseded" /\ group'[g].members = group[g].members
      /\ \A g \in Existing \ held : group'[g] = group[g]
      /\ f \in [1..Len(parts) -> Groups \ Existing]
      /\ \A i, j \in 1..Len(parts) : f[i] = f[j] => i = j
      /\ \A i \in 1..Len(parts) :
             group'[f[i]] = [status |-> "needs_review", members |-> parts[i] \cap MembersOf(held)]
      /\ \A g \in Groups \ Existing : group'[g] = group[g] \/ \E i \in 1..Len(parts) : g = f[i]
  BY CommitGroups DEF GroupInv, GroupTypeOK, GroupRow, Existing
<1>2. edit \in [Editors -> Edit] /\ parts \in Seq(SUBSET Entities)
  BY DEF GroupInv, GroupTypeOK, Edit
<1>3. /\ edit' = [edit EXCEPT ![u] = NoEdit] /\ UNCHANGED regroupings
      /\ doubled' = doubled \cup MembersOf(Stale(held)) \cup (NamedTwice(parts) \cap MembersOf(held))
      /\ leftOut' = leftOut \cup (MembersOf(held) \ UNION ToSet(parts))
  BY DEF CommitRegrouping
<1> HIDE DEF held, parts, f
<1>4. NoEdit \in Edit /\ NoEdit.held = {} /\ ToSet(NoEdit.todo) = {}
  BY EmptySeq DEF NoEdit, Edit, ToSet
<1>5. MembersOf(held) \subseteq Entities /\ MembersOf(Stale(held)) \subseteq Entities
  BY <1>1 DEF MembersOf, Stale, GroupRow
<1>6. \A i \in 1..Len(parts) :
          /\ f[i] \in Groups \ Existing
          /\ group'[f[i]].members = parts[i] \cap MembersOf(held)
          /\ group'[f[i]].status = "needs_review"
  <2> SUFFICES ASSUME NEW i \in 1..Len(parts)
               PROVE  /\ f[i] \in Groups \ Existing
                      /\ group'[f[i]].members = parts[i] \cap MembersOf(held)
                      /\ group'[f[i]].status = "needs_review"
    OBVIOUS
  <2>1. group'[f[i]] = [status |-> "needs_review", members |-> parts[i] \cap MembersOf(held)]
    BY <1>1
  <2>2. f[i] \in Groups \ Existing
    BY <1>1
  <2> QED
    BY <2>1, <2>2
<1>7. GroupTypeOK'
  BY <1>1, <1>2, <1>3, <1>4, <1>5 DEF GroupInv, GroupTypeOK, GroupRow
<1>8. Existing \subseteq Existing'
  BY <1>1 DEF Existing
<1>9. SourcesInv'
  <2>1. \A v \in Editors : edit'[v] = IF v = u THEN NoEdit ELSE edit[v]
    BY <1>2, <1>3
  <2> QED
    BY <1>4, <1>8, <2>1 DEF GroupInv, SourcesInv
<1>10. ASSUME NEW e \in Entities \ leftOut', e \notin MembersOf(held)
       PROVE  Live(e)' = Live(e)
  <2>1. ASSUME NEW h \in Live(e) PROVE h \in Live(e)'
    <3>1. h \in Existing /\ h \notin held
      BY <1>10 DEF Live, MembersOf
    <3> QED
      BY <1>1, <1>8, <3>1 DEF Live
  <2>2. ASSUME NEW h \in Live(e)' PROVE h \in Live(e)
    <3>1. /\ h \in Groups /\ group'[h].status \notin {"superseded", "absent"}
          /\ e \in group'[h].members
      BY DEF Live, Existing
    <3>2. CASE h \in Existing
      BY <1>1, <3>1, <3>2 DEF Live
    <3>3. CASE h \notin Existing
      <4>1. group'[h] # group[h]
        BY <3>1, <3>3 DEF Existing
      <4>2. PICK j \in 1..Len(parts) : h = f[j]
        BY <1>1, <3>1, <3>3, <4>1
      <4> QED
        BY <1>6, <1>10, <3>1, <4>2
    <3> QED
      BY <3>2, <3>3
  <2> QED
    BY <2>1, <2>2
<1>11. ASSUME NEW e \in Entities \ leftOut', e \in MembersOf(held)
       PROVE  /\ Live(e)' # {}
              /\ e \in doubled' \/ \E g \in Existing' : Live(e)' = {g}
  <2>1. PICK i \in 1..Len(parts) : e \in parts[i]
    <3>1. e \in UNION ToSet(parts)
      BY <1>3, <1>11
    <3>2. DOMAIN parts = 1..Len(parts)
      BY <1>2, LenProperties
    <3> QED
      BY <3>1, <3>2 DEF ToSet
  <2>2. f[i] \in Existing' /\ f[i] \in Live(e)'
    BY <1>6, <1>11, <2>1 DEF Live, Existing
  <2>3. ASSUME e \notin doubled', NEW h \in Live(e)' PROVE h = f[i]
    <3>1. /\ h \in Groups /\ group'[h].status \notin {"superseded", "absent"}
          /\ e \in group'[h].members
      BY DEF Live, Existing
    <3>2. \A j \in 1..Len(parts) : e \in parts[j] => j = i
      BY <1>3, <1>11, <2>1, <2>3 DEF NamedTwice
    <3>3. PICK g \in held : e \in group[g].members
      BY <1>11 DEF MembersOf
    <3>4. g \in Live(e)
      <4>1. g \notin Stale(held)
        BY <1>3, <2>3, <3>3 DEF MembersOf
      <4> QED
        BY <1>1, <3>3, <4>1 DEF Live, Stale
    <3>5. Live(e) = {g}
      <4>1. e \in Entities \ leftOut /\ e \notin doubled
        BY <1>3, <2>3
      <4> QED
        BY <3>4, <4>1 DEF GroupInv, NoneLost
    <3>6. CASE h \in Existing
      <4>1. h \notin held
        BY <1>1, <3>1
      <4>2. group'[h] = group[h]
        BY <1>1, <3>6, <4>1
      <4>3. h \in Live(e)
        BY <3>1, <3>6, <4>2 DEF Live
      <4> QED
        BY <3>3, <3>5, <4>1, <4>3
    <3>7. CASE h \notin Existing
      <4>1. group'[h] # group[h]
        BY <3>1, <3>7 DEF Existing
      <4>2. PICK j \in 1..Len(parts) : h = f[j]
        BY <1>1, <3>1, <3>7, <4>1
      <4>3. e \in parts[j]
        BY <1>6, <3>1, <4>2
      <4> QED
        BY <3>2, <4>2, <4>3
    <3> QED
      BY <3>6, <3>7
  <2> QED
    BY <2>2, <2>3
<1>12. NoneLost'
  <2>1. ASSUME NEW e \in Entities \ leftOut', e \notin MembersOf(held)
        PROVE  /\ Live(e)' # {}
               /\ e \in doubled' \/ \E g \in Existing' : Live(e)' = {g}
    <3>1. e \in Entities \ leftOut /\ doubled \subseteq doubled'
      BY <1>3
    <3> QED
      BY <1>8, <1>10, <2>1, <3>1 DEF GroupInv, NoneLost
  <2> QED
    BY <1>11, <2>1 DEF NoneLost
<1> QED
  BY <1>7, <1>9, <1>12 DEF GroupInv

\* Every step and every stutter.
LEMMA GroupStep == GroupInv /\ [GroupNext]_groupVars => GroupInv'
<1> SUFFICES ASSUME GroupInv, [GroupNext]_groupVars PROVE GroupInv'
  OBVIOUS
<1>1. ASSUME NEW u \in Editors, NEW g \in Groups, NEW parts \in Partitions, HandleSplitGroup(u, g, parts)
      PROVE  GroupInv'
  <2>1. parts \in Seq(SUBSET Entities)
    <3>1. Seq((SUBSET Entities) \ {{}}) \subseteq Seq(SUBSET Entities)
      BY SeqMonotonic
    <3> QED
      BY <3>1, GroupBounds
  <2>2. <<g>> \in Seq(Groups) /\ ToSet(<<g>>) = {g}
    BY DEF ToSet
  <2> QED
    BY <1>1, <2>1, <2>2, BeginPreserves DEF HandleSplitGroup
<1>2. ASSUME NEW u \in Editors, NEW g \in Groups, NEW h \in Groups, HandleMergeGroups(u, <<g, h>>)
      PROVE  GroupInv'
  <2>1. <<Entities>> \in Seq(SUBSET Entities) /\ <<g, h>> \in Seq(Groups)
    OBVIOUS
  <2> QED
    BY <1>2, <2>1, BeginPreserves DEF HandleMergeGroups
<1>3. CASE UNCHANGED groupVars
  BY <1>3 DEF groupVars, GroupInv, GroupTypeOK, SourcesInv, NoneLost, Existing, Live
<1> QED
  BY <1>1, <1>2, <1>3, SupersedePreserves, CommitRegroupingPreserves, RollbackPreserves,
     ReviewGroupPreserves DEF GroupNext

\* However splits, merges and reviews interleave, race and are rolled back, and over any
\* number of groups, entities and editors, no entity is lost that a split did not leave
\* out, and none is in two groups but by the doubling that the handlers let through
\* (humanoverride.go:141-298, review.go:131-199).
THEOREM NoEntityLost == GroupSpec => []NoneLost
<1>1. GroupInv => NoneLost
  BY DEF GroupInv
<1> QED
  BY GroupInitInv, GroupStep, <1>1, PTL DEF GroupSpec

-----------------------------------------------------------------------------
(* The API.                                                                *)

\* Reports, requests and the subscription keep their types.
LEMMA ReportTyped == ReportSpec => []ReportTypeOK
<1>1. ReportInv => ReportTypeOK
  <2> SUFFICES ASSUME ReportInv PROVE ReportTypeOK
    OBVIOUS
  <2>1. IsFiniteSet(ToAudit) /\ IsFiniteSet(ToInsert) /\ IsFiniteSet(Unsettled)
    BY ReportBounds, FS_Subset DEF ToAudit, ToInsert, Unsettled, At
  <2>2. /\ Cardinality(ToAudit) \in Nat /\ Cardinality(ToInsert) \in Nat
        /\ Cardinality(Unsettled) \in Nat
    BY <2>1, FS_CardinalityType
  <2>3. reports \in 0..MaxReports /\ audited \in 0..MaxReports /\ lostDisables \in 0..MaxReports
    BY <2>2, ReportBounds DEF ReportInv, ReportShape, CountsInv
  <2> QED
    BY <2>3 DEF ReportInv, ReportShape, AttemptRow, ReportTypeOK
<1> QED
  BY ReportInitInv, ReportStep, <1>1, PTL DEF ReportSpec

\* So do the groups and the transactions that regroup them.
LEMMA GroupTyped == GroupSpec => []GroupTypeOK
<1>1. GroupInv => GroupTypeOK
  BY DEF GroupInv
<1> QED
  BY GroupInitInv, GroupStep, <1>1, PTL DEF GroupSpec

\* Whatever area is explored, each component takes its own steps or none.
LEMMA ComponentsRun ==
    Spec => /\ PeriodSpec /\ ReviewSpec /\ ReportSpec /\ LoginSpec
            /\ BillingSpec /\ TenantSpec /\ GroupSpec /\ KeySpec
<1>1. Init => /\ PeriodInit /\ ReviewInit /\ ReportInit /\ LoginInit
              /\ BillingInit /\ TenantInit /\ GroupInit /\ KeyInit
  BY DEF Init
<1>2. [Next]_apiVars => /\ [PeriodNext]_periodVars /\ [ReviewNext]_reviewVars
                        /\ [ReportNext]_reportVars /\ [LoginNext]_loginVars
                        /\ [BillingNext]_billingVars /\ [TenantNext]_tenantVars
                        /\ [GroupNext]_groupVars /\ [KeyNext]_keyVars
  BY DEF Next, Periodic, Reviewing, Reporting, LoggingIn, Billing, Scoping, Grouping, Rotating, apiVars
<1> QED
  BY <1>1, <1>2, PTL
  DEF Spec, PeriodSpec, ReviewSpec, ReportSpec, LoginSpec, BillingSpec, TenantSpec, GroupSpec, KeySpec

\* Every variable of the API keeps its type, whichever areas are explored.
THEOREM TypesHold == Spec => []TypeOK
<1> DEFINE Chosen == area \in Areas
<1>1. Init => Chosen
  BY DEF Init
<1>2. Chosen /\ [Next]_apiVars => Chosen'
  BY DEF Next, Periodic, Reviewing, Reporting, LoggingIn, Billing, Scoping, Grouping, Rotating, apiVars
<1>3. /\ Chosen /\ PeriodTypeOK /\ ReviewTypeOK /\ ReportTypeOK /\ LoginTypeOK
      /\ BillingTypeOK /\ TenantTypeOK /\ GroupTypeOK /\ KeyTypeOK
      => TypeOK
  BY DEF TypeOK
<1> HIDE DEF Chosen
<1> QED
  BY ComponentsRun, PeriodTyped, ReviewTyped, ReportTyped, LoginTyped, BillingTyped, TenantTyped,
     GroupTyped, KeyTyped, <1>1, <1>2, <1>3, PTL DEF Spec
=============================================================================
