---------------------------- MODULE ReportDelivery ----------------------------
(***************************************************************************)
(* Report generation with its idempotency key, its audit row and the       *)
(* webhook it sends (findings.go HandleGenerateReport, idempotency.go,     *)
(* auditlog.go, webhooks.go).                                              *)
(*                                                                         *)
(* One user sends one key over several requests: retries, or copies that   *)
(* race. Everything runs inside the request: the webhook is delivered      *)
(* before the response is stored, on the request's own context, which a    *)
(* client that goes away or the 30 s limit of the router cancels.          *)
(***************************************************************************)
EXTENDS Naturals, FiniteSets

CONSTANTS
    Attempts,           \* requests with the key, open at the same time
    Outcomes,           \* of a delivery: subset of {"accepted", "refused", "hangs"}
    MaxReports,         \* bound on the reports made
    MaxReportFaults     \* bound on the statements that fail

ASSUME ReportBounds ==
    /\ MaxReports \in Nat /\ MaxReportFaults \in Nat
    /\ IsFiniteSet(Attempts)

VARIABLES
    reports,        \* rows of audit_reports
    audited,        \* rows of access_log for generate_report
    keyRow,         \* the row of idempotency_keys, and whether it is within its TTL
    hook,           \* the row of webhook_subscriptions
    attempt,        \* attempt[a]: the request a
    answered,       \* a 201 was sent within the last 24 hours
    lostDisables,   \* times the failure was counted and the disabling was lost
    reportFaults

reportVars == <<reports, audited, keyRow, hook, attempt, answered, lostDisables, reportFaults>>

ReportStatement == {"idle", "insert", "audit", "match", "deliver", "failure", "disable", "store"}

ReportTypeOK ==
    /\ reports \in 0..MaxReports
    /\ audited \in 0..MaxReports
    /\ keyRow \in {"none", "fresh", "expired"}
    /\ hook \in [enabled: BOOLEAN, failures: Nat]
    /\ attempt \in [Attempts -> [next: ReportStatement, live: BOOLEAN, retry: BOOLEAN]]
    /\ answered \in BOOLEAN
    /\ lostDisables \in 0..MaxReports
    /\ reportFaults \in 0..MaxReportFaults

NoAttempt == [next |-> "idle", live |-> TRUE, retry |-> FALSE]

ReportInit ==
    /\ reports = 0 /\ audited = 0
    /\ keyRow = "none"
    /\ hook = [enabled |-> TRUE, failures |-> 0]
    /\ attempt = [a \in Attempts |-> NoAttempt]
    /\ answered = FALSE
    /\ lostDisables = 0 /\ reportFaults = 0

Proceed(a, statement) == attempt' = [attempt EXCEPT ![a].next = statement]
FinishAttempt(a) == attempt' = [attempt EXCEPT ![a] = NoAttempt]

\* A fresh row is replayed and nothing else happens. Otherwise, and also when
\* the lookup itself fails, the handler runs; expired rows are never deleted.
Lookup(a) ==
    /\ attempt[a].next = "idle"
    /\ keyRow # "fresh"
    /\ reports + Cardinality({b \in Attempts : attempt[b].next = "insert"}) < MaxReports
    /\ attempt' = [attempt EXCEPT ![a] = [next |-> "insert", live |-> TRUE, retry |-> answered]]
    /\ UNCHANGED <<reports, audited, keyRow, hook, answered, lostDisables, reportFaults>>

LookupFails(a) ==
    /\ attempt[a].next = "idle"
    /\ reportFaults < MaxReportFaults
    /\ reportFaults' = reportFaults + 1
    /\ reports + Cardinality({b \in Attempts : attempt[b].next = "insert"}) < MaxReports
    /\ attempt' = [attempt EXCEPT ![a] = [next |-> "insert", live |-> TRUE, retry |-> answered]]
    /\ UNCHANGED <<reports, audited, keyRow, hook, answered, lostDisables>>

\* Mutant: the insert is run again without another look at the key.
InsertAgain(a) ==
    /\ attempt[a].next = "insert"
    /\ attempt[a].live
    /\ reports' = reports + 1
    /\ UNCHANGED <<audited, keyRow, hook, attempt, answered, lostDisables, reportFaults>>

InsertReport(a) ==
    /\ attempt[a].next = "insert"
    /\ attempt[a].live
    /\ reports' = reports + 1
    /\ Proceed(a, "audit")
    /\ UNCHANGED <<audited, keyRow, hook, answered, lostDisables, reportFaults>>

\* Mutant: the row is written on the request's own context.
RecordWhileLive(a) ==
    /\ attempt[a].next = "audit"
    /\ audited' = IF attempt[a].live THEN audited + 1 ELSE audited
    /\ Proceed(a, "match")
    /\ UNCHANGED <<reports, keyRow, hook, answered, lostDisables, reportFaults>>

\* RecordAccess cuts its write loose from the request's cancellation.
RecordAccess(a) ==
    /\ attempt[a].next = "audit"
    /\ audited' = audited + 1
    /\ Proceed(a, "match")
    /\ UNCHANGED <<reports, keyRow, hook, answered, lostDisables, reportFaults>>

\* Mutant: disabled subscriptions are selected too.
MatchAll(a) ==
    /\ attempt[a].next = "match"
    /\ Proceed(a, IF attempt[a].live THEN "deliver" ELSE "store")
    /\ UNCHANGED <<reports, audited, keyRow, hook, answered, lostDisables, reportFaults>>

\* An error in selecting the subscriptions is logged and ends the delivery.
MatchSubscriptions(a) ==
    /\ attempt[a].next = "match"
    /\ Proceed(a, IF hook.enabled /\ attempt[a].live THEN "deliver" ELSE "store")
    /\ UNCHANGED <<reports, audited, keyRow, hook, answered, lostDisables, reportFaults>>

\* Four tries of at most 10 s each, with 3.9 s of pauses: an endpoint that never
\* answers outlasts the request, and its context is dead when the tries are over.
DeliverEvent(a, outcome) ==
    /\ attempt[a].next = "deliver"
    /\ outcome = "accepted" => attempt[a].live
    /\ attempt' = [attempt EXCEPT
           ![a].next = IF outcome = "accepted" THEN "store" ELSE "failure",
           ![a].live = @ /\ outcome # "hangs"]
    /\ UNCHANGED <<reports, audited, keyRow, hook, answered, lostDisables, reportFaults>>

DisableAfter == 3

\* The counter goes up on every failed delivery and no success resets it.
CountFailure(a) ==
    /\ attempt[a].next = "failure"
    /\ attempt[a].live
    /\ hook' = [hook EXCEPT !.failures = @ + 1]
    /\ Proceed(a, IF hook'.failures >= DisableAfter THEN "disable" ELSE "store")
    /\ UNCHANGED <<reports, audited, keyRow, answered, lostDisables, reportFaults>>

Disable(a) ==
    /\ attempt[a].next = "disable"
    /\ attempt[a].live
    /\ hook' = [hook EXCEPT !.enabled = FALSE]
    /\ Proceed(a, "store")
    /\ UNCHANGED <<reports, audited, keyRow, answered, lostDisables, reportFaults>>

\* StoreIdempotentResponse: ON CONFLICT DO NOTHING, so a row that has expired
\* stays as it is; the response goes out whether or not it was stored.
StoreResponse(a) ==
    /\ attempt[a].next = "store"
    /\ attempt[a].live
    /\ keyRow' = IF keyRow = "none" THEN "fresh" ELSE keyRow
    /\ answered' = TRUE
    /\ FinishAttempt(a)
    /\ UNCHANGED <<reports, audited, hook, lostDisables, reportFaults>>

(***************************************************************************)
(* What goes wrong: the client leaves, a statement fails, a day passes.    *)
(***************************************************************************)
GiveUp(a) ==
    /\ attempt[a].next # "idle"
    /\ attempt[a].live
    /\ attempt' = [attempt EXCEPT ![a].live = FALSE]
    /\ UNCHANGED <<reports, audited, keyRow, hook, answered, lostDisables, reportFaults>>

\* Where a statement that cannot be run leaves the handler: only the insert of
\* the report refuses the request, every other error is logged and passed over.
AfterError(statement) ==
    CASE statement = "audit" -> "match"
      [] statement \in {"failure", "disable"} -> "store"
      [] OTHER -> "idle"

Abandon(a) ==
    /\ IF AfterError(attempt[a].next) = "idle" THEN FinishAttempt(a) ELSE Proceed(a, AfterError(attempt[a].next))
    /\ lostDisables' = IF attempt[a].next = "disable" THEN lostDisables + 1 ELSE lostDisables

\* A dead context refuses every statement but the audit row.
DeadContext(a) ==
    /\ attempt[a].next \in {"insert", "failure", "disable", "store"}
    /\ ~attempt[a].live
    /\ Abandon(a)
    /\ UNCHANGED <<reports, audited, keyRow, hook, answered, reportFaults>>

ReportStatementFails(a) ==
    /\ attempt[a].next \in {"insert", "audit", "failure", "disable", "store"}
    /\ attempt[a].live
    /\ reportFaults < MaxReportFaults
    /\ reportFaults' = reportFaults + 1
    /\ Abandon(a)
    /\ answered' = (answered \/ attempt[a].next = "store")
    /\ UNCHANGED <<reports, audited, keyRow, hook>>

\* The report is committed, and the handler sees an error and answers 500.
InsertReplyLost(a) ==
    /\ attempt[a].next = "insert"
    /\ reportFaults < MaxReportFaults
    /\ reportFaults' = reportFaults + 1
    /\ reports' = reports + 1
    /\ FinishAttempt(a)
    /\ UNCHANGED <<audited, keyRow, hook, answered, lostDisables>>

\* No request lives anywhere near 24 hours.
DayPasses ==
    /\ \A a \in Attempts : attempt[a].next = "idle"
    /\ answered \/ keyRow = "fresh"
    /\ keyRow' = IF keyRow = "fresh" THEN "expired" ELSE keyRow
    /\ answered' = FALSE
    /\ UNCHANGED <<reports, audited, hook, attempt, lostDisables, reportFaults>>

AttemptStep(a) ==
    \/ Lookup(a) \/ LookupFails(a) \/ InsertReport(a) \/ RecordAccess(a) \/ MatchSubscriptions(a)
    \/ \E outcome \in Outcomes : DeliverEvent(a, outcome)
    \/ CountFailure(a) \/ Disable(a) \/ StoreResponse(a)
    \/ GiveUp(a) \/ DeadContext(a) \/ ReportStatementFails(a) \/ InsertReplyLost(a)

ReportNext == DayPasses \/ \E a \in Attempts : AttemptStep(a)

ReportSpec == ReportInit /\ [][ReportNext]_reportVars

------------------------------------------------------------------------------
(***************************************************************************)
(* Every report is on the access log, whoever hangs up when: only a        *)
(* statement that fails, or whose reply is lost, costs a row               *)
(* (findings.go:415-434, auditlog.go:45-61).                               *)
(***************************************************************************)
ReportsAudited ==
    reports <= audited + reportFaults + Cardinality({a \in Attempts : attempt[a].next = "audit"})

(***************************************************************************)
(* A subscription takes at most two failures, one more for every request   *)
(* under way and one for every disabling that was lost after its failure   *)
(* was counted: the two are separate statements on a context that may die  *)
(* in between (webhooks.go:142-158).                                       *)
(***************************************************************************)
FailuresBounded == hook.failures < DisableAfter + Cardinality(Attempts) + lostDisables

(***************************************************************************)
(* What idempotency.go:3-5 promises: a retry, within 24 hours, of a        *)
(* request that was answered returns the cached response and makes no      *)
(* report. A key that was used before and has expired refutes it.          *)
(***************************************************************************)
AnsweredIsReplayed == \A a \in Attempts : attempt[a].next # "idle" => ~attempt[a].retry
==============================================================================
