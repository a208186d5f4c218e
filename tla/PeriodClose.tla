------------------------------ MODULE PeriodClose ------------------------------
(***************************************************************************)
(* Reconciliation periods, document requests and the reminder sweep        *)
(* (services/api/internal/periods, services/api/internal/notify).          *)
(*                                                                         *)
(* Every request handler runs on a connection in autocommit mode, so a     *)
(* handler of several statements is several steps: the desk of a user      *)
(* holds what its handler has read so far and which statement comes next.  *)
(* The reminder job is the same: it reads its candidates once and then     *)
(* updates them one by one.                                                *)
(*                                                                         *)
(* A nullable column is a set with at most one member.                     *)
(***************************************************************************)
EXTENDS Integers, FiniteSets

CONSTANTS
    Periods,            \* the date ranges somebody may ask a period for
    Span,               \* Span[p]: the set of days of p, both ends included
    Requests,           \* document requests that may be created
    Desks,              \* users of the book, one open request each
    Sweeps,             \* API processes, each with one reminder job
    TextDates,          \* those whose connection string asks for the simple protocol
    Sides,              \* of the lines posted: subset of {"debits", "credits"}
    MaxPostings,        \* bound on the general ledger lines of a period
    MaxPeriodCalls,     \* bound on the create, close and reopen requests
    MaxPeriodFaults     \* bound on the statements that fail

ASSUME PeriodBounds ==
    /\ Sides \subseteq {"debits", "credits"}
    /\ MaxPostings \in Nat
    /\ MaxPeriodCalls \in Nat
    /\ MaxPeriodFaults \in Nat
    /\ TextDates \subseteq Sweeps /\ IsFiniteSet(TextDates)

VARIABLES
    period,         \* period[p]: the row of reconciliation_periods
    docRequest,     \* docRequest[q]: the row of document_requests
    ledger,         \* ledger[p]: debit and credit lines dated inside p
    reopenLog,      \* periods with a row in period_reopen_log
    desk,           \* desk[d]: the handler that user d is in
    sweeping,       \* sweeping[s]: candidates read by job s and not yet bumped
    unseen,         \* unseen[p]: periods inserted between the check and the insert of p
    periodCalls, periodFaults

periodVars ==
    <<period, docRequest, ledger, reopenLog, desk, sweeping, unseen, periodCalls, periodFaults>>
deskVars == <<desk, periodCalls>>

PeriodStatus == {"absent", "open", "pending_close", "closed", "reopened"}
Lines == [debits: 0..MaxPostings, credits: 0..MaxPostings]
PeriodRow == [status: PeriodStatus, closedBy: SUBSET Desks, balance: SUBSET Lines]
RequestRow == [status: {"absent", "pending", "waived"}, for: SUBSET Periods,
               overdue: BOOLEAN, reminders: Nat]
PeriodStatement == {"idle", "insert", "count", "balance", "close", "reopen", "log"}
DeskState == [next: PeriodStatement, on: SUBSET Periods, seen: SUBSET Periods, balance: SUBSET Lines]

PeriodTypeOK ==
    /\ period \in [Periods -> PeriodRow]
    /\ docRequest \in [Requests -> RequestRow]
    /\ ledger \in [Periods -> Lines]
    /\ reopenLog \subseteq Periods
    /\ desk \in [Desks -> DeskState]
    /\ sweeping \in [Sweeps -> SUBSET Requests]
    /\ unseen \in [Periods -> SUBSET Periods]
    /\ periodCalls \in 0..MaxPeriodCalls
    /\ periodFaults \in 0..MaxPeriodFaults

AtRest == [next |-> "idle", on |-> {}, seen |-> {}, balance |-> {}]

Overlap(p, q) == Span[p] \cap Span[q] # {}

\* Some periods, none overlapping another, were opened before.
PeriodInit ==
    /\ \E old \in SUBSET Periods :
           /\ \A p, q \in old : p # q => ~Overlap(p, q)
           /\ period = [p \in Periods |->
                  [status |-> IF p \in old THEN "open" ELSE "absent", closedBy |-> {}, balance |-> {}]]
    /\ docRequest = [q \in Requests |->
           [status |-> "absent", for |-> {}, overdue |-> FALSE, reminders |-> 0]]
    /\ ledger = [p \in Periods |-> [debits |-> 0, credits |-> 0]]
    /\ reopenLog = {}
    /\ desk = [d \in Desks |-> AtRest]
    /\ sweeping = [s \in Sweeps |-> {}]
    /\ unseen = [p \in Periods |-> {}]
    /\ periodCalls = 0 /\ periodFaults = 0

Present == {p \in Periods : period[p].status # "absent"}
PendingFor(p) == {q \in Requests : docRequest[q].status = "pending" /\ p \in docRequest[q].for}
Enter(d, at, p, seen) ==
    /\ desk[d].next = "idle"
    /\ periodCalls < MaxPeriodCalls
    /\ periodCalls' = periodCalls + 1
    /\ desk' = [desk EXCEPT ![d] = [next |-> at, on |-> {p}, seen |-> seen, balance |-> {}]]
Goto(d, at) == desk' = [desk EXCEPT ![d].next = at] /\ UNCHANGED periodCalls
LeaveDesk(d) == desk' = [desk EXCEPT ![d] = AtRest] /\ UNCHANGED periodCalls

(***************************************************************************)
(* HandleCreatePeriod: the overlap test, then the insert.                  *)
(***************************************************************************)
\* Mutant: ranges that share only their end day pass.
CheckInside(d, p) ==
    /\ \A q \in Present : Cardinality(Span[p] \cap Span[q]) < 2
    /\ Enter(d, "insert", p, Present)
    /\ UNCHANGED <<period, docRequest, ledger, reopenLog, sweeping, unseen, periodFaults>>

CheckOverlap(d, p) ==
    /\ \A q \in Present : ~Overlap(p, q)
    /\ Enter(d, "insert", p, Present)
    /\ UNCHANGED <<period, docRequest, ledger, reopenLog, sweeping, unseen, periodFaults>>

\* UNIQUE (client_book_id, period_start, period_end) refuses the same dates again.
InsertPeriod(d) ==
    /\ desk[d].next = "insert"
    /\ \E p \in desk[d].on \ Present :
           /\ period' = [period EXCEPT ![p].status = "open"]
           /\ unseen' = [unseen EXCEPT ![p] = Present \ desk[d].seen]
    /\ LeaveDesk(d)
    /\ UNCHANGED <<docRequest, ledger, reopenLog, sweeping, periodFaults>>

InsertRefused(d) ==
    /\ desk[d].next = "insert"
    /\ desk[d].on \subseteq Present
    /\ LeaveDesk(d)
    /\ UNCHANGED <<period, docRequest, ledger, reopenLog, sweeping, unseen, periodFaults>>

(***************************************************************************)
(* HandleClosePeriod: status, pending requests, trial balance, vendor      *)
(* baselines, and an UPDATE that repeats none of the conditions.           *)
(***************************************************************************)
\* Mutant: a reopened period can be closed like any other.
ClosableAgain == {"open", "pending_close", "reopened"}
Closable == {"open", "pending_close"}

ReadForClose(d, p) ==
    /\ period[p].status \in Closable
    /\ Enter(d, "count", p, {})
    /\ UNCHANGED <<period, docRequest, ledger, reopenLog, sweeping, unseen, periodFaults>>

CountPending(d) ==
    /\ desk[d].next = "count"
    /\ \E p \in desk[d].on :
           IF PendingFor(p) = {} THEN Goto(d, "balance") ELSE LeaveDesk(d)
    /\ UNCHANGED <<period, docRequest, ledger, reopenLog, sweeping, unseen, periodFaults>>

\* Without general ledger lines both sums are NULL and so is the verdict.
TrialBalance(p) == IF ledger[p] = [debits |-> 0, credits |-> 0] THEN {} ELSE {ledger[p]}

\* The vendor baselines upserted next are read by no handler, and their error
\* is lost when the rows are closed unread.
ComputeBalance(d) ==
    /\ desk[d].next = "balance"
    /\ \E p \in desk[d].on :
           desk' = [desk EXCEPT ![d] =
               [next |-> "close", on |-> {p}, seen |-> {}, balance |-> TrialBalance(p)]]
    /\ UNCHANGED <<period, docRequest, ledger, reopenLog, sweeping, unseen, periodCalls, periodFaults>>

Closed(d) == [status |-> "pending_close", closedBy |-> {d}, balance |-> desk[d].balance]

MarkClosed(d) ==
    /\ desk[d].next = "close"
    /\ \E p \in desk[d].on : period' = [period EXCEPT ![p] = Closed(d)]
    /\ LeaveDesk(d)
    /\ UNCHANGED <<docRequest, ledger, reopenLog, sweeping, unseen, periodFaults>>

(***************************************************************************)
(* HandleReopenPeriod: status, UPDATE, and the record of it.               *)
(***************************************************************************)
ReadForReopen(d, p) ==
    /\ period[p].status \in {"pending_close", "closed"}
    /\ Enter(d, "reopen", p, {})
    /\ UNCHANGED <<period, docRequest, ledger, reopenLog, sweeping, unseen, periodFaults>>

Reopened == [status |-> "reopened", closedBy |-> {}, balance |-> {}]

\* Mutant: no record is written.
ReopenSilently(d) ==
    /\ desk[d].next = "reopen"
    /\ \E p \in desk[d].on : period' = [period EXCEPT ![p] = Reopened]
    /\ LeaveDesk(d)
    /\ UNCHANGED <<docRequest, ledger, reopenLog, sweeping, unseen, periodFaults>>

MarkReopened(d) ==
    /\ desk[d].next = "reopen"
    /\ \E p \in desk[d].on : period' = [period EXCEPT ![p] = Reopened]
    /\ Goto(d, "log")
    /\ UNCHANGED <<docRequest, ledger, reopenLog, sweeping, unseen, periodFaults>>

LogReopen(d) ==
    /\ desk[d].next = "log"
    /\ reopenLog' = reopenLog \cup desk[d].on
    /\ LeaveDesk(d)
    /\ UNCHANGED <<period, docRequest, ledger, sweeping, unseen, periodFaults>>

\* A statement fails: a 500, and what was written before it stays.
PeriodStatementFails(d) ==
    /\ desk[d].next # "idle"
    /\ periodFaults < MaxPeriodFaults
    /\ periodFaults' = periodFaults + 1
    /\ LeaveDesk(d)
    /\ UNCHANGED <<period, docRequest, ledger, reopenLog, sweeping, unseen>>

(***************************************************************************)
(* Document requests, the ledger, and the reminder job.                    *)
(***************************************************************************)
\* The status of the period is not looked at.
CreateDocumentRequest(q, p) ==
    /\ docRequest[q].status = "absent"
    /\ p \in Present
    /\ docRequest' = [docRequest EXCEPT ![q] =
           [status |-> "pending", for |-> {p}, overdue |-> FALSE, reminders |-> 0]]
    /\ UNCHANGED <<period, ledger, reopenLog, deskVars, sweeping, unseen, periodFaults>>

WaiveDocumentRequest(q) ==
    /\ docRequest[q].status = "pending"
    /\ docRequest' = [docRequest EXCEPT ![q].status = "waived"]
    /\ UNCHANGED <<period, ledger, reopenLog, deskVars, sweeping, unseen, periodFaults>>

\* Five days pass (reminderWindow).
FallOverdue(q) ==
    /\ docRequest[q].status = "pending"
    /\ ~docRequest[q].overdue
    /\ docRequest' = [docRequest EXCEPT ![q].overdue = TRUE]
    /\ UNCHANGED <<period, ledger, reopenLog, deskVars, sweeping, unseen, periodFaults>>

\* Documents are ingested into a period whatever its status.
PostLine(p, side) ==
    /\ ledger[p].debits + ledger[p].credits < MaxPostings
    /\ ledger' = [ledger EXCEPT ![p][side] = @ + 1]
    /\ UNCHANGED <<period, docRequest, reopenLog, deskVars, sweeping, unseen, periodFaults>>

MaxReminders == 3

Unanswered(q) ==
    /\ docRequest[q].status = "pending"
    /\ docRequest[q].overdue
    /\ \E p \in docRequest[q].for : period[p].status = "pending_close"

\* Mutant: remind for ever.
RemindAlways == {q \in Requests : Unanswered(q)}
Candidates == {q \in Requests : Unanswered(q) /\ docRequest[q].reminders < MaxReminders}

\* A sweep that finds nothing changes nothing.
Sweep(s) ==
    /\ sweeping[s] = {}
    /\ Candidates # {}
    /\ sweeping' = [sweeping EXCEPT ![s] = Candidates]
    /\ UNCHANGED <<period, docRequest, ledger, reopenLog, deskVars, unseen, periodFaults>>

\* By default a DATE arrives in binary, and Scan refuses to put that into the
\* strings for the ends of the period: the first row ends the sweep, since the
\* driver closes the result and the loop that was told to continue finds none.
ScanFails(s) ==
    /\ s \notin TextDates
    /\ sweeping[s] # {}
    /\ sweeping' = [sweeping EXCEPT ![s] = {}]
    /\ UNCHANGED <<period, docRequest, ledger, reopenLog, deskVars, unseen, periodFaults>>

\* In the simple protocol a DATE arrives as text, and the row is read.
Remind(s, q) ==
    /\ s \in TextDates
    /\ q \in sweeping[s]
    /\ docRequest' = [docRequest EXCEPT ![q].reminders = @ + 1]
    /\ sweeping' = [sweeping EXCEPT ![s] = @ \ {q}]
    /\ UNCHANGED <<period, ledger, reopenLog, deskVars, unseen, periodFaults>>

\* A failing increment does not abort the sweep.
RemindFails(s, q) ==
    /\ s \in TextDates
    /\ q \in sweeping[s]
    /\ periodFaults < MaxPeriodFaults
    /\ periodFaults' = periodFaults + 1
    /\ sweeping' = [sweeping EXCEPT ![s] = @ \ {q}]
    /\ UNCHANGED <<period, docRequest, ledger, reopenLog, deskVars, unseen>>

\* The connection is lost while the rows are read.
SweepCut(s) ==
    /\ sweeping[s] # {}
    /\ periodFaults < MaxPeriodFaults
    /\ periodFaults' = periodFaults + 1
    /\ sweeping' = [sweeping EXCEPT ![s] = {}]
    /\ UNCHANGED <<period, docRequest, ledger, reopenLog, deskVars, unseen>>

Create(d) ==
    \/ \E p \in Periods : CheckOverlap(d, p)
    \/ InsertPeriod(d) \/ InsertRefused(d)

Close(d) ==
    \/ \E p \in Periods : ReadForClose(d, p)
    \/ CountPending(d) \/ ComputeBalance(d) \/ MarkClosed(d)

Reopen(d) ==
    \/ \E p \in Periods : ReadForReopen(d, p)
    \/ MarkReopened(d) \/ LogReopen(d)

RequestStep(q) ==
    \/ \E p \in Periods : CreateDocumentRequest(q, p)
    \/ WaiveDocumentRequest(q) \/ FallOverdue(q)

ReminderStep(s) ==
    \/ Sweep(s) \/ ScanFails(s) \/ SweepCut(s)
    \/ \E q \in Requests : Remind(s, q) \/ RemindFails(s, q)

PeriodNext ==
    \/ \E d \in Desks : Create(d) \/ Close(d) \/ Reopen(d) \/ PeriodStatementFails(d)
    \/ \E q \in Requests : RequestStep(q)
    \/ \E p \in Periods, side \in Sides : PostLine(p, side)
    \/ \E s \in Sweeps : ReminderStep(s)

PeriodSpec == PeriodInit /\ [][PeriodNext]_periodVars

------------------------------------------------------------------------------
(***************************************************************************)
(* Two periods of a book overlap only if one was inserted between the      *)
(* other's overlap test and its insert (periods.go:198-222): apart from    *)
(* that race the test keeps them apart, ends included.                     *)
(***************************************************************************)
OverlapOnlyByRace ==
    \A p, q \in Present : (p # q /\ Overlap(p, q)) => (p \in unseen[q] \/ q \in unseen[p])

(***************************************************************************)
(* A reopened period stays reopened, with no closer and no figures of the  *)
(* earlier close, once the closes that had passed the status test when it  *)
(* was reopened are over: such a close overwrites the reopening            *)
(* (periods.go:253, 343-355), and nothing else does.                       *)
(***************************************************************************)
Closing(p) == \E d \in Desks : desk[d].next \in {"count", "balance", "close"} /\ p \in desk[d].on
ReopenedForGood(p) == period[p].status = "reopened" /\ ~Closing(p)

ReopenIsFinal ==
    [][\A p \in Periods :
           ReopenedForGood(p) => ReopenedForGood(p)' /\ period'[p] = Reopened]_periodVars

(***************************************************************************)
(* Every reopened period is on the reopen log or about to be, whoever      *)
(* closes and reopens beside: only a statement that fails costs a record   *)
(* (periods.go:409-434), and then the period is open without one.          *)
(***************************************************************************)
Logging(p) == \E d \in Desks : desk[d].next = "log" /\ p \in desk[d].on

ReopenOnRecord ==
    Cardinality({p \in Periods :
        period[p].status = "reopened" /\ p \notin reopenLog /\ ~Logging(p)}) <= periodFaults

(***************************************************************************)
(* However many API processes sweep, with sweeps that overlap, a request   *)
(* gets at most two reminders and one more per process that can read its   *)
(* rows (notify.go:62, 70, 75).                                            *)
(***************************************************************************)
RemindersBounded ==
    \A q \in Requests : docRequest[q].reminders < MaxReminders + Cardinality(TextDates)
==============================================================================
