# A verification project for auditorAI

auditorAI reconciles a book: documents are uploaded, parsed into rows (invoice lines, bank
transactions, GL entries), linked into groups by an agent, and each group is judged by a
deterministic tier before a person signs it off. What has to be right is the control around
these steps: three processes (Go API, Python agent runtime, Rust services) exchange
at-least-once messages over NATS JetStream and share one PostgreSQL database, every hand-over
can fail half way, and people act on the same rows meanwhile.

Around the pipeline stand the request handlers of the API: periods, findings, reports, sign-in,
billing, tenants. Most of them run statement by statement in autocommit mode, so two requests, or
one that stops half way, are where they can go wrong.

This directory models both in TLA+, checks them with TLC and proves their main safety properties
with TLAPS. Comments in the modules cite the code they are about; `PROJECT.json`
maps every definition to its lines.

## 1. The system

| Component | State it keeps | Operations | Talks to | Hard because |
|---|---|---|---|---|
| Uploads (`internal/documents`) | `source_documents` rows, objects in S3 | upload, presign, client PUT, confirm | publishes `document.uploaded` | two stores and a queue without a common transaction; duplicates race |
| Ingestion coordinator (`internal/pipeline/coordinator.go`) | durable consumer, `extracted_entities`, `ocr_status` | `handleUploaded`, `persistEntities`, `fail` | Rust ingestion over gRPC; publishes `entity.extraction.requested`, `link.requested` | redelivery, AckWait, several API processes, commit in doubt, crash |
| Agent runtime (`agent-runtime/main.py`, `mcp_client`) | ephemeral consumers | `process_link`, `process_batch`, `_retry_or_drop` | MCP tools of the API over HTTP | several writes per message, each may fail before or after it lands |
| Linker (`graph/link.py`) | none | five candidate passes, deduplication, scoring, routing | called by `process_link` | overlapping candidates, tolerance on three sides |
| Groups (`internal/mcp`, `review`, `humanoverride`) | `reconciliation_groups`, their entities | create, flag, confirm, reject, split, merge | publishes `verification.requested` | status writes without a test of the present status |
| Verify worker (`internal/pipeline/verify_worker.go`) | durable consumer, `audit_findings` | `handleVerification`, `fail` | Rust verification over gRPC | retries beside human decisions, one finding only |
| Rule engine (`verification/src/zen`, `grpc`) | the decision table | load, evaluate | asked by the verify worker | interval tables over parameters, checked `i64` arithmetic |
| Variance (`verification/src/decimal_math`) | none | three-way variance | rule engine | must agree with the linker about tolerance |
| Periods, document requests, reminders (`periods`, `notify`) | their tables | open, close, reopen, waive, sweep | e-mail | test and write are separate statements; one reminder job per process |
| Findings (`findings`) | `audit_findings` workflow columns, attachments, reports | status, sign-off, report | webhooks, audit log | the reviewer is read before it is written |
| Auth (`auth`) | users, failed-login counter, TOTP secrets | sign-up, reset, login, lockout, enrolment | e-mail | racing logins, counter window, code reuse, stale secret |
| Billing (`billing`) | subscription columns of the firm | checkout, Stripe events | Stripe | events in any order, twice, at once |
| Webhooks, push, e-mail | subscriptions, failure counters | deliver, retry, disable | outside | delivered inside the request of a report (`findings.go:435`), on its context |
| Middleware | idempotency rows, session settings of pooled connections, access log | wrap a request | all handlers | the response is stored after the work; the scope outlives its request |
| Tenants and keys (`tenant`, `portal`) | books, assignments, encryption keys | create, assign, remove, rotate | middleware | what a query sees depends on its connection; READ COMMITTED |
| Settings, entities; storage; clients; wiring | their rows | CRUD, start-up, presentation | - | little protocol of their own |
| LLM extraction, OCR and parsing | none | bytes or text to rows | Ollama, docTR | any output is possible |

How a document travels:

    upload -> row + object -> document.uploaded -> coordinator -> entities + "done"
           -> link.requested -> process_link -> create_entity_link -> group
           -> verification.requested -> verify worker -> finding (+ downgrade) -> review

What makes the components correct, in a sentence each:

- Uploads: a content is in a book once; an event is only sent for bytes that are there, and those are
  the bytes that are processed; what was accepted is eventually processed.
- Coordinator: a document's entities are loaded once whatever is redelivered; no event is consumed
  without the document showing it; what is done was handed on.
- Link pass: nothing beyond tolerance is linked without a person; no two groups claim the same bank
  and GL rows; an acknowledged pass stored everything it found; documents may arrive in any order.
- Verify worker: an over-tolerance finding and the downgrade are one step; one finding per group; a
  human decision is never overwritten; no request disappears without a trace.
- Rule engine: an accepted table answers every variance, with the band it mathematically lies in,
  and never answers a larger variance more mildly.
- Groups under split, merge and review: no entity is lost, and each counts once.
- Periods: two periods do not overlap; a reopening is final and on record; an unanswered request is
  not reminded of for ever.
- Findings: a sign-off is not taken over by a later resolution.
- Reports: each one is on the access log; a retry of an answered request makes no second one; a
  subscription that keeps failing is disabled.
- Auth: every wrong guess counts and waits for the lock the earlier ones earned; a code opens the
  door once; a second factor goes live only after a device has shown it.
- Billing: the last event to happen wins, not the last to be delivered.
- Tenants: a connection carries the scope of the request that holds it and of no other.
- Keys: a firm that had a key has an active one, and only one.

`PROJECT.json` lists the hazards of this code at the line where each bites, also those no property
covers yet.

## 2. Modules

| Module | Models | Proofs |
|---|---|---|
| `Disposition` | abstract: what the API promises about a group's status and verdict | - |
| `VerifyWorker` | create_entity_link, VERIFY queue, verify worker, people | `VerifyWorkerProofs` |
| `DocumentLife` | abstract: what the intake promises about a document's row, entities and hand-overs | - |
| `DocumentIntake` | both upload paths, DOCUMENTS queue, coordinator | `DocumentIntakeProofs` |
| `DecisionTable` | bands, operands, which tables are accepted, the shipped one | `DecisionTableProofs` |
| `RuleEngine` | loading a table, answering requests in a machine integer | `RuleEngineProofs` |
| `Linker` | candidates, deduplication, scores, routes; the variance beside them | `LinkPassProofs` |
| `LinkPass` | the link consumer over a growing book; extends `Linker` | `LinkPassProofs` |
| `PeriodClose` | periods, document requests, the reminder job | `RequestProofs` |
| `FindingReview` | status, sign-off and attachments of a finding | `RequestProofs` |
| `ReportDelivery` | report, idempotency key, access log, webhook | `ApiProofs` |
| `LoginGate` | sign-up, login, lockout, second factor of one account | `LoginProofs` |
| `StripeSync` | checkout, Stripe events, the firm's watermark | `RequestProofs` |
| `TenantScope` | acquiring, scoping and releasing pooled connections; books and assignments | `RequestProofs` |
| `GroupMembers` | the members of groups under split, merge and review | `ApiProofs` |
| `KeyRotation` | rotations of a firm's encryption keys | `RequestProofs` |
| `MC*` | instances for TLC: model values, books, tables | `ApiProofs` (`MCApi`: the components it explores, their types) |

A step of a model is one statement that another actor can observe or get in front of: a committed
write, a queue operation, a call that may fail. Queues are modelled from the consumer
configurations in the code: explicit ack, redelivery on nak and when AckWait expires, at most
MaxDeliver deliveries, a message deleted only by an ack.

### VerifyWorker

`status` and `findings` are the columns and rows; `delivery` and `delivered` the message of each
group; `pc`, `job`, `attempt`, `exceeds`, `tx` the stack of a worker inside `handleVerification`.

| Action | Code |
|---|---|
| `Link`, `PublishVerification`, `PublishFails` | `create_entity_link`: the transaction, then the fire-and-forget publish |
| `Receive`, `Evaluate` | metadata, totals, tolerance, the gRPC call |
| `InsertFinding`, `DowngradeGroup`, `Commit`, `CommitInDoubt` | `persistFindingAndDisposition` |
| `StepFails`, `FailTo`, `Nak`, `FlagGroup`, `FlagFails`, `Ack`, `ReplyLost` | `fail()` and the replies |
| `Review`, `FlagForReview`, `Split`, `Merge` | the status writes of the other handlers |

The transaction is statement by statement at READ COMMITTED: the NOT EXISTS test sees what is
committed when it runs, and the row lock of the UPDATE is held until the commit. Tolerance and table
are read afresh by every attempt, so attempts may disagree; `Evaluate` chooses.

`Disposition` is the abstract specification: status and verdict of a group, no queue, no worker, no
retry. The mapping takes a group's verdict from its finding; a step of the worker is a `Downgrade`,
a `RecordVerdict` or a stutter.

### DocumentIntake

`phase` is where a request is, `content` the object, `url` who holds a presigned URL, `confirm` the
bytes that a confirm has read and not yet recorded, `hash` and `status` the columns, `streamed` the
bytes a coordinator has read, `loaded` the batches of entities by the delivery that wrote them and the
bytes they came from, `extracted` and `linked` what has been published. The presigned URL serves any
number of PUTs, so `ClientPut` is possible before, during and after a confirm; `overwritten` remembers
the documents whose object changed after a confirm had read it. `UploadCheck .. InsertRow` are the direct upload, `Presign`, `ClientPut`,
`ConfirmCheck .. ConfirmUpdate` the presigned one, `Publish`/`PublishFails` both. `Receive ..
RequestLink` are `handleUploaded` with `persistEntities` (the `FOR UPDATE` lock is held while `pc`
is "count" or "commit"); `Then` is a step that took effect and whose caller may still see an error.
Several coordinators are allowed, since each API process runs one.

`DocumentLife` is the abstract specification: a document is announced, its bytes arrive, a hash that no
other has is accepted, its entities are loaded in one step, its status recorded, and it is handed on; no
requests, queue or coordinators. What is accepted and what is loaded must be the document's bytes,
unless the client replaced them after they were read (`replaced`). The mapping takes the bytes from the
object and a document's entities from the batches that deliveries wrote, so a second batch, or one from
other bytes, would be a step `DocumentLife` does not have. A `done` that replaces a `failed`, or the other way
round, it does have: the code lets the later attempt decide.

### DecisionTable and RuleEngine

A bound is `coeff * tolerance + konst`, exclusive, inclusive or absent. `Accepted` is what
`compile` and `validate_coverage` let pass. `RuleEngine` loads one table, refuses to serve or
answers `Ask(v, t)` with the first row whose outcome is not "no"; the lower bound of a row is
computed before the upper one and either computation may overflow `MaxInt`. The text grammar of
ranges is left out.

### Linker and LinkPass

`Linker` has the five passes as set comprehensions, `Deduplicated` (by bank and GL legs; more
invoices win, then the earlier pass), and `Route`. Where the order of the rows decides, the model
allows every order. Scores are compared as fractions, Jaro-Winkler is a table, names and dates are
always present because `mcp.go:82-83` sends "" and 1970-01-01 for absent ones. `MaxVariance` is the
verification tier's number for the same group.

`LinkPass` stores documents in any order, publishes one `link.requested` each, and runs the single
consumer: `Take`, `Read` (the newest `Limit` pending rows, then the linker; no other coroutine of
this handler runs in between), `PersistGroup`/`PersistFails` one group at a time (a failed request
may have been committed), `Settle` (ack, nak or term), `Crash`. The subscription has no durable
name, so a restarted process counts deliveries afresh.

### The request handlers

`MCApi` explores the eight of them. In each, a record per user or request holds which statement of
its handler comes next and what it has read; a statement may fail, and in most a client may leave.
A nullable column is a set with at most one member. A variable that no column stands for (`unseen`,
`misread`, `lostDisables`, `lost`, `overtaken`, `overlapped`, `doubled`, `missed` ...) remembers a
race or a fault that a property names as its exception.

- **PeriodClose.** `CheckOverlap`/`InsertPeriod`, `ReadForClose .. MarkClosed` and
  `ReadForReopen .. LogReopen` are the three handlers; `desk[d]` is where user `d` is in one.
  `Sweep .. SweepCut` are `runOnce` of the reminder job, one per API process. A process in `TextDates`
  gets DATE columns as text and reminds; with the driver's defaults they arrive in binary, the scan
  into a string is refused, and `ScanFails` is all a sweep does after its query.
- **FindingReview.** `ReadReviewer` and `Sign` or `Resolve` are the two statements of resolving;
  `ReadReviewerFails` is the read whose error the handler drops.
- **ReportDelivery.** `Lookup .. StoreResponse` is one request from the idempotency lookup to the
  stored response. `live` says whether its context is: `DeadContext` is what a dead one does to each
  statement, and the audit row alone is cut loose from it. A webhook is refused, accepted, or hangs
  until the request's 30 s are over.
- **LoginGate.** `LockRow` to the commit of a guess or a login is under the row lock; the other
  handlers write when the row is free and read whenever they like. Time is in TOTP steps relative
  to now. `spree` and `quiet` are the guesses as an observer counts them, beside the row's counter.
- **StripeSync.** An event reads the watermark (`ReadWatermark`) and writes (`WriteState`), in as
  many copies as Stripe cares to deliver; an unknown customer is answered 500.
- **TenantScope.** `SetFirm`, `GetAssignedBooks`, `SetBooks` are the statements of `RLSInjector` and
  `AcquireScoped`; the queries see what the policies show under the connection's scope at that time.
  A request may be abandoned before each, and `ReleaseRLSConn` scrubs or closes.
- **GroupMembers.** A split or merge locks its sources one by one (`Supersede`) and writes the new
  groups at the commit; `ReviewGroup` waits for the row and tests nothing. A source that is already
  superseded when its regrouping commits (`Stale`), by an earlier request or by one that raced, doubles
  its entities; `doubled` remembers them, and `leftOut` those a split named in no partition.
- **KeyRotation.** `BeginRotation` is the snapshot of the UPDATE, `MarkRotating` its end after any
  wait for locks, when the status is looked at again.

The models meet at the rows and messages they share: `DocumentIntake` ends with the request
`LinkPass` starts from (entities stored, then announced, in that order), `LinkPass` ends with the
`create_entity_link` that `VerifyWorker!Link` starts from, and `RuleEngine` decides the `exceeds`
that `VerifyWorker!Evaluate` chooses freely.

## 3. What TLC checks

| Run | Instance | States | Shows |
|---|---|---|---|
| `verify_safety` | 2 groups, 1 worker, MaxDeliver 2, every fault | 124 068 | verdict and status stay consistent; one finding; only downgrades; implements `Disposition` |
| `verify_settles` | the same, failing steps and lost replies, fair | 113 868 | nothing is dropped; every auto-linked group is judged or handed over |
| `verify_unpublished` | 1 group, MaxDeliver 5, failing publish, fair | violated | finding 1 below |
| `intake_safety` | 2 documents, 2 contents, 2 coordinators, 2 events, every fault, within `Focus` | 668 353 | entities loaded once, no file twice; implements `DocumentLife` (a hash of its own first, entities from the bytes hashed) |
| `intake_settles` | 1 document, 2 events, MaxDeliver 3, failing publish, steps, replies, fair | 70 601 | what is consumed is recorded, what is done is forwarded, queued documents settle |
| `intake_orphan` | 1 document, failing publish, fair | violated | finding 2 below |
| `rule_engine` | tables of up to 3 rows over 4 operands, MaxInt 8, variances -9..8, tolerances 0..4 | 20 596 | accepted tables band everything, exactly and monotonically |
| `linking_safety` | 6 books, window of 4 rows, 3 attempts, 3 faults | 545 128 | tolerance, no twin groups, complete passes |
| `linking_settles` | 2 books with triples, 2 faults, fair | 91 652 | perfect triples are linked in any order of arrival |
| `link_buried` | 1 book, review floor 80 | violated | finding 3 below |
| `api_requests` | the eight request models, 2 users or processes each, failing statements | 567 423 | what handlers, comments and tests take for granted, up to the races the properties name |
| `report_replay` | `ReportDelivery`, 1 attempt at a time, no fault | violated | finding 4 below |

`api_requests` is a sum and not a product: the initial state chooses an `area`, the actions of that
component run, and the others stay where they start. The components share no variable, so a product
would have no behaviour that is not one of each, and a property of one component is decided in its
own area.

Every property of a passing run has a mutant of the code in `PROJECT.json` that violates it under
the same configuration. The mutated forms stand beside the definitions they replace, marked
"Mutant:", and are used by nothing else.

Deadlock is checked for `VerifyWorker`, where some review action is always possible. The other
models end: all documents are stored and confirmed as often as the bound allows (`intake_*`), all
faults are spent and all messages gone (`linking_*`), a table was refused (`rule_engine`), the
bounded number of requests has been made (`api_requests`). Their configurations say `CHECK_DEADLOCK FALSE`.

### Bounds

- `MaxDeliver` is 5 in the code. The control depends on it only through "is this the last attempt":
  2 (3 for the intake) gives a first, a last, and a redelivery between commit and ack. The two
  violating runs use 5. The proofs hold for every value.
- `MaxMsg` (events per document): 2 is a first event and one from a confirm of a document that is
  already queued or done. The theorems hold for every value.
- `Focus` in `intake_safety` looks at each hazard with the actors it takes. `WholeLife`: one document
  from its request to its hand-over with repeated confirms, two events, redelivery and every fault, a direct
  upload in the hands of two coordinators or a presigned one overwritten at any time beside one
  coordinator. `UntilLoaded`: two documents with the same or other bytes, at most one of them
  presigned, race from their requests to the entities of both, one event and one delivery each. What the
  constraint leaves out (two coordinators on an overwritten object; two documents redelivered) the
  theorems cover: all four properties of the run are proved without it.
- Two groups or two documents: the code never relates more than two through the pieces modelled
  (row locks and handlers are per group; duplicates are pairs; split and merge relate old to new).
- `linking_*`: the six books of `MCLinkPass` are chosen so that each pass builds a candidate, that
  candidates displace each other, that a void row and a zero net occur, and that one book is larger
  than the window. `MaxFaults` 3 equals `MaxAttempts`, so a message can be given up; it is 2 where
  the property needs an attempt that succeeds.
- `rule_engine`: `MaxInt` 8 is wide enough for some bounds and too narrow for others; -9 is the
  value without a magnitude.
- `api_requests`: two users, two processes or two open requests, since every race of these handlers
  is between a statement and one other request; a third user adds another pair. `MaxPeriodCalls` 3 lets
  two requests race over what a third left. Two date ranges share one day, their ends. Of three reminder jobs two have
  `TextDates`: those race each other, the third is the deployed one. Three guesses climb
  a ladder with tiers at 1 and 3, whose locks (1 and 2 steps) end inside a `ResetWindow` of 3; a
  `ReplayWindow` of 3 steps is the least above the skew on both sides. Two firms, two books, two connections
  and three requests: a connection is used again, by another firm. Four keys are two before and two
  racing. Three Stripe events of two subscriptions, the youngest of the first after one of the second.
  `MaxReports` 5 reaches the third failure, the disabling and two more requests. `MaxGroups` 5 holds
  two regroupings in two. One fault at a time, of every kind.
- Symmetry is used in `intake_safety` only, over documents, files and coordinators, and with no liveness.

### Fairness

`FairSpec` assumes what the code's scheduling provides: a request that has written its row goes on
to publish, with success or failure (`documents.go:200`, `mcp.go:295`); JetStream enforces AckWait;
the worker, coordinator and consumer loops run for the life of the process (`main.go:173-207`,
`run_consumer`). All of it is weak fairness. Nobody is obliged to upload, confirm, review, split or
merge, and faults are never forced. `api_requests` has no liveness property and assumes no fairness.

Two limits of the fair runs are limits of the code: a crash during the last delivery leaves a group
auto_linked or a document pending, because MaxDeliver is reached and `fail()` never ran; so
`NothingDropped`, `QueuedSettles` and their neighbours are stated without crashes. And the row
window offers only the newest 500 pending rows, so `PerfectTriplesLinked` has a window that holds
the book.

## 4. Where the code and its documentation disagree

1. `verify_unpublished`. `mcp_client/__init__.py:81-82` says the API publishes
   verification.requested on creation so that the worker evaluates the group. `mcp.go:295-301`
   publishes after the commit and only logs an error: the group stays auto_linked, unjudged, and
   nothing publishes again.
2. `intake_orphan`. `documents.go:170-171` names the state its ordering is to rule out: pending for
   ever after a 201. A publish that fails at line 209 reaches the same state, and the duplicate
   check refuses a second upload of the bytes.
3. `link_buried`. `link.py:293-297` says a pass-5 pair goes to a person regardless of the
   thresholds. Deduplication (line 485) lets a pass-1 candidate with the same legs replace it, and
   that one is scored: in a book with a review floor of 80 percent it is dropped as unmatched. With
   the default of 50 a pass-1 candidate always scores enough.

4. `report_replay`. `idempotency.go:3-5` says a retry with the same key returns the cached response.
   A row that has expired is never deleted and its successor is dropped by ON CONFLICT DO NOTHING
   (line 104): a key used again after a day is answered and never stored, and every retry of it makes
   another report.

Read in the code while modelling, without a run of their own:

- `periods.go:422-427` counts on a failed request to show that a reopening has no record; the
  reopening is committed by then, and stays.
- A reopened period can never be closed again: `periods.go:253` lets only open and pending_close pass.
- `tenant.go:328` says RequireRole at /v1/admin guards the staff routes; `main.go:388-396` mounts them
  without it. `TenantScope` lets anybody signed in call them, for any user.
- `tenant.go:311-312` says a change is logged when the pointer is non-nil; a typed nil pointer in an
  interface is not nil, so every update logs every field.
- `humanoverride.go:98-106` inserts the source format "manual", which `init.sql:205` refuses: a manual
  entity cannot be created.
- `notify.go:1-5` says the job reminds. Its query returns DATE columns (line 51), which the driver
  delivers in binary and refuses to scan into the strings of lines 69-74; the first row ends the sweep, and
  no reminder is ever sent. Only a connection that carries dates as text would send any
  (`TextDates`), and for those the model shows that they stop.
- `documents.go:283` gives out a URL that serves PUTs for 15 minutes. An object overwritten after a
  confirm has read it (350-389) is processed with bytes that were neither hashed nor scanned for malware,
  because `coordinator.go:247` compares nothing; a second confirm then records the new hash, but the
  entities of the first bytes stay (`coordinator.go:492`). These are the documents in `overwritten`.
- `humanoverride.go:186` and `274` supersede a source without a test of its status: two regroupings of
  one group that race both go through, and its entities count twice (`doubled`).
- `middleware.go:218` resets two settings in one RESET, whose grammar takes one. Where the server
  refuses it the connection is closed each time, which is safe (`ReleaseClosed`) and costs the pool.
- `webhooks.go:145`: no success resets consecutive_failures, so three failures ever disable.

Three more facts the models show, which no document contradicts: with two API processes two
deliveries of one verification request can both pass NOT EXISTS and write two findings; also with
two, a coordinator whose delivery has timed out can set a document to done that the other has just
given up as failed, then fail itself at the next step: the document stays done, nobody was asked to
extract or link it, and no delivery is left (`DoneIsForwarded` with a second coordinator); and an
accepted decision table may have overlapping rows for some tolerances (first match still decides,
and `LargerIsNoMilder` holds all the same).

## 5. What is proved

All theorems hold for every value of the constants that the named ASSUMEs allow. An extra
assumption is part of the theorem's statement.

| Theorem | Statement | Extra assumption |
|---|---|---|
| `TypeCorrect`, `OverToleranceDisposed`, `OnlyDowngrades` | `VerifyWorker`: types, over-tolerance groups are not auto_linked, workers only downgrade | none, any number of workers |
| `NothingDroppedWithoutCrash` | no request is consumed without a finding or a downgrade | no crash, the last-resort UPDATE succeeds |
| `OneFinding`, `ImplementsDisposition` | one finding per group; `VerifyWorker` implements `Disposition` | at most one worker loop |
| `IntakeTypeCorrect`, `LoadedOnce`, `ContentUnique`, `FilesLoadedOnce`, `ImplementsLife` | `DocumentIntake`: types, entities once, hashes unique, no file loaded twice unless overwritten; implements `DocumentLife` | none, any number of coordinators |
| `ConsumedRecorded` | `DocumentIntake`: an event is used up only when the document reads done or failed | no crash, the UPDATE that flags a failure succeeds |
| `DoneForwarded` | `DocumentIntake`: a done document was handed to extraction and, with entities, to the linker | the same, and at most one coordinator |
| `ShippedTable` | `gl_reconciliation.json` is accepted, and a row that holds a variance says "exceeds" exactly when it is above tolerance | - |
| `EngineTypeCorrect`, `CoverageSuffices`, `BandsAreExact`, `SeverityIsMonotone` | `RuleEngine`: the three properties of the run, for every table and integer width | - |
| `TiersAgree` | a candidate is exact for the linker iff its `MaxVariance` is within tolerance, and iff the shipped table says it does not exceed | integer totals, bank and GL leg present |
| `LinkTypeCorrect`, `AutoLinkIsSafe`, `NoTwins`, `AckedIsComplete` | `LinkPass`: types, auto_linked groups are within tolerance, no twin groups, an acknowledged pass stored all it planned | none, any books, window and faults |
| `PeriodsApart`, `ReopeningFinal`, `ReopeningRecorded` | `PeriodClose`: overlap only by the race, a reopening is final and on record | none, any dates, users, faults |
| `RemindersLimited` | `PeriodClose`: at most two reminders and one per process that can read its rows | finitely many processes |
| `ReportsOnLog`, `FailuresLimited` | `ReportDelivery`: every report is on the access log, a failing subscription is disabled, up to the faults and races they count | finitely many requests |
| `SignOffStands` | `FindingReview`: no sign-off is taken over | none |
| `NewestShown` | `StripeSync`: the newest answered event is shown | none, any events and copies |
| `ScopeStays` | `TenantScope`: a scope belongs to the request that holds the connection | none |
| `NoEntityLost` | `GroupMembers`: every entity that no split left out is in a live group, and in one alone unless doubled by a second regrouping or review of its group, or by a split that names it twice | none; the bound on groups is at least the two groups there are at first |
| `ActiveKey` | `KeyRotation`: an active key, and one unless rotations overlapped | none |
| `GuessesCounted`, `LockHolds`, `CodeSpentOnce`, `SecretProven` | `LoginGate`: the four properties of the run | `LadderOutlasted`: no lock outlasts the reset window, a code is remembered longer than it validates; `LadderHasTop`: of the tiers a count has reached one is the highest, as in every finite ladder |
| `TypesHold` | `MCApi`: every variable of the eight handlers keeps its type | those of the components |

The arguments:

- **VerifyWorker.** `OverToleranceIsDisposed` is not inductive: a worker past its downgrade may
  commit a finding over an auto_linked row unless it holds that row's lock. `IInv` says that a worker
  about to commit such a verdict holds the lock or the group has left auto_linked, which nothing
  undoes, and that a lock has one holder (`TxInv`); every writer of `status` waits for it. For
  deliveries, `LastDeliveryInv` is added (a message delivered for the last time is in a hand that will still flag it, or
  it left its trace) and, for one loop, that the uncommitted insert was decided on findings that
  cannot have changed.
- **DocumentIntake.** `EntitiesOnce` needs the lock: `LockInv` says at most one coordinator is
  between count and commit of a document and that one at commit saw no entities. `HandInv`
  and `QueueInv` bound attempts and deliveries; `RowInv` says only a written row has a hash, so a
  new row cannot collide.
  `RefinesLife` has `RequestInv` and `HashedInv`: an event is published only for a row with a hash, so
  whatever a coordinator has in hand has one; the commit is the only step that writes entities, and
  `LockInv` says it writes the first. That they come from the bytes hashed is `FileInv`: what a confirm
  holds, what the row says and what a coordinator has streamed is the object, for every
  document that was not overwritten. `FilesOnce` follows from it, from `LockInv` and from unique hashes. `ConsumedIsRecorded` has `LiveInv`: a queued document that is
  neither done nor failed has a live event, one that JetStream will deliver again or whose last
  delivery is held by a coordinator that has a status still to write. It breaks with a crash or a failed flag, which is why the theorem
  leaves them out. `DoneIsForwarded` has `OwedInv`: what is done and not handed on is still owed by
  an event or a hand. It is proved for a single loop (`Alone`), whose handler holds the latest
  delivery (`AloneInv`) and has done what its `pc` says (`ProgressInv`). With two it is false, as
  section 4 says.
- **RuleEngine.** Acceptance makes neighbours meet in one bound that exactly one of them includes.
  So below the upper edge of row j some row up to j holds (`BandUpTo`, by the least row whose upper
  edge is not passed), the last row has no upper edge, and the walk stops. Monotonicity compares the
  first stops of two variances through the edges of the earlier one, and does not need disjoint rows.
- **LinkPass.** `IInv` carries the plan of the running pass: what is
  still to be stored has distinct bank and GL legs, and no group has them yet (`FreshInv`), because
  the pass read only pending rows and one consumer writes. A group is auto_linked only if its candidate was exact (`AutoExact`), and
  `TiersAgree` turns that into the verification tier's arithmetic. For `AckedPassIsComplete`,
  `StoredInv`: as long as nothing has failed, a candidate no longer to be stored has a group with its rows.
- **PeriodClose.** `PeriodInv` adds to the overlap property what each handler has made sure of before
  its next statement (`AtDesk`): an insert has seen periods, none of which overlaps its own, and what
  was inserted since is what `unseen` will hold. `ReopenedBare` says only an UPDATE of a close can put a closer on a
  reopened row. `Unlogged` counts the reopenings without a record: a step adds to it only with a
  fault. For reminders, a request's count plus the sweeps of processes with `TextDates` that still
  hold it stays below `MaxReminders` plus their number (`ReminderInv`).
- **FindingReview.** An action property from the types: whoever signs had read no reviewer, and
  `SignedOff` says nobody who did is left.
- **StripeSync.** `FreshInv`: unless deliveries overlapped, one that has read and not been overtaken
  is no older than what the row shows.
- **TenantScope.** `PoolInv`: a connection has at most one holder, carries nothing without one, and
  with one carries exactly what the holder's statements so far have set; what was loaded is of its
  own firm because the policies of its scope chose it.
- **KeyRotation.** `LookInv` and `HeldInv`: a rotation past its UPDATE holds the row of every key that was there when it
  started and still is active, and no row has two holders; so only keys it never saw stay active beside its own.
- **ReportDelivery.** Both properties count. `CountsInv` and `HookInv` bound reports, failures and
  lost disablings by the number of requests at each statement; a step moves one request from one set
  to another, and `CountsMoved` says what that does to the cardinalities.
- **GroupMembers.** `NoneLost` needs `SourcesInv`: the sources of an open transaction are groups that
  are there, whatever has become of their status. A commit removes the live groups of its sources and gives every entity of
  theirs as many new ones as the partitions name it: none only if it is left out, two only if it is named
  twice, one beside another only if a source was superseded before. `FreshIds` shows there are
  enough unused ids, all different, so a commit overwrites nothing; a rollback changes no group.
- **LoginGate.** `LoginInv` says a deciding login is alone and holds the row as it is (`DecideInv`);
  then the row's counter, lock and last failure agree with the observer's (`CountInv`), what is
  pending while somebody verifies was proven or overtook him (`PendingInv`), and the code
  remembered is old enough no longer to validate when it is forgotten (`SpentInv`). Its type invariant
  needs `LimitsInv`, since a count and a lock stay in range only along with the ladder's bounds.
- **MCApi.** `ComponentsRun`: whatever area is explored, the behaviour is one of each component's own
  specification, since the others stand still. So each component's theorems hold of the run, and
  `TypesHold` puts their types together.

Every invariant and action property of the runs is proved, and so are the two refinements. Only
model-checked is liveness (`EveryLinkSettles`, `QueuedSettles`, `EntitiesReachLinker`,
`PerfectTriplesLinked`): it needs fairness and ENABLED, which this prover does not handle. What a run
shows to be violated (section 4) has no theorem either.

### What the properties except

Several properties of the request handlers hold only up to a race that the code has. Each names its
exception instead of excluding the race from the model: a period inserted between another's test and
insert; a close that had passed its test when the period was reopened; a reviewer's read that failed;
a failure whose record was lost; an enrolment begun during a verification; Stripe deliveries that
overlap; rotations that overlap; a disabling lost after its count; a document overwritten after a
confirm has read it; a split that names an entity twice or not at all, and a superseded group that is split,
merged or reviewed, because a request asked for it or because two raced.

## 6. Left out

`PROJECT.json` gives the reason for each component. Inside the pipeline: the branch for a
payload that does not decode (no producer emits one); the failure event on PIPELINE_EVENTS (no
consumer); size, type and malware checks of an upload; severity words and explanations of a finding;
`process_batch` and the extraction graph; a request that the client gave up on and the server commits
after the retry has read (the property it would break is listed as a hazard).

Inside the request handlers: lists, dashboards and other reads that decide nothing; logout and token
refresh; the rate limiter, a counter in the memory of one process; comments on findings; manual
entities, whose insert the schema refuses; settings, aliases and API keys, single statements behind a
permission test; the policies of row-level security table by table.

The two halves are not composed. `GroupMembers` and `VerifyWorker` both write the status of a group,
one with its members and one with its verdicts; a group made by split or merge is never
auto_linked (`humanoverride.go`) and is not sent to verification, so no step of the worker reaches it.

## 7. Plan

Done: the verify worker with its abstract specification, the intake, the rule engine, the linker and
the link pass, and the request handlers, each with its proofs. Left, in this order:

1. `LinkPass` with `process_batch` as a second consumer on the same event loop, with the process that
   lives on after its consume loop ended, and with a request that commits after its client gave up.
2. The state machine of a period as an abstract specification that `PeriodClose` implements, with the
   races of test and write as steps of its own.
3. The rate limiter.
