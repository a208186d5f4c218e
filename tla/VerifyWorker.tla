---------------------------- MODULE VerifyWorker ----------------------------
(***************************************************************************)
(* The life of a reconciliation group after the agent runtime links it:    *)
(* the create_entity_link tool (mcp.go), the VERIFY work queue, the verify  *)
(* worker (pipeline/verify_worker.go) and the people and tools that change  *)
(* reconciliation_groups.status behind the worker's back (review.go,        *)
(* humanoverride.go, mcp.go).                                               *)
(*                                                                         *)
(* A step is one statement another actor can observe or get in front of: a  *)
(* committed database write, a queue operation, a delivery.  The worker's   *)
(* transaction is modelled statement by statement under READ COMMITTED: the *)
(* NOT EXISTS test and the status test read what is committed when they    *)
(* run, the row lock of the UPDATE is held until the commit, and a crash   *)
(* drops the transaction.                                                  *)
(*                                                                         *)
(* JetStream is external.  It is modelled from the consumer configuration   *)
(* the worker asks for: explicit acks, redelivery on a nak or when AckWait  *)
(* expires, at most MaxDeliver deliveries, and a message that is deleted    *)
(* only by an ack.                                                         *)
(***************************************************************************)
EXTENDS Naturals

CONSTANTS
    Group,        \* ids of reconciliation_groups rows, used or not yet used
    Worker,       \* loops bound to the durable consumer, one per API process
    NoGroup,      \* "no group in hand"
    MaxDeliver,   \* maxDeliveryAttempts
    Fault         \* the failures the environment may produce

\* publish: PublishVerification returns an error       step:  a query, the gRPC
\* reply:   an Ack or a Nak is lost                           call or the commit fails
\* flag:    the last-resort UPDATE of fail() errors     crash: the API process dies
FaultKind == {"publish", "step", "reply", "flag", "crash"}

ASSUME MaxDeliverAssumption == MaxDeliver \in Nat \ {0}
ASSUME NoGroupAssumption    == NoGroup \notin Group
ASSUME FaultAssumption      == Fault \subseteq FaultKind

VARIABLES
    status,       \* reconciliation_groups.status, "absent" before the INSERT
    findings,     \* rows of audit_findings: the group, the delivery that wrote it, the verdict
    delivery,     \* what became of the group's verification.requested message
    delivered,    \* JetStream's NumDelivered for that message
    pc,           \* where each worker is in handleVerification
    job,          \* the group of the message it holds
    attempt,      \* NumDelivered as that message's metadata reported it
    exceeds,      \* the ExceedsTolerance the Rust service returned
    tx            \* the open transaction: the uncommitted finding, the locked group row

vars == <<status, findings, delivery, delivered, pc, job, attempt, exceeds, tx>>
queueVars  == <<delivery, delivered>>
workerVars == <<pc, job, attempt, exceeds, tx>>

MachineStatus == {"auto_linked", "needs_review"}
HumanStatus   == {"confirmed", "rejected"}
Status        == {"absent"} \cup MachineStatus \cup HumanStatus \cup {"superseded"}

\* none: no message (yet)     unsent: INSERT committed, publish not attempted
\* lost: the publish failed   ready / unacked: waiting / held by a worker
\* acked: deleted             exhausted: delivered MaxDeliver times, never again
Delivery == {"none", "unsent", "lost", "ready", "unacked", "acked", "exhausted"}

PC == {"idle", "load", "insert", "downgrade", "commit", "ack", "nak", "flag"}

Finding == [group : Group, attempt : 1..MaxDeliver, exceeds : BOOLEAN]
Tx      == [insert : BOOLEAN, lock : BOOLEAN]
NoTx    == [insert |-> FALSE, lock |-> FALSE]

TypeOK ==
    /\ status \in [Group -> Status]
    /\ findings \subseteq Finding
    /\ delivery \in [Group -> Delivery]
    /\ delivered \in [Group -> 0..MaxDeliver]
    /\ pc \in [Worker -> PC]
    /\ job \in [Worker -> Group \cup {NoGroup}]
    /\ attempt \in [Worker -> 0..MaxDeliver]
    /\ exceeds \in [Worker -> BOOLEAN]
    /\ tx \in [Worker -> Tx]

Init ==
    /\ status = [g \in Group |-> "absent"]
    /\ findings = {}
    /\ delivery = [g \in Group |-> "none"]
    /\ delivered = [g \in Group |-> 0]
    /\ pc = [w \in Worker |-> "idle"]
    /\ job = [w \in Worker |-> NoGroup]
    /\ attempt = [w \in Worker |-> 0]
    /\ exceeds = [w \in Worker |-> FALSE]
    /\ tx = [w \in Worker |-> NoTx]

Exists(g)     == status[g] # "absent"
HasFinding(g) == \E f \in findings : f.group = g
InHand(g)     == \E w \in Worker : job[w] = g
\* The row lock a worker's UPDATE holds until its transaction ends.
Locked(g)     == \E w \in Worker : job[w] = g /\ tx[w].lock

-----------------------------------------------------------------------------
(* create_entity_link: one transaction, then a fire-and-forget publish.    *)

\* The tool accepts machine dispositions only.
Link(g, s) ==
    /\ ~Exists(g)
    /\ s \in MachineStatus
    /\ status' = [status EXCEPT ![g] = s]
    /\ delivery' = [delivery EXCEPT ![g] = "unsent"]
    /\ UNCHANGED <<findings, delivered, workerVars>>

PublishVerification(g) ==
    /\ delivery[g] = "unsent"
    /\ delivery' = [delivery EXCEPT ![g] = "ready"]
    /\ UNCHANGED <<status, findings, delivered, workerVars>>

\* The publish errors, or the process dies first; the caller only logs it.
PublishFails(g) ==
    /\ "publish" \in Fault
    /\ delivery[g] = "unsent"
    /\ delivery' = [delivery EXCEPT ![g] = "lost"]
    /\ UNCHANGED <<status, findings, delivered, workerVars>>

-----------------------------------------------------------------------------
(* Status writes that do not go through the worker.  None of them tests the *)
(* current status; each waits for the row lock.                            *)

SetStatus(g, s) ==
    /\ Exists(g)
    /\ ~Locked(g)
    /\ status' = [status EXCEPT ![g] = s]
    /\ UNCHANGED <<findings, queueVars, workerVars>>

\* Confirm and reject; the bulk confirm is this step once per link id.
Review(g) == \E s \in HumanStatus : SetStatus(g, s)

FlagForReview(g) == SetStatus(g, "needs_review")

\* The new groups of a split or a merge: in review, with no verification message.
Regroup(old, new) ==
    /\ \A g \in old : Exists(g) /\ ~Locked(g)
    /\ \A g \in new : ~Exists(g)
    /\ status' = [g \in Group |-> IF g \in old THEN "superseded"
                                  ELSE IF g \in new THEN "needs_review"
                                  ELSE status[g]]
    /\ UNCHANGED <<findings, queueVars, workerVars>>

\* Empty partitions are skipped, so a split may create any number of groups.
Split(g, new) == Regroup({g}, new)

Merge(old, n) == old # {} /\ Regroup(old, {n})

-----------------------------------------------------------------------------
(* The VERIFY stream.                                                      *)

\* Mutant: a consumer without MaxDeliver.
RequeuedForever(g) == "ready"

Requeued(g) == IF delivered[g] < MaxDeliver THEN "ready" ELSE "exhausted"

AckWaitExpires(g) ==
    /\ delivery[g] = "unacked"
    /\ delivery' = [delivery EXCEPT ![g] = Requeued(g)]
    /\ UNCHANGED <<status, findings, delivered, workerVars>>

-----------------------------------------------------------------------------
(* The worker.                                                             *)

\* The handler returns, or its process is gone: nothing of it remains.
Release(w) ==
    /\ pc' = [pc EXCEPT ![w] = "idle"]
    /\ job' = [job EXCEPT ![w] = NoGroup]
    /\ attempt' = [attempt EXCEPT ![w] = 0]
    /\ exceeds' = [exceeds EXCEPT ![w] = FALSE]
    /\ tx' = [tx EXCEPT ![w] = NoTx]

Receive(w, g) ==
    /\ pc[w] = "idle"
    /\ delivery[g] = "ready"
    /\ delivery' = [delivery EXCEPT ![g] = "unacked"]
    /\ delivered' = [delivered EXCEPT ![g] = @ + 1]
    /\ pc' = [pc EXCEPT ![w] = "load"]
    /\ job' = [job EXCEPT ![w] = g]
    /\ attempt' = [attempt EXCEPT ![w] = delivered[g] + 1]
    /\ UNCHANGED <<status, findings, exceeds, tx>>

\* Load the totals and ask the Rust service.  Both the tolerance and the
\* decision graph are read afresh by every attempt, so attempts may disagree.
Evaluate(w) ==
    /\ pc[w] = "load"
    /\ \E e \in BOOLEAN : exceeds' = [exceeds EXCEPT ![w] = e]
    /\ pc' = [pc EXCEPT ![w] = "insert"]
    /\ UNCHANGED <<status, findings, queueVars, job, attempt, tx>>

\* Mutant: the insert without its NOT EXISTS test.
InsertUnguarded(w) ==
    /\ pc[w] = "insert"
    /\ tx' = [tx EXCEPT ![w].insert = TRUE]
    /\ pc' = [pc EXCEPT ![w] = IF exceeds[w] THEN "downgrade" ELSE "commit"]
    /\ UNCHANGED <<status, findings, queueVars, job, attempt, exceeds>>

\* BEGIN, then INSERT ... WHERE NOT EXISTS.
InsertFinding(w) ==
    /\ pc[w] = "insert"
    /\ tx' = [tx EXCEPT ![w].insert = ~HasFinding(job[w])]
    /\ pc' = [pc EXCEPT ![w] = IF exceeds[w] THEN "downgrade" ELSE "commit"]
    /\ UNCHANGED <<status, findings, queueVars, job, attempt, exceeds>>

\* Mutant: the downgrade without its status test.
DowngradeUnguarded(w) ==
    /\ pc[w] = "downgrade"
    /\ ~Locked(job[w])
    /\ tx' = [tx EXCEPT ![w].lock = TRUE]
    /\ pc' = [pc EXCEPT ![w] = "commit"]
    /\ UNCHANGED <<status, findings, queueVars, job, attempt, exceeds>>

\* UPDATE ... WHERE status = 'auto_linked': takes the row lock if it matches.
DowngradeGroup(w) ==
    /\ pc[w] = "downgrade"
    /\ ~Locked(job[w])
    /\ tx' = [tx EXCEPT ![w].lock = (status[job[w]] = "auto_linked")]
    /\ pc' = [pc EXCEPT ![w] = "commit"]
    /\ UNCHANGED <<status, findings, queueVars, job, attempt, exceeds>>

\* Mutant: the finding is written and the group keeps its status.
AnnotateOnly(w) ==
    /\ findings' = IF tx[w].insert
                   THEN findings \cup {[group |-> job[w], attempt |-> attempt[w],
                                        exceeds |-> exceeds[w]]}
                   ELSE findings
    /\ tx' = [tx EXCEPT ![w] = NoTx]
    /\ UNCHANGED status

\* What the transaction makes durable, both rows at once.
Durable(w) ==
    /\ findings' = IF tx[w].insert
                   THEN findings \cup {[group |-> job[w], attempt |-> attempt[w],
                                        exceeds |-> exceeds[w]]}
                   ELSE findings
    /\ status' = IF tx[w].lock
                 THEN [status EXCEPT ![job[w]] = "needs_review"]
                 ELSE status
    /\ tx' = [tx EXCEPT ![w] = NoTx]

\* Mutants: acknowledge a failure at once; nak the last attempt like the others.
FailDrops(w) == "ack"
FailNaks(w)  == "nak"

\* fail(): nak while attempts remain, otherwise flag the group and ack.
FailTo(w) == IF attempt[w] < MaxDeliver THEN "nak" ELSE "flag"

Commit(w) ==
    /\ pc[w] = "commit"
    /\ Durable(w)
    /\ pc' = [pc EXCEPT ![w] = "ack"]
    /\ UNCHANGED <<queueVars, job, attempt, exceeds>>

\* The commit lands but its acknowledgement does not: the worker sees an error.
CommitInDoubt(w) ==
    /\ "step" \in Fault
    /\ pc[w] = "commit"
    /\ Durable(w)
    /\ pc' = [pc EXCEPT ![w] = FailTo(w)]
    /\ UNCHANGED <<queueVars, job, attempt, exceeds>>

\* Any statement up to the commit fails; the deferred rollback drops the rest.
StepFails(w) ==
    /\ "step" \in Fault
    /\ pc[w] \in {"load", "insert", "downgrade", "commit"}
    /\ tx' = [tx EXCEPT ![w] = NoTx]
    /\ pc' = [pc EXCEPT ![w] = FailTo(w)]
    /\ UNCHANGED <<status, findings, queueVars, job, attempt, exceeds>>

Nak(w) ==
    /\ pc[w] = "nak"
    /\ delivery' = [delivery EXCEPT ![job[w]] = IF @ = "unacked" THEN Requeued(job[w]) ELSE @]
    /\ Release(w)
    /\ UNCHANGED <<status, findings, delivered>>

\* Mutant: the last-resort flag without its status test.
FlagUnguarded(w) ==
    /\ pc[w] = "flag"
    /\ ~Locked(job[w])
    /\ status' = [status EXCEPT ![job[w]] = "needs_review"]
    /\ pc' = [pc EXCEPT ![w] = "ack"]
    /\ UNCHANGED <<findings, queueVars, job, attempt, exceeds, tx>>

\* fail() on the last attempt: UPDATE ... WHERE status = 'auto_linked'.
FlagGroup(w) ==
    /\ pc[w] = "flag"
    /\ ~Locked(job[w])
    /\ status' = IF status[job[w]] = "auto_linked"
                 THEN [status EXCEPT ![job[w]] = "needs_review"]
                 ELSE status
    /\ pc' = [pc EXCEPT ![w] = "ack"]
    /\ UNCHANGED <<findings, queueVars, job, attempt, exceeds, tx>>

\* The UPDATE errors; fail() logs it and goes on to the ack.
FlagFails(w) ==
    /\ "flag" \in Fault
    /\ pc[w] = "flag"
    /\ pc' = [pc EXCEPT ![w] = "ack"]
    /\ UNCHANGED <<status, findings, queueVars, job, attempt, exceeds, tx>>

\* An ack deletes the message, also one that is waiting to be redelivered.
Ack(w) ==
    /\ pc[w] = "ack"
    /\ delivery' = [delivery EXCEPT ![job[w]] = IF @ \in {"unacked", "ready"} THEN "acked" ELSE @]
    /\ Release(w)
    /\ UNCHANGED <<status, findings, delivered>>

ReplyLost(w) ==
    /\ "reply" \in Fault
    /\ pc[w] \in {"ack", "nak"}
    /\ Release(w)
    /\ UNCHANGED <<status, findings, queueVars>>

Crash(w) ==
    /\ "crash" \in Fault
    /\ pc[w] # "idle"
    /\ Release(w)
    /\ UNCHANGED <<status, findings, queueVars>>

-----------------------------------------------------------------------------

LinkTool(g) ==
    \/ \E s \in MachineStatus : Link(g, s)
    \/ PublishVerification(g)
    \/ PublishFails(g)

Person ==
    \/ \E g \in Group : Review(g) \/ FlagForReview(g)
    \/ \E g \in Group, new \in SUBSET Group : Split(g, new)
    \/ \E old \in SUBSET Group, n \in Group : Merge(old, n)

Handle(w) ==
    \/ Evaluate(w)
    \/ InsertFinding(w)
    \/ DowngradeGroup(w)
    \/ Commit(w)
    \/ CommitInDoubt(w)
    \/ StepFails(w)
    \/ Nak(w)
    \/ FlagGroup(w)
    \/ FlagFails(w)
    \/ Ack(w)
    \/ ReplyLost(w)

Next ==
    \/ \E g \in Group : LinkTool(g) \/ AckWaitExpires(g)
    \/ Person
    \/ \E w \in Worker : (\E g \in Group : Receive(w, g)) \/ Handle(w) \/ Crash(w)

Spec == Init /\ [][Next]_vars

\* The worker loop runs for the process lifetime and JetStream enforces
\* AckWait; nobody is obliged to link, review or regroup anything.
Fairness ==
    /\ \A g \in Group : /\ WF_vars(PublishVerification(g) \/ PublishFails(g))
                        /\ WF_vars(AckWaitExpires(g))
    /\ \A w \in Worker : WF_vars((\E g \in Group : Receive(w, g)) \/ Handle(w))

FairSpec == Spec /\ Fairness

-----------------------------------------------------------------------------
(* Properties.                                                             *)

\* A group with a recorded over-tolerance finding is never still auto_linked:
\* the finding and the downgrade are one transaction, nothing sets a group
\* back to auto_linked, and the downgrade cannot be lost to a concurrent
\* writer of the same row (verify_worker.go:242-317).
OverToleranceIsDisposed ==
    \A f \in findings : f.exceeds => status[f.group] # "auto_linked"

\* Redelivery, a lost ack, a commit in doubt or a crash never produce a second
\* finding for a group (the NOT EXISTS guard, verify_worker.go:273-286).
OneFindingPerGroup ==
    \A e, f \in findings : e.group = f.group => e = f

\* When the queue is done with a group's message and no worker holds it, the
\* group has a finding or is no longer auto_linked: no verification request is
\* consumed without a trace (fail(), verify_worker.go:117-168).
NothingDropped ==
    \A g \in Group : delivery[g] \in {"acked", "exhausted"} /\ ~InHand(g)
                        => HasFinding(g) \/ status[g] # "auto_linked"

\* A step of a worker never changes a status other than auto_linked, and only
\* to needs_review: human decisions survive every redelivery and no group is
\* promoted (verify_worker.go:292-301).
WorkerOnlyDowngrades ==
    [][\A g \in Group : pc' # pc /\ status'[g] # status[g]
            => status[g] = "auto_linked" /\ status'[g] = "needs_review"]_vars

\* Every group that ships auto_linked is eventually judged, or taken out of
\* auto_linked by a person or by fail() (the reason the worker exists).
EveryLinkSettles ==
    \A g \in Group : status[g] = "auto_linked"
                        ~> HasFinding(g) \/ status[g] # "auto_linked"

\* The abstract disposition: a group's verdict is what its finding says.
VerdictOf(g) ==
    IF ~HasFinding(g) THEN "none"
    ELSE IF \E f \in findings : f.group = g /\ f.exceeds THEN "exceeds"
    ELSE "within"

D == INSTANCE Disposition WITH verdict <- [g \in Group |-> VerdictOf(g)]

\* With queue, retries, crashes and the statement-by-statement transaction in
\* the way, a group's status and verdict still change only as Disposition allows.
RefinesDisposition == D!Spec
=============================================================================
