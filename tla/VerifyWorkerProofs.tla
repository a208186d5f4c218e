------------------------- MODULE VerifyWorkerProofs -------------------------
(***************************************************************************)
(* Theorems of VerifyWorker, for every set of groups and workers, every    *)
(* delivery limit and every set of faults.  The inductive invariant is the *)
(* conjunction of the three parts below; a conjunct is there because the   *)
(* one before it is not preserved without it.                              *)
(***************************************************************************)
EXTENDS VerifyWorker, TLAPS

\* The queue: a message exists only for a group that was linked, and one that
\* may still be delivered has deliveries left.
QueueInv ==
    \A g \in Group :
        /\ delivery[g] # "none" => Exists(g)
        /\ delivery[g] \in {"none", "unsent", "ready"} => delivered[g] < MaxDeliver

\* The worker: a busy worker holds a real group and the attempt number of a
\* delivery; a transaction is open only between its first write and its commit,
\* and only an over-tolerance verdict downgrades.
WorkerInv ==
    \A w \in Worker :
        /\ pc[w] # "idle" => /\ job[w] \in Group
                             /\ Exists(job[w])
                             /\ attempt[w] \in 1..MaxDeliver
        /\ tx[w].insert => pc[w] \in {"downgrade", "commit"}
        /\ pc[w] = "downgrade" => exceeds[w]
        /\ tx[w].lock => pc[w] = "commit" /\ exceeds[w]

\* The transaction: the row lock pins auto_linked and has one holder, and an
\* over-tolerance transaction about to commit holds it unless the group has
\* already left auto_linked, to which nothing returns it.
TxInv ==
    /\ \A w \in Worker : tx[w].lock => status[job[w]] = "auto_linked"
    /\ \A v, w \in Worker : tx[v].lock /\ tx[w].lock /\ job[v] = job[w] => v = w
    /\ \A w \in Worker : pc[w] = "commit" /\ exceeds[w] /\ ~tx[w].lock
                            => status[job[w]] # "auto_linked"

\* Findings are about groups that exist, so Link never meets one.
FindingsInv == \A f \in findings : Exists(f.group)

IInv ==
    /\ TypeOK
    /\ QueueInv
    /\ WorkerInv
    /\ TxInv
    /\ FindingsInv
    /\ OverToleranceIsDisposed

-----------------------------------------------------------------------------
(* The invariant is inductive.                                             *)

\* The vocabulary every leaf needs: the constants' assumptions and the type sets.
USE MaxDeliverAssumption, NoGroupAssumption
DEF Exists, Status, MachineStatus, HumanStatus, Delivery, PC, Finding, Tx, NoTx,
    queueVars, workerVars

\* A person's decision, with the values people and the agent's tool write.
LEMMA SetStatusPreserves ==
    ASSUME IInv, NEW g \in Group,
           NEW s \in HumanStatus \cup {"needs_review"}, SetStatus(g, s)
    PROVE  IInv'
BY SMTT(30) DEF SetStatus, Locked,
     IInv, TypeOK, QueueInv, WorkerInv, TxInv, FindingsInv, OverToleranceIsDisposed

\* Regroup, for every choice of old and new groups.
LEMMA RegroupPreserves ==
    ASSUME IInv, NEW old \in SUBSET Group, NEW new \in SUBSET Group, Regroup(old, new)
    PROVE  IInv'
BY SMTT(30) DEF Regroup, Locked,
     IInv, TypeOK, QueueInv, WorkerInv, TxInv, FindingsInv, OverToleranceIsDisposed

\* The NOT EXISTS test as a Boolean of its own.
LEMMA InsertPreserves ==
    ASSUME IInv, NEW w \in Worker, InsertFinding(w)
    PROVE  IInv'
<1>1. PICK b \in BOOLEAN : b = ~HasFinding(job[w])
  BY Zenon
<1>2. tx' = [tx EXCEPT ![w].insert = b]
  BY <1>1, Zenon DEF InsertFinding
<1> QED
  BY <1>2, SMTT(30) DEF InsertFinding,
       IInv, TypeOK, QueueInv, WorkerInv, TxInv, FindingsInv, OverToleranceIsDisposed

\* The downgrade either takes the lock of an auto_linked row, or finds the row
\* out of auto_linked and takes nothing.
LEMMA DowngradePreserves ==
    ASSUME IInv, NEW w \in Worker, DowngradeGroup(w)
    PROVE  IInv'
<1>1. PICK b \in BOOLEAN : b = (status[job[w]] = "auto_linked")
  BY Zenon
<1>2. tx' = [tx EXCEPT ![w].lock = b]
  BY <1>1, Zenon DEF DowngradeGroup
<1>3. /\ pc[w] = "downgrade"
      /\ ~Locked(job[w])
      /\ pc' = [pc EXCEPT ![w] = "commit"]
      /\ UNCHANGED <<status, findings, queueVars, job, attempt, exceeds>>
  BY Zenon DEF DowngradeGroup
<1>4. TypeOK' /\ QueueInv' /\ WorkerInv'
  BY <1>2, <1>3, SMTT(30) DEF
       IInv, TypeOK, QueueInv, WorkerInv, TxInv, FindingsInv, OverToleranceIsDisposed
<1>5. TxInv'
  BY <1>1, <1>2, <1>3, SMTT(30) DEF Locked,
       IInv, TypeOK, QueueInv, WorkerInv, TxInv, FindingsInv, OverToleranceIsDisposed
<1>6. FindingsInv' /\ OverToleranceIsDisposed'
  BY <1>2, <1>3, SMTT(30) DEF
       IInv, TypeOK, QueueInv, WorkerInv, TxInv, FindingsInv, OverToleranceIsDisposed
<1> QED
  BY <1>4, <1>5, <1>6 DEF IInv

\* What becomes durable is consistent with the transaction that wrote it.
LEMMA DurablePreserves ==
    ASSUME IInv, NEW w \in Worker, pc[w] = "commit", Durable(w),
           NEW p \in {"ack", "nak", "flag"}, pc' = [pc EXCEPT ![w] = p],
           UNCHANGED <<queueVars, job, attempt, exceeds>>
    PROVE  IInv'
BY SMTT(30) DEF Durable,
     IInv, TypeOK, QueueInv, WorkerInv, TxInv, FindingsInv, OverToleranceIsDisposed

\* The invariant holds initially.
LEMMA InitInv == Init => IInv
BY SMTT(30) DEF Init,
     IInv, TypeOK, QueueInv, WorkerInv, TxInv, FindingsInv, OverToleranceIsDisposed

\* No step of the system, and no stutter, breaks the invariant.
LEMMA NextInv == IInv /\ [Next]_vars => IInv'
<1> SUFFICES ASSUME IInv, [Next]_vars PROVE IInv'
  OBVIOUS
<1>1. ASSUME NEW g \in Group, NEW s \in MachineStatus, Link(g, s) PROVE IInv'
  BY <1>1, SMTT(30) DEF Link,
       IInv, TypeOK, QueueInv, WorkerInv, TxInv, FindingsInv, OverToleranceIsDisposed
<1>2. ASSUME NEW g \in Group, PublishVerification(g) PROVE IInv'
  BY <1>2, SMTT(30) DEF PublishVerification,
       IInv, TypeOK, QueueInv, WorkerInv, TxInv, FindingsInv, OverToleranceIsDisposed
<1>3. ASSUME NEW g \in Group, PublishFails(g) PROVE IInv'
  BY <1>3, SMTT(30) DEF PublishFails,
       IInv, TypeOK, QueueInv, WorkerInv, TxInv, FindingsInv, OverToleranceIsDisposed
<1>4. ASSUME NEW g \in Group, AckWaitExpires(g) PROVE IInv'
  BY <1>4, SMTT(30) DEF AckWaitExpires, Requeued,
       IInv, TypeOK, QueueInv, WorkerInv, TxInv, FindingsInv, OverToleranceIsDisposed
<1>5. CASE Person
  BY <1>5, SetStatusPreserves, RegroupPreserves, Zenon
     DEF Person, Review, FlagForReview, Split, Merge
<1>6. ASSUME NEW w \in Worker, NEW g \in Group, Receive(w, g) PROVE IInv'
  BY <1>6, SMTT(30) DEF Receive,
       IInv, TypeOK, QueueInv, WorkerInv, TxInv, FindingsInv, OverToleranceIsDisposed
<1>7. ASSUME NEW w \in Worker, Evaluate(w) PROVE IInv'
  BY <1>7, SMTT(30) DEF Evaluate,
       IInv, TypeOK, QueueInv, WorkerInv, TxInv, FindingsInv, OverToleranceIsDisposed
<1>8. ASSUME NEW w \in Worker, Commit(w) \/ CommitInDoubt(w) PROVE IInv'
  BY <1>8, DurablePreserves, SMTT(30) DEF Commit, CommitInDoubt, FailTo
<1>9. ASSUME NEW w \in Worker, StepFails(w) PROVE IInv'
  BY <1>9, SMTT(30) DEF StepFails, FailTo,
       IInv, TypeOK, QueueInv, WorkerInv, TxInv, FindingsInv, OverToleranceIsDisposed
<1>10. ASSUME NEW w \in Worker, FlagGroup(w) PROVE IInv'
  BY <1>10, SMTT(30) DEF FlagGroup, Locked,
       IInv, TypeOK, QueueInv, WorkerInv, TxInv, FindingsInv, OverToleranceIsDisposed
<1>11. ASSUME NEW w \in Worker, FlagFails(w) PROVE IInv'
  BY <1>11, SMTT(30) DEF FlagFails,
       IInv, TypeOK, QueueInv, WorkerInv, TxInv, FindingsInv, OverToleranceIsDisposed
<1>12. ASSUME NEW w \in Worker, Nak(w) PROVE IInv'
  BY <1>12, SMTT(30) DEF Nak, Release, Requeued,
       IInv, TypeOK, QueueInv, WorkerInv, TxInv, FindingsInv, OverToleranceIsDisposed
<1>13. ASSUME NEW w \in Worker, Ack(w) PROVE IInv'
  BY <1>13, SMTT(30) DEF Ack, Release,
       IInv, TypeOK, QueueInv, WorkerInv, TxInv, FindingsInv, OverToleranceIsDisposed
<1>14. ASSUME NEW w \in Worker, ReplyLost(w) PROVE IInv'
  BY <1>14, SMTT(30) DEF ReplyLost, Release,
       IInv, TypeOK, QueueInv, WorkerInv, TxInv, FindingsInv, OverToleranceIsDisposed
<1>15. ASSUME NEW w \in Worker, Crash(w) PROVE IInv'
  BY <1>15, SMTT(30) DEF Crash, Release,
       IInv, TypeOK, QueueInv, WorkerInv, TxInv, FindingsInv, OverToleranceIsDisposed
<1>16. CASE UNCHANGED vars
  BY <1>16, SMTT(30) DEF vars,
       IInv, TypeOK, QueueInv, WorkerInv, TxInv, FindingsInv, OverToleranceIsDisposed
<1> QED
  BY <1>1, <1>2, <1>3, <1>4, <1>5, <1>6, <1>7, <1>8, <1>9, <1>10, <1>12, <1>13, <1>14,
     <1>15, <1>16, <1>11, InsertPreserves, DowngradePreserves, Zenon
     DEF Next, LinkTool, Handle

\* Every reachable state satisfies the invariant.
LEMMA Invariance == Spec => []IInv
BY InitInv, NextInv, PTL DEF Spec

-----------------------------------------------------------------------------
(* What follows from it.                                                   *)

\* Every variable keeps its type; in particular no message is delivered more
\* than MaxDeliver times (verify_worker.go:84-86).
THEOREM TypeCorrect == Spec => []TypeOK
BY Invariance, PTL DEF IInv

\* With any number of worker processes and any faults, no group carries an
\* over-tolerance finding and still reads auto_linked (verify_worker.go:242-317).
THEOREM OverToleranceDisposed == Spec => []OverToleranceIsDisposed
BY Invariance, PTL DEF IInv

\* No step of a worker changes a status but from auto_linked to needs_review,
\* so no human decision is lost to a redelivery (verify_worker.go:292-301).
THEOREM OnlyDowngrades == Spec => WorkerOnlyDowngrades
<1> DEFINE Downgrades == \A g \in Group : pc' # pc /\ status'[g] # status[g]
                            => status[g] = "auto_linked" /\ status'[g] = "needs_review"
<1>1. ASSUME IInv, [Next]_vars PROVE [Downgrades]_vars
  <2>1. ASSUME NEW w \in Worker, tx[w].lock, Durable(w) PROVE Downgrades
    BY <1>1, <2>1, SMTT(30) DEF Durable, IInv, TypeOK, TxInv
  <2>2. ASSUME NEW w \in Worker, ~tx[w].lock, Durable(w) PROVE Downgrades
    BY <2>2 DEF Durable
  <2>3. ASSUME NEW w \in Worker, Handle(w) PROVE Downgrades
    <3>1. CASE Commit(w) \/ CommitInDoubt(w)
      BY <2>1, <2>2, <3>1 DEF Commit, CommitInDoubt
    <3>2. CASE FlagGroup(w)
      BY <1>1, <3>2, SMTT(30) DEF FlagGroup, IInv, TypeOK
    <3>3. CASE UNCHANGED status
      BY <3>3
    <3> QED
      BY <2>3, <3>1, <3>2, <3>3 DEF Handle, Evaluate, InsertFinding, DowngradeGroup,
         StepFails, Nak, FlagFails, Ack, ReplyLost
  <2>4. CASE UNCHANGED pc
    BY <2>4
  <2>5. CASE UNCHANGED status
    BY <2>5
  <2> QED
    BY <1>1, <2>3, <2>4, <2>5 DEF Next, LinkTool, Person, Link, PublishVerification,
       PublishFails, AckWaitExpires, Review, FlagForReview, SetStatus, Split, Merge,
       Regroup, Receive, Crash, vars
<1> QED
  BY <1>1, Invariance, PTL DEF Spec, WorkerOnlyDowngrades

-----------------------------------------------------------------------------
(* Delivery.  Without a crash no verification request is consumed without a *)
(* trace, and with one worker loop (the deployment: one API process, one   *)
(* loop) a group is judged once and the pipeline implements Disposition.   *)

\* A group that needs no further verification; once a group exists this is
\* never undone.
Settled(g) == HasFinding(g) \/ status[g] # "auto_linked"

\* What a worker knows of the group in its hand: a transaction that inserts
\* nothing found a finding, a worker that naks has deliveries left, and a worker
\* about to ack leaves the group settled.
HandInv ==
    \A w \in Worker :
        /\ pc[w] \in {"downgrade", "commit"} /\ ~tx[w].insert => HasFinding(job[w])
        /\ pc[w] = "nak" => attempt[w] < MaxDeliver
        /\ pc[w] = "ack" => Settled(job[w])

LastHolder(w, g) == pc[w] # "idle" /\ job[w] = g /\ attempt[w] = MaxDeliver

\* The last delivery of a message is in some worker's hand until the group is
\* settled; a message is deleted or spent for no other reason.
LastDeliveryInv ==
    \A g \in Group :
        /\ delivery[g] = "acked" => Settled(g)
        /\ delivery[g] = "exhausted" => delivered[g] = MaxDeliver
        /\ delivery[g] \in {"unacked", "exhausted"} /\ delivered[g] = MaxDeliver
             => Settled(g) \/ \E w \in Worker : LastHolder(w, g)

TraceInv == IInv /\ HandInv /\ LastDeliveryInv

\* Findings are never deleted and only Link writes auto_linked.
LEMMA StableRows ==
    ASSUME IInv, [Next]_vars
    PROVE  /\ findings \subseteq findings'
           /\ \A g \in Group : Exists(g) => Exists(g)'
           /\ \A g \in Group : Exists(g) /\ status'[g] = "auto_linked"
                                  => status[g] = "auto_linked"
<1> DEFINE Goal == /\ findings \subseteq findings'
                   /\ \A g \in Group : Exists(g) => Exists(g)'
                   /\ \A g \in Group : Exists(g) /\ status'[g] = "auto_linked"
                                          => status[g] = "auto_linked"
<1>1. ASSUME NEW g \in Group, NEW s \in MachineStatus, Link(g, s) PROVE Goal
  BY <1>1, SMTT(30) DEF Link, IInv, TypeOK
<1>2. ASSUME NEW g \in Group, NEW s \in HumanStatus \cup {"needs_review"}, SetStatus(g, s)
      PROVE  Goal
  BY <1>2, SMTT(30) DEF SetStatus, IInv, TypeOK
<1>3. ASSUME NEW old \in SUBSET Group, NEW new \in SUBSET Group, Regroup(old, new) PROVE Goal
  BY <1>3, SMTT(30) DEF Regroup, IInv, TypeOK
<1>4. ASSUME NEW w \in Worker, Durable(w) PROVE Goal
  BY <1>4, SMTT(30) DEF Durable, IInv, TypeOK
<1>5. ASSUME NEW w \in Worker, FlagGroup(w) PROVE Goal
  BY <1>5, SMTT(30) DEF FlagGroup, IInv, TypeOK
<1>6. CASE UNCHANGED <<status, findings>>
  BY <1>6
<1>7. CASE Person
  BY <1>7, <1>2, <1>3, Zenon DEF Person, Review, FlagForReview, Split, Merge
<1>8. ASSUME NEW w \in Worker, Handle(w) PROVE Goal
  BY <1>8, <1>4, <1>5, <1>6, Zenon DEF Handle, Evaluate, InsertFinding, DowngradeGroup,
     Commit, CommitInDoubt, StepFails, Nak, FlagFails, Ack, ReplyLost
<1> QED
  BY <1>1, <1>6, <1>7, <1>8, Zenon DEF Next, LinkTool, PublishVerification, PublishFails,
     AckWaitExpires, Receive, Crash, vars

\* A settled group stays settled.
LEMMA SettledStable ==
    ASSUME IInv, [Next]_vars, NEW g \in Group, Exists(g), Settled(g)
    PROVE  Settled(g)'
<1>1. findings \subseteq findings' /\ (status'[g] = "auto_linked" => status[g] = "auto_linked")
  BY StableRows, Zenon
<1> QED
  BY <1>1, SMTT(30) DEF Settled, HasFinding

\* After the commit, however it is reported, the group has a finding.
LEMMA CommitRecords ==
    ASSUME IInv, HandInv, NEW w \in Worker, pc[w] = "commit", Durable(w),
           UNCHANGED job
    PROVE  HasFinding(job[w])'
<1>1. CASE tx[w].insert
  <2> DEFINE f == [group |-> job[w], attempt |-> attempt[w], exceeds |-> exceeds[w]]
  <2>1. f \in findings' /\ f.group = job'[w]
    BY <1>1, Zenon DEF Durable
  <2> QED
    BY <2>1, Zenon DEF HasFinding
<1>2. CASE ~tx[w].insert
  <2>1. HasFinding(job[w]) /\ UNCHANGED findings
    BY <1>2, Zenon DEF Durable, HandInv
  <2> QED
    BY <2>1 DEF HasFinding
<1> QED
  BY <1>1, <1>2

\* The worker's knowledge survives every step of every actor.
LEMMA NextHand ==
    ASSUME IInv, HandInv, [Next]_vars, {"crash", "flag"} \cap Fault = {}
    PROVE  HandInv'
<1> DEFINE Old(w) == pc'[w] = pc[w] /\ job'[w] = job[w] /\ attempt'[w] = attempt[w]
                        /\ tx'[w] = tx[w]
           New(w) == /\ pc'[w] \in {"downgrade", "commit"} /\ ~tx'[w].insert
                            => HasFinding(job[w])'
                     /\ pc'[w] = "nak" => attempt'[w] < MaxDeliver
                     /\ pc'[w] = "ack" => Settled(job[w])'
<1>1. ASSUME NEW w \in Worker, Old(w) PROVE New(w)
  <2>1. HasFinding(job[w]) => HasFinding(job[w])'
    BY <1>1, StableRows, SMTT(30) DEF HasFinding
  <2>2. pc[w] = "ack" => Settled(job[w])'
    BY <1>1, SettledStable, SMTT(30) DEF Settled, HandInv, IInv, WorkerInv
  <2> QED
    BY <1>1, <2>1, <2>2, SMTT(30) DEF HandInv
<1>2. ASSUME NEW w \in Worker, Commit(w) \/ CommitInDoubt(w)
      PROVE  New(w) /\ \A v \in Worker \ {w} : Old(v)
  <2>1. HasFinding(job[w])' /\ UNCHANGED job
    BY <1>2, CommitRecords DEF Commit, CommitInDoubt
  <2>2. /\ pc'[w] \in {"ack", FailTo(w)}
        /\ attempt' = attempt
        /\ \A v \in Worker \ {w} : Old(v)
    BY <1>2, SMTT(30) DEF Commit, CommitInDoubt, Durable, IInv, TypeOK
  <2> QED
    BY <2>1, <2>2, SMTT(30) DEF FailTo, Settled, IInv, TypeOK
<1>3. ASSUME NEW w \in Worker, InsertFinding(w)
      PROVE  New(w) /\ \A v \in Worker \ {w} : Old(v)
  <2>1. PICK b \in BOOLEAN : b = ~HasFinding(job[w])
    BY Zenon
  <2>2. tx' = [tx EXCEPT ![w].insert = b]
    BY <1>3, <2>1, Zenon DEF InsertFinding
  <2>3. /\ pc'[w] \in {"downgrade", "commit"}
        /\ UNCHANGED <<job, findings>>
        /\ tx'[w].insert = b
        /\ \A v \in Worker \ {w} : Old(v)
    BY <1>3, <2>2, SMTT(30) DEF InsertFinding, IInv, TypeOK
  <2>4. HasFinding(job[w]) => HasFinding(job[w])'
    BY <2>3 DEF HasFinding
  <2>5. pc'[w] # "nak" /\ pc'[w] # "ack"
    BY <2>3
  <2> QED
    BY <2>1, <2>3, <2>4, <2>5, Zenon
<1>4. ASSUME NEW w \in Worker, DowngradeGroup(w)
      PROVE  New(w) /\ \A v \in Worker \ {w} : Old(v)
  <2>1. /\ pc'[w] = "commit" /\ pc[w] = "downgrade"
        /\ UNCHANGED <<job, findings>>
        /\ tx'[w].insert = tx[w].insert
        /\ \A v \in Worker \ {w} : Old(v)
    BY <1>4, SMTT(30) DEF DowngradeGroup, IInv, TypeOK
  <2> QED
    BY <2>1, SMTT(30) DEF HasFinding, HandInv
<1>5. ASSUME NEW w \in Worker, Evaluate(w) \/ StepFails(w)
      PROVE  New(w) /\ \A v \in Worker \ {w} : Old(v)
  BY <1>5, SMTT(30) DEF Evaluate, StepFails, FailTo, IInv, TypeOK
<1>6. ASSUME NEW w \in Worker, FlagGroup(w)
      PROVE  New(w) /\ \A v \in Worker \ {w} : Old(v)
  <2>1. /\ pc'[w] = "ack"
        /\ UNCHANGED job
        /\ \A v \in Worker \ {w} : Old(v)
    BY <1>6, SMTT(30) DEF FlagGroup, IInv, TypeOK
  <2>2. status'[job[w]] # "auto_linked"
    BY <1>6, SMTT(30) DEF FlagGroup, IInv, TypeOK, WorkerInv
  <2> QED
    BY <2>1, <2>2, SMTT(30) DEF Settled
<1>7. ASSUME NEW w \in Worker, Release(w)
      PROVE  New(w) /\ \A v \in Worker \ {w} : Old(v)
  BY <1>7, SMTT(30) DEF Release, IInv, TypeOK
<1>8. ASSUME NEW w \in Worker, NEW g \in Group, Receive(w, g)
      PROVE  New(w) /\ \A v \in Worker \ {w} : Old(v)
  BY <1>8, SMTT(30) DEF Receive, IInv, TypeOK
<1>9. ASSUME NEW w \in Worker, Handle(w)
      PROVE  New(w) /\ \A v \in Worker \ {w} : Old(v)
  BY <1>2, <1>3, <1>4, <1>5, <1>6, <1>7, <1>9, Zenon
     DEF Handle, FlagFails, Nak, Ack, ReplyLost
<1>10. CASE UNCHANGED workerVars
  BY <1>1, <1>10 DEF HandInv
<1>11. ASSUME NEW w \in Worker, New(w), \A v \in Worker \ {w} : Old(v)
       PROVE  HandInv'
  BY <1>1, <1>11, Zenon DEF HandInv
<1>12. \A w \in Worker : ~Crash(w)
  BY DEF Crash
<1>13. UNCHANGED workerVars \/ \E w \in Worker : Handle(w) \/ \E g \in Group : Receive(w, g)
  BY <1>12, Zenon DEF Next, LinkTool, Person, Link, PublishVerification, PublishFails,
     AckWaitExpires, Review, FlagForReview, SetStatus, Split, Merge, Regroup, vars
<1> QED
  BY <1>8, <1>9, <1>10, <1>11, <1>13

\* No message is deleted or spent before its group is settled, except from
\* under the worker that holds the last delivery.
LEMMA NextLast ==
    ASSUME IInv, HandInv, LastDeliveryInv, [Next]_vars, {"crash", "flag"} \cap Fault = {}
    PROVE  LastDeliveryInv'
<1> DEFINE Last(g) ==
        /\ delivery[g] = "acked" => Settled(g)
        /\ delivery[g] = "exhausted" => delivered[g] = MaxDeliver
        /\ delivery[g] \in {"unacked", "exhausted"} /\ delivered[g] = MaxDeliver
             => Settled(g) \/ \E w \in Worker : LastHolder(w, g)
<1>1. ASSUME NEW g \in Group, Settled(g), delivery[g] # "none" PROVE Settled(g)'
  BY <1>1, SettledStable, Zenon DEF IInv, QueueInv
<1>2. ASSUME NEW g \in Group, UNCHANGED <<delivery[g], delivered[g]>>,
             \A w \in Worker : LastHolder(w, g) => LastHolder(w, g)' \/ Settled(g)
      PROVE  Last(g)'
  BY <1>1, <1>2, SMTT(30) DEF LastDeliveryInv
<1>3. ASSUME NEW g \in Group, Settled(g), delivery[g] # "none",
             delivery'[g] = "exhausted" => delivered'[g] = MaxDeliver
      PROVE  Last(g)'
  BY <1>1, <1>3
<1>4. ASSUME UNCHANGED workerVars, NEW g \in Group, UNCHANGED <<delivery[g], delivered[g]>>
      PROVE  Last(g)'
  <2>1. \A w \in Worker : LastHolder(w, g) => LastHolder(w, g)'
    BY <1>4 DEF LastHolder
  <2> QED
    BY <1>2, <1>4, <2>1
<1>requeued. ASSUME NEW g \in Group, delivery[g] = "unacked", delivery'[g] = Requeued(g),
             delivered' = delivered,
             \A w \in Worker : LastHolder(w, g) => LastHolder(w, g)' \/ Settled(g)
      PROVE  Last(g)'
  <2>1. delivered[g] \in 0..MaxDeliver
    BY DEF IInv, TypeOK
  <2>2. \/ delivery'[g] = "ready"
        \/ /\ delivery'[g] = "exhausted"
           /\ delivered[g] = MaxDeliver /\ delivered'[g] = MaxDeliver
    BY <1>requeued, <2>1, SMTT(30) DEF Requeued
  <2>3. delivered[g] = MaxDeliver => Settled(g)' \/ \E w \in Worker : LastHolder(w, g)'
    BY <1>1, <1>requeued, Zenon DEF LastDeliveryInv
  <2> QED
    BY <2>2, <2>3, Zenon
<1>5. ASSUME NEW g \in Group, LinkTool(g), NEW h \in Group PROVE Last(h)'
  <2>1. UNCHANGED workerVars /\ UNCHANGED delivered
    BY <1>5 DEF LinkTool, Link, PublishVerification, PublishFails
  <2>2. delivery'[h] = delivery[h] \/ delivery'[h] \in {"unsent", "ready", "lost"}
    BY <1>5, SMTT(30) DEF LinkTool, Link, PublishVerification, PublishFails, IInv, TypeOK
  <2> QED
    BY <1>4, <2>1, <2>2
<1>6. ASSUME NEW g \in Group, AckWaitExpires(g), NEW h \in Group PROVE Last(h)'
  <2>1. CASE h # g
    BY <1>4, <1>6, <2>1, SMTT(30) DEF AckWaitExpires, IInv, TypeOK
  <2>2. CASE h = g
    <3>1. \A w \in Worker : LastHolder(w, g) => LastHolder(w, g)'
      BY <1>6 DEF AckWaitExpires, LastHolder
    <3>2. delivery[g] = "unacked" /\ delivery'[g] = Requeued(g) /\ delivered' = delivered
      BY <1>6, SMTT(30) DEF AckWaitExpires, IInv, TypeOK
    <3> QED
      BY <1>requeued, <2>2, <3>1, <3>2
  <2> QED
    BY <2>1, <2>2
<1>7. ASSUME NEW w \in Worker, NEW g \in Group, Receive(w, g), NEW h \in Group
      PROVE  Last(h)'
  <2>1. CASE h # g
    <3>1. \A v \in Worker : LastHolder(v, h) => LastHolder(v, h)'
      BY <1>7, SMTT(30) DEF Receive, LastHolder, IInv, TypeOK
    <3>2. UNCHANGED <<delivery[h], delivered[h]>>
      BY <1>7, <2>1, SMTT(30) DEF Receive, IInv, TypeOK
    <3> QED
      BY <1>2, <3>1, <3>2
  <2>2. CASE h = g
    <3>1. delivery'[g] = "unacked"
      BY <1>7, SMTT(30) DEF Receive, IInv, TypeOK
    <3>2. delivered'[g] = MaxDeliver => LastHolder(w, g)'
      BY <1>7, SMTT(30) DEF Receive, LastHolder, IInv, TypeOK
    <3> QED
      BY <2>2, <3>1, <3>2
  <2> QED
    BY <2>1, <2>2
<1>8. ASSUME NEW w \in Worker, Nak(w) \/ Ack(w) \/ ReplyLost(w), NEW h \in Group
      PROVE  Last(h)'
  <2>1. pc[w] = "nak" => attempt[w] < MaxDeliver
    BY DEF HandInv
  <2>2. pc[w] = "ack" => Settled(job[w])
    BY DEF HandInv
  <2>3. \A v \in Worker : LastHolder(v, h) => LastHolder(v, h)' \/ Settled(h)
    BY <1>8, <2>1, <2>2, SMTT(30) DEF Nak, Ack, ReplyLost, Release, LastHolder, IInv, TypeOK
  <2>4. CASE UNCHANGED <<delivery[h], delivered[h]>>
    BY <1>2, <2>3, <2>4
  <2>5. CASE Ack(w) /\ h = job[w]
    <3>1. delivery'[h] = delivery[h] \/ delivery'[h] = "acked"
      BY <2>5, SMTT(30) DEF Ack, IInv, TypeOK
    <3>2. UNCHANGED delivered /\ Settled(h)
      BY <2>2, <2>5 DEF Ack
    <3>3. Exists(h)
      BY <2>5, SMTT(30) DEF Ack, IInv, WorkerInv
    <3>4. Settled(h)'
      BY <3>2, <3>3, SettledStable
    <3> QED
      BY <2>4, <3>1, <3>2, <3>4
  <2>6. CASE Nak(w) /\ h = job[w] /\ delivery[h] = "unacked"
    <3>1. delivery'[h] = Requeued(h) /\ delivered' = delivered
      BY <2>6, SMTT(30) DEF Nak, IInv, TypeOK
    <3> QED
      BY <1>requeued, <2>3, <2>6, <3>1
  <2>7. \/ UNCHANGED <<delivery[h], delivered[h]>>
        \/ Ack(w) /\ h = job[w]
        \/ Nak(w) /\ h = job[w] /\ delivery[h] = "unacked"
    BY <1>8, SMTT(30) DEF Nak, Ack, ReplyLost, IInv, TypeOK
  <2> QED
    BY <2>4, <2>5, <2>6, <2>7
<1>9. ASSUME NEW w \in Worker, Handle(w), NEW h \in Group PROVE Last(h)'
  <2>1. CASE Nak(w) \/ Ack(w) \/ ReplyLost(w)
    BY <1>8, <2>1
  <2>2. CASE ~(Nak(w) \/ Ack(w) \/ ReplyLost(w))
    <3>1. UNCHANGED <<queueVars, job, attempt>>
      BY <1>9, <2>2, Zenon DEF Handle, Evaluate, InsertFinding, DowngradeGroup, Commit,
         CommitInDoubt, StepFails, FlagGroup, FlagFails
    <3>2. \E p \in PC \ {"idle"} : pc' = [pc EXCEPT ![w] = p]
      BY <1>9, <2>2, SMTT(30) DEF Handle, Evaluate, InsertFinding, DowngradeGroup, Commit,
         CommitInDoubt, StepFails, FailTo, FlagGroup, FlagFails
    <3>3. \A v \in Worker : LastHolder(v, h) => LastHolder(v, h)'
      BY <3>1, <3>2, SMTT(30) DEF LastHolder, IInv, TypeOK
    <3> QED
      BY <1>2, <3>1, <3>3
  <2> QED
    BY <2>1, <2>2
<1>10. ASSUME Person \/ UNCHANGED vars, NEW h \in Group PROVE Last(h)'
  <2>1. UNCHANGED <<queueVars, workerVars>>
    BY <1>10, Zenon DEF Person, Review, FlagForReview, SetStatus, Split, Merge, Regroup, vars
  <2> QED
    BY <1>4, <2>1
<1>11. \A w \in Worker : ~Crash(w)
  BY DEF Crash
<1> HIDE DEF Last
<1>12. \A h \in Group : Last(h)'
  BY <1>5, <1>6, <1>7, <1>9, <1>10, <1>11, Zenon DEF Next
<1> QED
  BY <1>12 DEF Last, LastDeliveryInv

\* The invariant holds initially.
LEMMA InitTrace == Init => HandInv /\ LastDeliveryInv
BY SMTT(30) DEF Init, HandInv, LastDeliveryInv

\* As long as the process survives its handlers and the last-resort UPDATE does
\* not fail, no verification request is consumed without a finding or a
\* downgrade, whatever is redelivered, lost or fails (verify_worker.go:117-168).
THEOREM NothingDroppedWithoutCrash ==
    ASSUME {"crash", "flag"} \cap Fault = {}
    PROVE  Spec => []NothingDropped
<1>1. TraceInv => NothingDropped
  BY SMTT(30) DEF TraceInv, LastDeliveryInv, LastHolder, NothingDropped, Settled, InHand,
     IInv, TypeOK
<1>2. TraceInv /\ [Next]_vars => TraceInv'
  BY NextInv, NextHand, NextLast DEF TraceInv
<1> QED
  BY InitInv, InitTrace, <1>1, <1>2, PTL DEF Spec, TraceInv

-----------------------------------------------------------------------------
(* One worker loop, the way the API is deployed.                           *)

OneLoop == \A v, w \in Worker : v = w

\* Nobody else can record a finding between the NOT EXISTS test and the commit.
InsertInv == \A w \in Worker : tx[w].insert => ~HasFinding(job[w])

LoopInv == IInv /\ InsertInv /\ OneFindingPerGroup

\* What a committing transaction adds: the first finding of its group, or none.
LEMMA DurableFinding ==
    ASSUME LoopInv, NEW w \in Worker, pc[w] = "commit", Durable(w)
    PROVE  \/ UNCHANGED findings
           \/ /\ tx[w].insert
              /\ ~HasFinding(job[w])
              /\ \E f \in Finding : /\ f.group = job[w]
                                    /\ f.exceeds = exceeds[w]
                                    /\ findings' = findings \cup {f}
<1> DEFINE f == [group |-> job[w], attempt |-> attempt[w], exceeds |-> exceeds[w]]
<1>1. CASE tx[w].insert
  <2>1. findings' = findings \cup {f}
    BY <1>1, Zenon DEF Durable
  <2>2. f \in Finding /\ f.group = job[w] /\ f.exceeds = exceeds[w]
    BY DEF LoopInv, IInv, TypeOK, WorkerInv
  <2>3. ~HasFinding(job[w])
    BY <1>1, Zenon DEF LoopInv, InsertInv
  <2> QED
    BY <1>1, <2>1, <2>2, <2>3, Zenon
<1>2. CASE ~tx[w].insert
  BY <1>2, Zenon DEF Durable
<1> QED
  BY <1>1, <1>2

\* Only a commit writes findings.
LEMMA FindingsWriters ==
    ASSUME [Next]_vars
    PROVE  \/ UNCHANGED findings
           \/ \E w \in Worker : /\ pc[w] = "commit" /\ Durable(w)
                                /\ UNCHANGED <<delivery, delivered, job, attempt, exceeds>>
BY Zenon DEF Next, LinkTool, Person, Link, PublishVerification, PublishFails, AckWaitExpires,
   Review, FlagForReview, SetStatus, Split, Merge, Regroup, Receive, Handle, Evaluate,
   InsertFinding, DowngradeGroup, Commit, CommitInDoubt, StepFails, Nak, FlagGroup,
   FlagFails, Ack, ReplyLost, Crash, vars

\* A group has at most one finding, and a pending one is its first.
LEMMA NextLoop ==
    ASSUME LoopInv, [Next]_vars, OneLoop
    PROVE  LoopInv'
<1>1. IInv'
  BY NextInv DEF LoopInv
<1>2. CASE \E w \in Worker : /\ pc[w] = "commit" /\ Durable(w)
                             /\ UNCHANGED <<delivery, delivered, job, attempt, exceeds>>
  <2>1. PICK w \in Worker : pc[w] = "commit" /\ Durable(w)
    BY <1>2
  <2>2. \A v \in Worker : ~tx'[v].insert
    BY <2>1, SMTT(30) DEF Durable, OneLoop, LoopInv, IInv, TypeOK
  <2>3. OneFindingPerGroup'
    BY <2>1, DurableFinding, SMTT(30) DEF OneFindingPerGroup, HasFinding, LoopInv
  <2> QED
    BY <1>1, <2>2, <2>3 DEF LoopInv, InsertInv
<1>3. CASE UNCHANGED findings
  <2>1. OneFindingPerGroup'
    BY <1>3 DEF OneFindingPerGroup, LoopInv
  <2>2. ASSUME NEW w \in Worker, InsertFinding(w) PROVE InsertInv'
    <3>1. PICK b \in BOOLEAN : b = ~HasFinding(job[w])
      BY Zenon
    <3>2. tx' = [tx EXCEPT ![w].insert = b]
      BY <2>2, <3>1, Zenon DEF InsertFinding
    <3>3. tx'[w].insert = b /\ UNCHANGED job
      BY <2>2, <3>2, SMTT(30) DEF InsertFinding, LoopInv, IInv, TypeOK
    <3>4. HasFinding(job[w])' <=> HasFinding(job[w])
      BY <1>3, <3>3 DEF HasFinding
    <3>5. \A v \in Worker : v = w
      BY DEF OneLoop
    <3>6. tx'[w].insert => ~HasFinding(job[w])'
      BY <3>1, <3>3, <3>4, Zenon
    <3>7. ASSUME NEW v \in Worker PROVE tx'[v].insert => ~HasFinding(job[v])'
      <4>1. v = w
        BY <3>5
      <4> QED
        BY <3>6, <4>1
    <3> QED
      BY <3>7 DEF InsertInv
  <2>3. CASE \A w \in Worker : tx'[w].insert => tx[w].insert /\ job'[w] = job[w]
    <3>1. ASSUME NEW w \in Worker, tx'[w].insert PROVE ~HasFinding(job[w])'
      <4>1. tx[w].insert /\ job'[w] = job[w]
        BY <2>3, <3>1
      <4>2. ~HasFinding(job[w])
        BY <4>1, Zenon DEF LoopInv, InsertInv
      <4> QED
        BY <1>3, <4>1, <4>2 DEF HasFinding
    <3> QED
      BY <1>1, <2>1, <3>1 DEF InsertInv, LoopInv
  <2>4. (\E w \in Worker : InsertFinding(w))
          \/ \A w \in Worker : tx'[w].insert => tx[w].insert /\ job'[w] = job[w]
    <3>1. CASE UNCHANGED <<tx, job>>
      BY <3>1
    <3>2. ASSUME NEW w \in Worker, Release(w)
          PROVE  \A v \in Worker : tx'[v].insert => tx[v].insert /\ job'[v] = job[v]
      BY <3>2, SMTT(30) DEF Release, LoopInv, IInv, TypeOK
    <3>3. ASSUME NEW w \in Worker, Durable(w) \/ StepFails(w), UNCHANGED job
          PROVE  \A v \in Worker : tx'[v].insert => tx[v].insert /\ job'[v] = job[v]
      BY <3>3, SMTT(30) DEF Durable, StepFails, LoopInv, IInv, TypeOK
    <3>4. ASSUME NEW w \in Worker, NEW g \in Group, Receive(w, g)
          PROVE  \A v \in Worker : tx'[v].insert => tx[v].insert /\ job'[v] = job[v]
      BY <3>4, SMTT(30) DEF Receive, LoopInv, IInv, TypeOK, WorkerInv
    <3>5. ASSUME NEW w \in Worker, DowngradeGroup(w)
          PROVE  \A v \in Worker : tx'[v].insert => tx[v].insert /\ job'[v] = job[v]
      BY <3>5, SMTT(30) DEF DowngradeGroup, LoopInv, IInv, TypeOK
    <3> QED
      BY <3>1, <3>2, <3>3, <3>4, <3>5, Zenon
         DEF Next, LinkTool, Person, Link, PublishVerification, PublishFails, AckWaitExpires,
         Review, FlagForReview, SetStatus, Split, Merge, Regroup, Handle, Evaluate,
         Commit, CommitInDoubt, StepFails, Nak, FlagGroup, FlagFails, Ack, ReplyLost,
         Crash, vars
  <2> QED
    BY <1>1, <2>1, <2>2, <2>3, <2>4 DEF LoopInv
<1> QED
  BY <1>2, <1>3, FindingsWriters

\* The invariant holds initially.
LEMMA InitLoop == Init => LoopInv
BY InitInv, SMTT(30) DEF Init, LoopInv, InsertInv, OneFindingPerGroup

LEMMA LoopInvariance ==
    ASSUME OneLoop
    PROVE  Spec => []LoopInv
<1>1. LoopInv /\ [Next]_vars => LoopInv'
  BY NextLoop
<1> QED
  BY InitLoop, <1>1, PTL DEF Spec

\* With one worker loop a group never gets a second finding, whatever is
\* redelivered or crashes (verify_worker.go:273-286).
THEOREM OneFinding ==
    ASSUME OneLoop
    PROVE  Spec => []OneFindingPerGroup
BY LoopInvariance, PTL DEF LoopInv

-----------------------------------------------------------------------------
(* Refinement.                                                             *)

Verdicts == [g \in Group |-> VerdictOf(g)]

\* A step that writes no finding leaves every verdict alone.
LEMMA SameVerdicts ==
    ASSUME UNCHANGED findings
    PROVE  Verdicts' = Verdicts
BY DEF Verdicts, VerdictOf, HasFinding

\* The first finding of a group gives it its verdict and no other group one.
LEMMA FirstVerdict ==
    ASSUME NEW f \in Finding, ~HasFinding(f.group), findings' = findings \cup {f}
    PROVE  /\ VerdictOf(f.group) = "none"
           /\ Verdicts' = [Verdicts EXCEPT ![f.group] = IF f.exceeds THEN "exceeds"
                                                                     ELSE "within"]
<1> DEFINE v == IF f.exceeds THEN "exceeds" ELSE "within"
<1>1. VerdictOf(f.group) = "none"
  BY DEF VerdictOf
<1>2. VerdictOf(f.group)' = v
  BY SMTT(30) DEF VerdictOf, HasFinding
<1>3. ASSUME NEW g \in Group, g # f.group PROVE VerdictOf(g)' = VerdictOf(g)
  BY <1>3, SMTT(30) DEF VerdictOf, HasFinding
<1>4. f.group \in Group
  OBVIOUS
<1>5. ASSUME NEW g \in Group
      PROVE  Verdicts'[g] = [Verdicts EXCEPT ![f.group] = v][g]
  BY <1>2, <1>3, <1>4, Zenon DEF Verdicts
<1>6. Verdicts' = [Verdicts EXCEPT ![f.group] = v]
  BY <1>5, Zenon DEF Verdicts
<1> QED
  BY <1>1, <1>6

\* A commit records the verdict together with the downgrade it demands, or
\* downgrades for a verdict already recorded, or changes nothing.
LEMMA DurableRefines ==
    ASSUME LoopInv, NEW w \in Worker, pc[w] = "commit", Durable(w)
    PROVE  D!Next \/ UNCHANGED <<status, Verdicts>>
<1> DEFINE g == job[w]
<1>1. g \in Group /\ Exists(g)
  BY DEF LoopInv, IInv, WorkerInv
<1>2. status' = IF tx[w].lock THEN [status EXCEPT ![g] = "needs_review"] ELSE status
  BY DEF Durable
<1>3. CASE UNCHANGED findings /\ tx[w].lock
  <2>1. status[g] = "auto_linked"
    BY <1>3 DEF LoopInv, IInv, TxInv
  <2>2. D!Downgrade(g)
    BY <1>2, <1>3, <2>1, SameVerdicts DEF D!Downgrade, Verdicts
  <2> QED
    BY <1>1, <2>2, Zenon DEF D!Next, D!Machine
<1>4. CASE UNCHANGED findings /\ ~tx[w].lock
  BY <1>2, <1>4, SameVerdicts
<1>5. CASE /\ tx[w].insert
           /\ ~HasFinding(g)
           /\ \E f \in Finding : /\ f.group = g
                                 /\ f.exceeds = exceeds[w]
                                 /\ findings' = findings \cup {f}
  <2> DEFINE v == IF exceeds[w] THEN "exceeds" ELSE "within"
  <2>1. /\ VerdictOf(g) = "none"
        /\ Verdicts' = [Verdicts EXCEPT ![g] = v]
    BY <1>5, FirstVerdict
  <2>2. tx[w].lock <=> exceeds[w] /\ status[g] = "auto_linked"
    BY Zenon DEF LoopInv, IInv, WorkerInv, TxInv
  <2>3. status' = IF v = "exceeds" /\ status[g] = "auto_linked"
                  THEN [status EXCEPT ![g] = "needs_review"] ELSE status
    BY <1>2, <2>2
  <2>4. v \in D!Verdict \ {"none"}
    BY DEF D!Verdict
  <2>5. D!RecordVerdict(g, v)
    BY <1>1, <2>1, <2>3 DEF D!RecordVerdict, D!Exists, Verdicts
  <2> QED
    BY <1>1, <2>4, <2>5 DEF D!Next, D!Machine
<1> QED
  BY <1>3, <1>4, <1>5, DurableFinding

\* Every step of the pipeline is a step of Disposition, or none.
LEMMA StepRefines ==
    ASSUME LoopInv, [Next]_vars
    PROVE  D!Next \/ UNCHANGED <<status, Verdicts>>
<1> DEFINE Goal == D!Next \/ UNCHANGED <<status, Verdicts>>
<1>1. ASSUME NEW g \in Group, NEW s \in MachineStatus, Link(g, s) PROVE Goal
  <2>1. D!Link(g, s)
    BY <1>1, SameVerdicts DEF Link, D!Link, D!Exists, Verdicts
  <2> QED
    BY <2>1 DEF D!Next, D!Machine, D!MachineStatus
<1>2. ASSUME NEW g \in Group, NEW s \in HumanStatus \cup {"needs_review"}, SetStatus(g, s)
      PROVE  Goal
  <2>1. D!Decide(g, s)
    BY <1>2, SameVerdicts DEF SetStatus, D!Decide, D!Exists, Verdicts
  <2> QED
    BY <2>1 DEF D!Next, D!Person, D!HumanStatus
<1>3. ASSUME NEW old \in SUBSET Group, NEW new \in SUBSET Group, Regroup(old, new) PROVE Goal
  <2>1. D!Regroup(old, new)
    BY <1>3, SameVerdicts DEF Regroup, D!Regroup, D!Exists, Verdicts
  <2> QED
    BY <2>1 DEF D!Next, D!Person
<1>4. ASSUME NEW w \in Worker, FlagGroup(w) PROVE Goal
  <2>1. job[w] \in Group /\ UNCHANGED Verdicts
    BY <1>4, SameVerdicts DEF FlagGroup, LoopInv, IInv, WorkerInv
  <2>2. CASE status[job[w]] = "auto_linked"
    <3>1. D!Downgrade(job[w])
      BY <1>4, <2>1, <2>2 DEF FlagGroup, D!Downgrade, Verdicts
    <3> QED
      BY <2>1, <3>1 DEF D!Next, D!Machine
  <2>3. CASE status[job[w]] # "auto_linked"
    BY <1>4, <2>1, <2>3 DEF FlagGroup
  <2> QED
    BY <2>2, <2>3
<1>5. CASE UNCHANGED <<status, findings>>
  BY <1>5, SameVerdicts
<1>6. CASE Person
  BY <1>6, <1>2, <1>3, Zenon DEF Person, Review, FlagForReview, Split, Merge
<1>7. ASSUME NEW w \in Worker, Handle(w) PROVE Goal
  BY <1>4, <1>5, <1>7, DurableRefines, Zenon DEF Handle, Evaluate, InsertFinding,
     DowngradeGroup, Commit, CommitInDoubt, StepFails, Nak, FlagFails, Ack, ReplyLost
<1> QED
  BY <1>1, <1>5, <1>6, <1>7, Zenon DEF Next, LinkTool, PublishVerification, PublishFails,
     AckWaitExpires, Receive, Crash, vars

\* With one worker loop the queue, the retries, the crashes and the statement-
\* by-statement transaction are invisible: statuses and verdicts change only as
\* Disposition allows (verify_worker.go:242-317, mcp.go:171-193).
THEOREM ImplementsDisposition ==
    ASSUME OneLoop
    PROVE  Spec => RefinesDisposition
<1>1. Init => D!Init
  BY DEF Init, D!Init, VerdictOf, HasFinding
<1>2. LoopInv /\ [Next]_vars => [D!Next]_(D!vars)
  BY StepRefines DEF D!vars, Verdicts
<1> QED
  BY LoopInvariance, <1>1, <1>2, PTL DEF Spec, RefinesDisposition, D!Spec
=============================================================================
