------------------------ MODULE DocumentIntakeProofs ------------------------
(***************************************************************************)
(* Theorems of DocumentIntake, for every set of documents, contents and    *)
(* coordinators and every bound. What depends on the faults says so.       *)
(***************************************************************************)
EXTENDS DocumentIntake, TLAPS

\* The queue: a message that may still be delivered has deliveries left.
QueueInv == \A m \in Msg : delivery[m] \in {"none", "ready"} => delivered[m] < MaxDeliver

\* The coordinator: a busy one holds a message and the number of a delivery.
HandInv ==
    \A c \in Coordinator : Working(c) => job[c] \in Msg /\ attempt[c] \in 1..MaxDeliver

\* The rows: only a written row has a hash.
RowInv == \A d \in Doc : hash[d] # NoContent => Exists(d)

\* The row lock has one holder, and what its count saw is still so at the commit.
LockInv ==
    /\ \A c, e \in Coordinator :
           /\ pc[c] \in {"count", "commit"}
           /\ pc[e] \in {"count", "commit"}
           /\ job[c][1] = job[e][1]
           => c = e
    /\ \A c \in Coordinator : pc[c] = "commit" => ~Loaded(job[c][1])

IInv ==
    /\ TypeOK
    /\ QueueInv
    /\ HandInv
    /\ RowInv
    /\ LockInv
    /\ UniqueContent
    /\ EntitiesOnce

-----------------------------------------------------------------------------
(* The invariant is inductive.                                             *)

USE MaxMsgAssumption, MaxDeliverAssumption
DEF Phase, Status, Delivery, PC, Exists, Working,
    objectVars, requestVars, queueVars, handVars, handlerVars, outputVars, GoTo, Bytes

\* A message is about a document, and every event slot is a message.
LEMMA MsgFacts ==
    /\ \A m \in Msg : m[1] \in Doc
    /\ \A d \in Doc, k \in 1..MaxMsg : <<d, k>> \in Msg
BY DEF Msg

\* The invariant holds initially.
LEMMA InitInv == Init => IInv
BY SMTT(30) DEF Init, IInv, TypeOK, QueueInv, HandInv, RowInv, LockInv, Loaded,
     UniqueContent, EntitiesOnce

\* What a request changes is no coordinator's business.
LEMMA RequestPreserves ==
    ASSUME IInv, NEW d \in Doc, Request(d)
    PROVE  IInv'
<1>1. UNCHANGED <<handlerVars, outputVars, delivered>>
  BY Zenon DEF Request, UploadCheck, ClientPut, PutObject, InsertRow, Presign, ConfirmCheck,
     ConfirmRefused, ConfirmUpdate, Publish, PublishFails
<1>2. HandInv' /\ LockInv' /\ EntitiesOnce'
  BY <1>1 DEF IInv, HandInv, LockInv, Loaded, EntitiesOnce
<1>3. CASE Publish(d)
  <2>1. TypeOK' /\ QueueInv'
    BY <1>3, <1>1, MsgFacts, SMTT(30) DEF Publish, IInv, TypeOK, QueueInv
  <2>2. RowInv' /\ UniqueContent'
    BY <1>3 DEF Publish, IInv, RowInv, UniqueContent
  <2> QED
    BY <1>2, <2>1, <2>2 DEF IInv
<1>4. CASE ~Publish(d)
  <2>1. UNCHANGED queueVars
    BY <1>4, Zenon DEF Request, UploadCheck, ClientPut, PutObject, InsertRow, Presign,
       ConfirmCheck, ConfirmRefused, ConfirmUpdate, PublishFails
  <2>2. TypeOK'
    BY <1>1, <1>4, <2>1, SMTT(30) DEF IInv, TypeOK, Request, UploadCheck, ClientPut,
       PutObject, InsertRow, Presign, ConfirmCheck, ConfirmRefused, ConfirmUpdate, PublishFails
  <2>3. QueueInv'
    BY <2>1 DEF IInv, QueueInv
  <2>4. RowInv' /\ UniqueContent'
    <3>1. CASE InsertRow(d) \/ ConfirmUpdate(d)
      BY <3>1, SMTT(30) DEF InsertRow, ConfirmUpdate, IndexAdmits, Fresh, IInv, TypeOK,
         RowInv, UniqueContent
    <3>2. CASE Presign(d)
      BY <3>2, SMTT(30) DEF Presign, IInv, TypeOK, RowInv, UniqueContent
    <3>3. CASE UNCHANGED <<hash, status>>
      BY <3>3 DEF IInv, RowInv, UniqueContent
    <3> QED
      BY <1>4, <3>1, <3>2, <3>3, Zenon DEF Request, UploadCheck, ClientPut, PutObject,
         ConfirmCheck, ConfirmRefused, PublishFails
  <2> QED
    BY <1>2, <2>2, <2>3, <2>4 DEF IInv
<1> QED
  BY <1>3, <1>4

\* A handler that moves on without committing entities, taking the lock or
\* reaching the commit keeps the lock discipline.
LEMMA MoveOnPreserves ==
    ASSUME IInv, NEW c \in Coordinator, Working(c),
           NEW p \in PC \ {"idle", "count", "commit"}, pc' = [pc EXCEPT ![c] = p],
           UNCHANGED <<requestVars, queueVars, job, attempt, loaded>>,
           streamed' \in [Coordinator -> Bytes],
           status' = status \/ (\E s \in {"done", "failed"} :
                                    status' = [status EXCEPT ![job[c][1]] = s]),
           extracted' \subseteq Doc, linked' \subseteq Doc
    PROVE  IInv'
<1>1. job[c][1] \in Doc
  BY MsgFacts DEF IInv, HandInv
<1>2. TypeOK'
  <2>1. status' \in [Doc -> Status]
    BY <1>1 DEF IInv, TypeOK
  <2>2. pc' \in [Coordinator -> PC]
    BY DEF IInv, TypeOK
  <2> QED
    BY <2>1, <2>2, Zenon DEF IInv, TypeOK
<1>3. QueueInv' /\ UniqueContent' /\ EntitiesOnce'
  BY DEF IInv, QueueInv, UniqueContent, EntitiesOnce
<1>4. HandInv' /\ LockInv'
  BY SMTT(30) DEF IInv, TypeOK, HandInv, LockInv, Loaded
<1>5. RowInv'
  BY <1>1, SMTT(30) DEF IInv, TypeOK, RowInv
<1> QED
  BY <1>2, <1>3, <1>4, <1>5 DEF IInv

\* A handler that returns, or dies, may leave its message in any state the
\* queue allows.
LEMMA ReleasePreserves ==
    ASSUME IInv, NEW c \in Coordinator, Working(c), Release(c),
           NEW q \in {"ready", "acked", "exhausted"},
           q = "ready" => delivered[job[c]] < MaxDeliver,
           delivery' = delivery \/ delivery' = [delivery EXCEPT ![job[c]] = q],
           UNCHANGED <<requestVars, status, delivered, outputVars>>
    PROVE  IInv'
<1>1. job[c] \in Msg
  BY DEF IInv, HandInv
<1>2. TypeOK' /\ QueueInv'
  BY <1>1, SMTT(30) DEF Release, IInv, TypeOK, QueueInv
<1>3. HandInv' /\ LockInv'
  BY SMTT(30) DEF Release, IInv, TypeOK, HandInv, LockInv, Loaded
<1>4. RowInv' /\ UniqueContent' /\ EntitiesOnce'
  BY DEF IInv, RowInv, UniqueContent, EntitiesOnce
<1> QED
  BY <1>2, <1>3, <1>4 DEF IInv

\* Taking the row lock waits for whoever holds it.
LEMMA LockPreserves ==
    ASSUME IInv, NEW c \in Coordinator, LockDocument(c)
    PROVE  IInv'
<1>1. TypeOK' /\ QueueInv' /\ HandInv' /\ RowInv' /\ UniqueContent' /\ EntitiesOnce'
  BY SMTT(30) DEF LockDocument, IInv, TypeOK, QueueInv, HandInv, RowInv, UniqueContent,
     EntitiesOnce
<1>2. LockInv'
  BY SMTT(30) DEF LockDocument, Locked, IInv, TypeOK, LockInv, Loaded
<1> QED
  BY <1>1, <1>2 DEF IInv

\* Only a count that saw no entities leads to the commit.
LEMMA CountPreserves ==
    ASSUME IInv, NEW c \in Coordinator, CountEntities(c)
    PROVE  IInv'
<1>1. CASE Loaded(job[c][1])
  BY <1>1, MoveOnPreserves, Zenon DEF CountEntities, IInv, TypeOK
<1>2. CASE ~Loaded(job[c][1])
  <2>1. /\ pc[c] = "count"
        /\ pc' = [pc EXCEPT ![c] = "commit"]
        /\ UNCHANGED <<requestVars, status, queueVars, handVars, outputVars>>
    BY <1>2 DEF CountEntities
  <2>2. TypeOK' /\ QueueInv' /\ HandInv' /\ RowInv' /\ UniqueContent' /\ EntitiesOnce'
    BY <2>1, SMTT(30) DEF IInv, TypeOK, QueueInv, HandInv, RowInv, UniqueContent, EntitiesOnce
  <2>3. LockInv'
    BY <1>2, <2>1, SMTT(30) DEF IInv, TypeOK, LockInv, Loaded
  <2> QED
    BY <2>2, <2>3 DEF IInv
<1> QED
  BY <1>1, <1>2

\* The commit adds a first batch, and leaves nobody else about to add one.
LEMMA CommitPreserves ==
    ASSUME IInv, NEW c \in Coordinator, CommitEntities(c)
    PROVE  IInv'
<1>1. PICK p \in {"mark", "nak", "flag"} : pc' = [pc EXCEPT ![c] = p]
  BY Zenon DEF CommitEntities, Then, FailTo
<1> DEFINE new == [msg |-> job[c], attempt |-> attempt[c], of |-> streamed[c]]
<1>2. /\ pc[c] = "commit"
      /\ loaded' = loaded \cup {new}
      /\ UNCHANGED <<requestVars, status, queueVars, handVars, extracted, linked>>
  BY DEF CommitEntities
<1>3. new \in Batch
  BY <1>2, SMTT(30) DEF IInv, TypeOK, HandInv, Batch
<1>4. ~Loaded(job[c][1])
  BY <1>2 DEF IInv, LockInv
<1>5. TypeOK' /\ QueueInv' /\ HandInv' /\ RowInv' /\ UniqueContent'
  BY <1>1, <1>2, <1>3, SMTT(30) DEF IInv, TypeOK, QueueInv, HandInv, RowInv, UniqueContent
<1>6. EntitiesOnce'
  BY <1>2, <1>4 DEF IInv, EntitiesOnce, Loaded
<1>7. LockInv'
  BY <1>1, <1>2, SMTT(30) DEF IInv, TypeOK, LockInv, Loaded
<1> QED
  BY <1>5, <1>6, <1>7 DEF IInv

\* No step of a coordinator breaks the invariant.
LEMMA HandlePreserves ==
    ASSUME IInv, NEW c \in Coordinator, Handle(c)
    PROVE  IInv'
<1>1. CASE Ingest(c)
  <2>1. PICK p \in {"lock", "mark"} : pc' = [pc EXCEPT ![c] = p]
    BY <1>1, Zenon DEF Ingest
  <2>2. streamed' \in [Coordinator -> Bytes]
    <3>1. content[job[c][1]] \in Bytes
      BY <1>1, MsgFacts DEF Ingest, IInv, TypeOK, HandInv
    <3> QED
      BY <1>1, <3>1 DEF Ingest, IInv, TypeOK
  <2>3. extracted' \subseteq Doc /\ linked' \subseteq Doc
    BY <1>1 DEF Ingest, IInv, TypeOK
  <2> QED
    BY <1>1, <2>1, <2>2, <2>3, MoveOnPreserves, Zenon DEF Ingest
<1>2. CASE MarkDone(c) \/ RequestExtraction(c) \/ RequestLink(c)
  <2>1. PICK p \in {"extract", "link", "ack", "nak", "flag"} : pc' = [pc EXCEPT ![c] = p]
    BY <1>2, Zenon DEF MarkDone, RequestExtraction, RequestLink, Then, FailTo
  <2>2. extracted' \subseteq Doc /\ linked' \subseteq Doc
    BY <1>2, MsgFacts DEF MarkDone, RequestExtraction, RequestLink, IInv, TypeOK, HandInv
  <2> QED
    BY <1>2, <2>1, <2>2, MoveOnPreserves, Zenon DEF MarkDone, RequestExtraction, RequestLink,
       IInv, TypeOK
<1>3. CASE StepFails(c)
  <2>1. FailTo(c) \in {"nak", "flag"}
    BY DEF FailTo
  <2> QED
    BY <1>3, <2>1, MoveOnPreserves, Zenon DEF StepFails, IInv, TypeOK
<1>4. CASE MarkFailed(c) \/ MarkFailedFails(c)
  BY <1>4, MoveOnPreserves, Zenon DEF MarkFailed, MarkFailedFails, IInv, TypeOK
<1>5. CASE Nak(c)
  <2>1. Working(c) /\ Requeued(job[c]) \in {"ready", "exhausted"}
    BY <1>5 DEF Nak, Requeued
  <2>2. Requeued(job[c]) = "ready" => delivered[job[c]] < MaxDeliver
    BY DEF Requeued
  <2>3. delivery' = delivery \/ delivery' = [delivery EXCEPT ![job[c]] = Requeued(job[c])]
    BY <1>5 DEF Nak, IInv, TypeOK
  <2> QED
    BY <1>5, <2>1, <2>2, <2>3, ReleasePreserves DEF Nak
<1>6. CASE Ack(c)
  <2>1. delivery' = delivery \/ delivery' = [delivery EXCEPT ![job[c]] = "acked"]
    BY <1>6 DEF Ack, IInv, TypeOK
  <2> QED
    BY <1>6, <2>1, ReleasePreserves DEF Ack
<1>7. CASE ReplyLost(c)
  BY <1>7, ReleasePreserves DEF ReplyLost
<1> QED
  BY <1>1, <1>2, <1>3, <1>4, <1>5, <1>6, <1>7, LockPreserves, CountPreserves,
     CommitPreserves, Zenon DEF Handle

\* A delivery is counted, and puts a message in the hands of an idle coordinator.
LEMMA ReceivePreserves ==
    ASSUME IInv, NEW c \in Coordinator, NEW m \in Msg, Receive(c, m)
    PROVE  IInv'
<1>1. delivered[m] + 1 \in 1..MaxDeliver
  BY SMTT(30) DEF Receive, IInv, TypeOK, QueueInv
<1>2. TypeOK' /\ QueueInv' /\ HandInv'
  BY <1>1, SMTT(30) DEF Receive, IInv, TypeOK, QueueInv, HandInv
<1>3. LockInv'
  BY SMTT(30) DEF Receive, IInv, TypeOK, LockInv, Loaded
<1>4. RowInv' /\ UniqueContent' /\ EntitiesOnce'
  BY DEF Receive, IInv, RowInv, UniqueContent, EntitiesOnce
<1> QED
  BY <1>2, <1>3, <1>4 DEF IInv

\* No step of the system, and no stutter, breaks the invariant.
LEMMA NextInv == IInv /\ [Next]_vars => IInv'
<1> SUFFICES ASSUME IInv, [Next]_vars PROVE IInv'
  OBVIOUS
<1>1. ASSUME NEW m \in Msg, AckWaitExpires(m) PROVE IInv'
  <2>1. TypeOK' /\ QueueInv'
    BY <1>1, SMTT(30) DEF AckWaitExpires, Requeued, IInv, TypeOK, QueueInv
  <2>2. HandInv' /\ RowInv' /\ LockInv' /\ UniqueContent' /\ EntitiesOnce'
    BY <1>1 DEF AckWaitExpires, IInv, HandInv, RowInv, LockInv, Loaded, UniqueContent,
       EntitiesOnce
  <2> QED
    BY <2>1, <2>2 DEF IInv
<1>2. ASSUME NEW c \in Coordinator, Crash(c) PROVE IInv'
  BY <1>2, ReleasePreserves DEF Crash
<1>3. CASE UNCHANGED vars
  BY <1>3 DEF vars, IInv, TypeOK, QueueInv, HandInv, RowInv, LockInv, Loaded,
     UniqueContent, EntitiesOnce
<1> QED
  BY <1>1, <1>2, <1>3, RequestPreserves, HandlePreserves, ReceivePreserves, Zenon DEF Next

\* Every reachable state satisfies the invariant.
LEMMA Invariance == Spec => []IInv
BY InitInv, NextInv, PTL DEF Spec

-----------------------------------------------------------------------------
(* What follows from it.                                                   *)

\* Every variable keeps its type; in particular no event is delivered more
\* than MaxDeliver times (coordinator.go:108-113).
THEOREM IntakeTypeCorrect == Spec => []TypeOK
BY Invariance, PTL DEF IInv

\* With any number of coordinators, redeliveries, confirms and faults, a
\* document's entities are loaded at most once (coordinator.go:472-517).
THEOREM LoadedOnce == Spec => []EntitiesOnce
BY Invariance, PTL DEF IInv

\* Whatever uploads and confirms race, no two rows share a content hash
\* (documents.go:148-198, 359-389).
THEOREM ContentUnique == Spec => []UniqueContent
BY Invariance, PTL DEF IInv

-----------------------------------------------------------------------------
(* Consumed events are recorded.  Without crashes and without a failing     *)
(* last-resort UPDATE, a queued document that is neither done nor failed    *)
(* has a live event: one that is to be delivered again, or whose last       *)
(* delivery is in the hands of a coordinator that has yet to write a status.*)

\* A message once taken was published; a nak is for one with deliveries left;
\* only a message without any is given up by the queue.
ReplyInv ==
    /\ \A c \in Coordinator : Working(c) => delivery[job[c]] # "none"
    /\ \A c \in Coordinator : pc[c] = "nak" => attempt[c] < MaxDeliver
    /\ \A m \in Msg : delivery[m] = "exhausted" => delivered[m] = MaxDeliver

\* c holds m and has still to write a status, or to answer that it failed.
LastHand(c, m) ==
    /\ job[c] = m
    /\ attempt[c] = MaxDeliver
    /\ pc[c] \in {"ingest", "lock", "count", "commit", "mark", "flag"}

Recorded(c, m) == job[c] = m /\ pc[c] \in {"extract", "link", "ack"}

Live(m) ==
    /\ delivery[m] \in {"ready", "unacked", "exhausted"}
    /\ \A c \in Coordinator : ~Recorded(c, m)
    /\ delivered[m] = MaxDeliver => \E c \in Coordinator : LastHand(c, m)

Awaited(d) == phase[d] = "queued" /\ status[d] \notin {"done", "failed"}

LiveInv == \A d \in Doc : Awaited(d) => \E k \in 1..MaxMsg : Live(<<d, k>>)

\* The failures the two theorems below leave out: they lose the status itself.
StatusSurvives == "crash" \notin Fault /\ "flag" \notin Fault

\* A coordinator moves on within a handler: either it writes a status, or it had
\* written one before, or it still has one to write.
LEMMA MoveKeepsLive ==
    ASSUME IInv, ReplyInv, LiveInv, NEW c \in Coordinator, Working(c),
           NEW p \in PC \ {"idle"}, pc' = [pc EXCEPT ![c] = p],
           UNCHANGED <<phase, queueVars, job, attempt>>,
           p = "nak" => attempt[c] < MaxDeliver,
           \/ \E s \in {"done", "failed"} : status' = [status EXCEPT ![job[c][1]] = s]
           \/ /\ status' = status
              /\ \/ pc[c] \in {"extract", "link"}
                 \/ p \in {"lock", "count", "commit", "mark", "flag", "nak"}
    PROVE  ReplyInv' /\ LiveInv'
<1>1. ReplyInv'
  BY SMTT(30) DEF ReplyInv, IInv, TypeOK
<1>2. ASSUME NEW d \in Doc, Awaited(d)'
      PROVE  \E k \in 1..MaxMsg : Live(<<d, k>>)'
  <2>1. /\ Awaited(d)
        /\ d = job[c][1] => \/ pc[c] \in {"extract", "link"}
                            \/ p \in {"lock", "count", "commit", "mark", "flag", "nak"}
    BY <1>2, SMTT(30) DEF Awaited, IInv, TypeOK
  <2>2. PICK k \in 1..MaxMsg : Live(<<d, k>>)
    BY <2>1 DEF LiveInv
  <2> DEFINE m == <<d, k>>
  <2>3. ASSUME job[c] = m
        PROVE  p \in {"lock", "count", "commit", "mark", "flag", "nak"}
    <3>1. ~Recorded(c, m)
      BY <2>2 DEF Live
    <3> QED
      BY <2>1, <2>3, <3>1, SMTT(30) DEF Recorded
  <2>4. \A e \in Coordinator : ~Recorded(e, m)'
    BY <2>2, <2>3, SMTT(30) DEF Live, Recorded, IInv, TypeOK
  <2>5. ASSUME NEW e \in Coordinator, LastHand(e, m) PROVE LastHand(e, m)'
    BY <2>3, <2>5, SMTT(30) DEF LastHand, IInv, TypeOK
  <2> QED
    BY <2>2, <2>4, <2>5 DEF Live
<1> QED
  BY <1>1, <1>2 DEF LiveInv

\* A handler that returns had not the last delivery of a live message in hand, and
\* acknowledges none.
LEMMA ReleaseKeepsLive ==
    ASSUME IInv, ReplyInv, LiveInv, NEW c \in Coordinator, pc[c] \in {"nak", "ack"},
           Release(c), NEW q \in {"ready", "acked", "exhausted"},
           pc[c] = "nak" => q # "acked",
           q = "exhausted" => delivered[job[c]] = MaxDeliver,
           delivery' = delivery \/ delivery' = [delivery EXCEPT ![job[c]] = q],
           UNCHANGED <<phase, status, delivered>>
    PROVE  ReplyInv' /\ LiveInv'
<1>1. job[c] \in Msg /\ Working(c)
  BY DEF IInv, HandInv
<1>2. ReplyInv'
  BY <1>1, SMTT(30) DEF Release, ReplyInv, IInv, TypeOK, HandInv
<1>3. ASSUME NEW d \in Doc, Awaited(d)'
      PROVE  \E k \in 1..MaxMsg : Live(<<d, k>>)'
  <2>1. PICK k \in 1..MaxMsg : Live(<<d, k>>)
    BY <1>3 DEF Awaited, LiveInv
  <2> DEFINE m == <<d, k>>
  <2>2. m \in Msg
    BY MsgFacts
  <2>3. delivery'[m] \in {"ready", "unacked", "exhausted"}
    BY <1>1, <2>1, <2>2, SMTT(30) DEF Live, Recorded, IInv, TypeOK
  <2>4. \A e \in Coordinator : ~Recorded(e, m)'
    BY <2>1, SMTT(30) DEF Release, Live, Recorded, IInv, TypeOK
  <2>5. ASSUME NEW e \in Coordinator, LastHand(e, m) PROVE LastHand(e, m)'
    BY <2>5, SMTT(30) DEF Release, LastHand, IInv, TypeOK
  <2> QED
    BY <2>1, <2>3, <2>4, <2>5 DEF Live
<1> QED
  BY <1>2, <1>3 DEF LiveInv

\* A failure is answered with a nak only while attempts remain.
LEMMA FailFacts ==
    ASSUME NEW c
    PROVE  FailTo(c) \in {"nak", "flag"} /\ (FailTo(c) = "nak" => attempt[c] < MaxDeliver)
BY DEF FailTo

\* No step of a coordinator loses track of a document.
LEMMA HandleKeepsLive ==
    ASSUME IInv, ReplyInv, LiveInv, StatusSurvives, NEW c \in Coordinator, Handle(c)
    PROVE  ReplyInv' /\ LiveInv'
<1>1. CASE Ingest(c) \/ LockDocument(c) \/ CountEntities(c) \/ StepFails(c)
  <2>1. PICK p \in {"lock", "count", "commit", "mark", "ack", "nak", "flag"} :
            /\ pc' = [pc EXCEPT ![c] = p]
            /\ p # "ack"
            /\ p = "nak" => attempt[c] < MaxDeliver
    BY <1>1, FailFacts, Zenon DEF Ingest, LockDocument, CountEntities, StepFails
  <2>2. Working(c) /\ UNCHANGED <<phase, status, queueVars, job, attempt>>
    BY <1>1 DEF Ingest, LockDocument, CountEntities, StepFails
  <2> QED
    BY <2>1, <2>2, MoveKeepsLive
<1>2. CASE CommitEntities(c) \/ RequestExtraction(c) \/ RequestLink(c)
  <2>1. PICK p \in {"mark", "link", "ack", "nak", "flag"} :
            /\ pc' = [pc EXCEPT ![c] = p]
            /\ p = "nak" => attempt[c] < MaxDeliver
            /\ pc[c] = "commit" => p \in {"mark", "nak", "flag"}
    BY <1>2, FailFacts, Zenon DEF CommitEntities, RequestExtraction, RequestLink, Then
  <2>2. /\ pc[c] \in {"commit", "extract", "link"}
        /\ UNCHANGED <<phase, status, queueVars, job, attempt>>
    BY <1>2 DEF CommitEntities, RequestExtraction, RequestLink
  <2> QED
    BY <2>1, <2>2, MoveKeepsLive
<1>3. CASE MarkDone(c) \/ MarkFailed(c)
  <2>1. PICK p \in {"extract", "ack", "nak", "flag"} :
            /\ pc' = [pc EXCEPT ![c] = p]
            /\ p = "nak" => attempt[c] < MaxDeliver
    BY <1>3, FailFacts, Zenon DEF MarkDone, MarkFailed, Then
  <2>2. /\ Working(c) /\ UNCHANGED <<phase, queueVars, job, attempt>>
        /\ \E s \in {"done", "failed"} : status' = [status EXCEPT ![job[c][1]] = s]
    BY <1>3 DEF MarkDone, MarkFailed
  <2> QED
    BY <2>1, <2>2, MoveKeepsLive
<1>4. CASE Nak(c)
  <2>1. /\ Requeued(job[c]) \in {"ready", "exhausted"}
        /\ Requeued(job[c]) = "exhausted" => delivered[job[c]] = MaxDeliver
    BY <1>4, SMTT(30) DEF Nak, Requeued, IInv, TypeOK, HandInv
  <2>2. delivery' = delivery \/ delivery' = [delivery EXCEPT ![job[c]] = Requeued(job[c])]
    BY <1>4 DEF Nak, IInv, TypeOK
  <2> QED
    BY <1>4, <2>1, <2>2, ReleaseKeepsLive DEF Nak
<1>5. CASE Ack(c)
  <2>1. delivery' = delivery \/ delivery' = [delivery EXCEPT ![job[c]] = "acked"]
    BY <1>5 DEF Ack, IInv, TypeOK
  <2> QED
    BY <1>5, <2>1, ReleaseKeepsLive DEF Ack
<1>6. CASE ReplyLost(c)
  BY <1>6, ReleaseKeepsLive DEF ReplyLost
<1>7. ~MarkFailedFails(c)
  BY DEF StatusSurvives, MarkFailedFails
<1> QED
  BY <1>1, <1>2, <1>3, <1>4, <1>5, <1>6, <1>7, Zenon DEF Handle

\* The last delivery of a message puts it in a hand that has a status to write.
LEMMA ReceiveKeepsLive ==
    ASSUME IInv, ReplyInv, LiveInv, NEW c \in Coordinator, NEW n \in Msg, Receive(c, n)
    PROVE  ReplyInv' /\ LiveInv'
<1>1. ReplyInv'
  BY SMTT(30) DEF Receive, ReplyInv, IInv, TypeOK, HandInv
<1>2. ASSUME NEW d \in Doc, Awaited(d)'
      PROVE  \E k \in 1..MaxMsg : Live(<<d, k>>)'
  <2>1. PICK k \in 1..MaxMsg : Live(<<d, k>>)
    BY <1>2 DEF Awaited, LiveInv, Receive
  <2> DEFINE m == <<d, k>>
  <2>2. m \in Msg
    BY MsgFacts
  <2>3. delivery'[m] \in {"ready", "unacked", "exhausted"}
    BY <2>1, <2>2, SMTT(30) DEF Receive, Live, IInv, TypeOK
  <2>4. \A e \in Coordinator : ~Recorded(e, m)'
    BY <2>1, SMTT(30) DEF Receive, Live, Recorded, IInv, TypeOK
  <2>5. ASSUME NEW e \in Coordinator, LastHand(e, m) PROVE LastHand(e, m)'
    BY <2>5, SMTT(30) DEF Receive, LastHand, IInv, TypeOK
  <2>6. ASSUME m = n, delivered'[m] = MaxDeliver PROVE LastHand(c, m)'
    BY <2>2, <2>6, SMTT(30) DEF Receive, LastHand, IInv, TypeOK
  <2>7. m # n => delivered'[m] = delivered[m]
    BY <2>2, SMTT(30) DEF Receive, IInv, TypeOK
  <2> QED
    BY <2>1, <2>3, <2>4, <2>5, <2>6, <2>7 DEF Live
<1> QED
  BY <1>1, <1>2 DEF LiveInv

\* A document comes to be awaited only by an event of its own, which is live.
LEMMA RequestKeepsLive ==
    ASSUME IInv, ReplyInv, LiveInv, NEW d \in Doc, Request(d)
    PROVE  ReplyInv' /\ LiveInv'
<1>1. UNCHANGED <<handlerVars, outputVars, delivered>>
  BY Zenon DEF Request, UploadCheck, ClientPut, PutObject, InsertRow, Presign, ConfirmCheck,
     ConfirmRefused, ConfirmUpdate, Publish, PublishFails
<1>2. CASE Publish(d)
  <2>1. PICK j \in 1..MaxMsg : /\ delivery[<<d, j>>] = "none"
                               /\ delivery' = [delivery EXCEPT ![<<d, j>>] = "ready"]
    BY <1>2 DEF Publish
  <2>2. <<d, j>> \in Msg /\ status' = status /\ phase' = [phase EXCEPT ![d] = "queued"]
    BY <1>2, MsgFacts DEF Publish
  <2>3. ReplyInv'
    BY <1>1, <2>1, <2>2, SMTT(30) DEF ReplyInv, IInv, TypeOK, HandInv
  <2>4. Live(<<d, j>>)'
    BY <1>1, <2>1, <2>2, SMTT(30) DEF Live, Recorded, ReplyInv, IInv, TypeOK, QueueInv
  <2>5. ASSUME NEW e \in Doc \ {d}, Awaited(e)'
        PROVE  \E k \in 1..MaxMsg : Live(<<e, k>>)'
    <3>1. Awaited(e)
      BY <2>2, <2>5, SMTT(30) DEF Awaited, IInv, TypeOK
    <3>2. PICK k \in 1..MaxMsg : Live(<<e, k>>)
      BY <3>1 DEF LiveInv
    <3>3. delivery'[<<e, k>>] = delivery[<<e, k>>]
      BY <2>1, <2>2, <2>5, MsgFacts, SMTT(30) DEF IInv, TypeOK
    <3> QED
      BY <1>1, <3>2, <3>3 DEF Live, Recorded, LastHand
  <2> QED
    BY <2>3, <2>4, <2>5 DEF LiveInv
<1>3. CASE ~Publish(d)
  <2>1. UNCHANGED queueVars
    BY <1>3, Zenon DEF Request, UploadCheck, ClientPut, PutObject, InsertRow, Presign,
       ConfirmCheck, ConfirmRefused, ConfirmUpdate, PublishFails
  <2>2. ReplyInv'
    BY <1>1, <2>1 DEF ReplyInv
  <2>3. ASSUME NEW e \in Doc, Awaited(e)' PROVE Awaited(e)
    BY <1>3, <2>3, SMTT(30) DEF Awaited, IInv, TypeOK, Request, UploadCheck, ClientPut,
       PutObject, InsertRow, Presign, ConfirmCheck, ConfirmRefused, ConfirmUpdate, PublishFails
  <2> QED
    BY <1>1, <2>1, <2>2, <2>3 DEF LiveInv, Live, Recorded, LastHand
<1> QED
  BY <1>2, <1>3

\* No step, and no stutter, loses track of a document.
LEMMA NextKeepsLive ==
    StatusSurvives /\ IInv /\ ReplyInv /\ LiveInv /\ [Next]_vars => ReplyInv' /\ LiveInv'
<1> SUFFICES ASSUME StatusSurvives, IInv, ReplyInv, LiveInv, [Next]_vars
             PROVE  ReplyInv' /\ LiveInv'
  OBVIOUS
<1>1. ASSUME NEW n \in Msg, AckWaitExpires(n) PROVE ReplyInv' /\ LiveInv'
  <2>1. ReplyInv'
    BY <1>1, SMTT(30) DEF AckWaitExpires, Requeued, ReplyInv, IInv, TypeOK, HandInv
  <2>2. ASSUME NEW m \in Msg, Live(m) PROVE Live(m)'
    BY <1>1, <2>2, SMTT(30) DEF AckWaitExpires, Requeued, Live, Recorded, LastHand, IInv, TypeOK
  <2>3. \A d \in Doc : Awaited(d)' => Awaited(d)
    BY <1>1 DEF AckWaitExpires, Awaited
  <2> QED
    BY <2>1, <2>2, <2>3, MsgFacts DEF LiveInv
<1>2. ASSUME NEW c \in Coordinator, Crash(c) PROVE FALSE
  BY <1>2 DEF Crash, StatusSurvives
<1>3. CASE UNCHANGED vars
  <2>1. ReplyInv'
    BY <1>3 DEF vars, ReplyInv
  <2>2. \A m \in Msg : Live(m) => Live(m)'
    BY <1>3, Zenon DEF vars, Live, Recorded, LastHand
  <2>3. \A d \in Doc : Awaited(d)' => Awaited(d)
    BY <1>3 DEF vars, Awaited
  <2> QED
    BY <2>1, <2>2, <2>3, MsgFacts DEF LiveInv
<1> QED
  BY <1>1, <1>2, <1>3, RequestKeepsLive, HandleKeepsLive, ReceiveKeepsLive, Zenon DEF Next

\* A document whose events are all consumed says so, with any number of
\* coordinators, confirms, redeliveries, failing steps and lost replies: nothing is
\* acknowledged, and nothing exhausts its deliveries, before a status is written
\* (fail(), coordinator.go:162-226).
THEOREM ConsumedRecorded == ASSUME StatusSurvives PROVE Spec => []ConsumedIsRecorded
<1>0. IInv /\ ReplyInv /\ LiveInv /\ [Next]_vars => ReplyInv' /\ LiveInv'
  BY NextKeepsLive
<1>1. Init => ReplyInv /\ LiveInv
  BY DEF Init, ReplyInv, LiveInv, Awaited
<1>2. IInv /\ ReplyInv /\ LiveInv => ConsumedIsRecorded
  <2> SUFFICES ASSUME IInv, ReplyInv, LiveInv, NEW d \in Doc, Finished(d), Awaited(d)
               PROVE  FALSE
    BY DEF ConsumedIsRecorded, Finished, Awaited
  <2>1. PICK k \in 1..MaxMsg : Live(<<d, k>>)
    BY DEF LiveInv
  <2>2. delivered[<<d, k>>] = MaxDeliver
    BY <2>1, MsgFacts DEF Live, Finished, ReplyInv
  <2>3. PICK c \in Coordinator : LastHand(c, <<d, k>>)
    BY <2>1, <2>2 DEF Live
  <2> QED
    BY <2>3 DEF LastHand, Finished, InHand
<1> QED
  BY <1>0, <1>1, <1>2, Invariance, PTL DEF Spec

-----------------------------------------------------------------------------
(* Done documents were handed on.  With a single coordinator, and with the  *)
(* same failures left out, a document that is done but not handed on has an *)
(* event that will be delivered again, or is in hand.                       *)

Forwarded(d) == d \in extracted /\ (Loaded(d) => d \in linked)

\* The hand that holds a message holds its latest delivery, and nobody else
\* answers for it.
AloneInv ==
    \A c \in Coordinator : Working(c) =>
        /\ attempt[c] = delivered[job[c]]
        /\ delivery[job[c]] \in {"unacked", "ready", "exhausted"}

\* What a handler that has come this far has done.
ProgressInv ==
    \A c \in Coordinator :
        /\ pc[c] = "link" => job[c][1] \in extracted
        /\ pc[c] = "ack" => status[job[c][1]] # "done" \/ Forwarded(job[c][1])

Owed(m) ==
    \/ delivery[m] \in {"ready", "unacked"} /\ delivered[m] < MaxDeliver
    \/ \E c \in Coordinator : Working(c) /\ job[c] = m

OwedInv ==
    \A d \in Doc : status[d] = "done" /\ ~Forwarded(d) => \E k \in 1..MaxMsg : Owed(<<d, k>>)

Alone == \A c, e \in Coordinator : c = e

\* Moving on within a handler keeps the document in hand.
LEMMA MoveKeepsOwed ==
    ASSUME IInv, Alone, AloneInv, OwedInv, NEW c \in Coordinator, Working(c),
           NEW p \in PC \ {"idle"}, pc' = [pc EXCEPT ![c] = p],
           UNCHANGED <<queueVars, job, attempt>>,
           \A d \in Doc \ {job[c][1]} : status'[d] = status[d] /\ (Loaded(d)' => Loaded(d)),
           extracted \subseteq extracted', linked \subseteq linked',
           p = "link" => job[c][1] \in extracted',
           p = "ack" => status'[job[c][1]] # "done" \/ Forwarded(job[c][1])'
    PROVE  AloneInv' /\ ProgressInv' /\ OwedInv'
<1>1. \A e \in Coordinator : e = c
  BY DEF Alone
<1>2. pc'[c] = p
  BY SMTT(30) DEF IInv, TypeOK
<1>3. AloneInv'
  BY <1>1 DEF AloneInv
<1>4. ProgressInv'
  BY <1>1, <1>2 DEF ProgressInv
<1>5. ASSUME NEW d \in Doc, status'[d] = "done", ~Forwarded(d)'
      PROVE  \E k \in 1..MaxMsg : Owed(<<d, k>>)'
  <2>1. CASE d = job[c][1]
    <3>1. PICK k \in 1..MaxMsg : job[c] = <<d, k>>
      BY <2>1, SMTT(30) DEF IInv, HandInv, Msg
    <3> QED
      BY <1>2, <3>1 DEF Owed
  <2>2. CASE d # job[c][1]
    <3>1. status[d] = "done" /\ ~Forwarded(d)
      BY <1>5, <2>2 DEF Forwarded
    <3>2. PICK k \in 1..MaxMsg : Owed(<<d, k>>)
      BY <3>1 DEF OwedInv
    <3> QED
      BY <1>1, <1>2, <3>2 DEF Owed
  <2> QED
    BY <2>1, <2>2
<1> QED
  BY <1>3, <1>4, <1>5 DEF OwedInv

\* A handler returns: what it acknowledges is forwarded or not done, and what it
\* naks has deliveries left.
LEMMA ReleaseKeepsOwed ==
    ASSUME IInv, ReplyInv, Alone, AloneInv, ProgressInv, OwedInv,
           NEW c \in Coordinator, pc[c] \in {"nak", "ack"}, Release(c),
           NEW q \in {"ready", "acked", "exhausted"},
           pc[c] = "nak" => q # "acked",
           q = "exhausted" => delivered[job[c]] = MaxDeliver,
           delivery' = delivery \/ delivery' = [delivery EXCEPT ![job[c]] = q],
           UNCHANGED <<status, delivered, outputVars>>
    PROVE  AloneInv' /\ ProgressInv' /\ OwedInv'
<1>1. \A e \in Coordinator : e = c
  BY DEF Alone
<1>2. pc'[c] = "idle"
  BY SMTT(30) DEF Release, IInv, TypeOK
<1>3. AloneInv' /\ ProgressInv'
  BY <1>1, <1>2 DEF AloneInv, ProgressInv
<1>4. ASSUME NEW d \in Doc, status'[d] = "done", ~Forwarded(d)'
      PROVE  \E k \in 1..MaxMsg : Owed(<<d, k>>)'
  <2>1. status[d] = "done" /\ ~Forwarded(d)
    BY <1>4 DEF Forwarded, Loaded
  <2>2. PICK k \in 1..MaxMsg : Owed(<<d, k>>)
    BY <2>1 DEF OwedInv
  <2> DEFINE m == <<d, k>>
  <2>3. m \in Msg
    BY MsgFacts
  <2>4. CASE job[c] = m
    <3>1. pc[c] = "nak"
      BY <2>1, <2>4 DEF ProgressInv
    <3>2. delivered[m] < MaxDeliver /\ delivery[m] \in {"unacked", "ready", "exhausted"}
      BY <2>4, <3>1 DEF AloneInv, ReplyInv
    <3>3. delivery[m] # "exhausted" /\ q = "ready"
      BY <2>3, <2>4, <3>1, <3>2 DEF ReplyInv
    <3> QED
      BY <2>3, <2>4, <3>2, <3>3, SMTT(30) DEF Owed, IInv, TypeOK
  <2>5. CASE job[c] # m
    <3>1. delivery[m] \in {"ready", "unacked"} /\ delivered[m] < MaxDeliver
      BY <1>1, <2>2, <2>5 DEF Owed
    <3>2. delivery'[m] = delivery[m]
      BY <2>3, <2>5, SMTT(30) DEF IInv, TypeOK
    <3> QED
      BY <3>1, <3>2 DEF Owed
  <2> QED
    BY <2>4, <2>5
<1> QED
  BY <1>3, <1>4 DEF OwedInv

\* No step of the coordinator leaves a document done and forgotten.
LEMMA HandleKeepsOwed ==
    ASSUME IInv, ReplyInv, Alone, AloneInv, ProgressInv, OwedInv, StatusSurvives,
           NEW c \in Coordinator, Handle(c)
    PROVE  AloneInv' /\ ProgressInv' /\ OwedInv'
<1> DEFINE own == job[c][1]
<1>1. CASE Ingest(c) \/ LockDocument(c) \/ CountEntities(c) \/ StepFails(c) \/ CommitEntities(c)
  <2>1. PICK p \in {"lock", "count", "commit", "mark", "nak", "flag"} :
            pc' = [pc EXCEPT ![c] = p]
    BY <1>1, FailFacts, Zenon DEF Ingest, LockDocument, CountEntities, StepFails,
       CommitEntities, Then
  <2>2. /\ Working(c)
        /\ UNCHANGED <<status, queueVars, job, attempt, extracted, linked>>
        /\ loaded' = loaded \/ loaded' = loaded \cup {[msg |-> job[c], attempt |-> attempt[c], of |-> streamed[c]]}
    BY <1>1 DEF Ingest, LockDocument, CountEntities, StepFails, CommitEntities
  <2>3. \A d \in Doc \ {own} : Loaded(d)' => Loaded(d)
    BY <2>2 DEF Loaded
  <2> QED
    BY <2>1, <2>2, <2>3, MoveKeepsOwed
<1>2. CASE MarkDone(c) \/ MarkFailed(c)
  <2>1. PICK p \in {"extract", "ack", "nak", "flag"} :
            /\ pc' = [pc EXCEPT ![c] = p]
            /\ p = "ack" => MarkFailed(c)
    BY <1>2, FailFacts, Zenon DEF MarkDone, MarkFailed, Then
  <2>2. PICK s \in {"done", "failed"} :
            /\ status' = [status EXCEPT ![own] = s]
            /\ p = "ack" => s = "failed"
    BY <1>2, <2>1 DEF MarkDone, MarkFailed
  <2>3. Working(c) /\ UNCHANGED <<queueVars, job, attempt, outputVars>>
    BY <1>2 DEF MarkDone, MarkFailed
  <2>4. own \in Doc
    BY <2>3, MsgFacts DEF IInv, HandInv
  <2>5. /\ \A d \in Doc \ {own} : status'[d] = status[d]
        /\ p = "ack" => status'[own] # "done"
    <3>1. status \in [Doc -> Status]
      BY DEF IInv, TypeOK
    <3> HIDE DEF own
    <3>2. status'[own] = s
      BY <2>2, <2>4, <3>1
    <3> QED
      BY <2>2, <3>1, <3>2
  <2>6. \A d \in Doc : Loaded(d)' => Loaded(d)
    BY <2>3 DEF Loaded
  <2> QED
    BY <2>1, <2>3, <2>5, <2>6, MoveKeepsOwed
<1>3. CASE RequestExtraction(c)
  <2>1. PICK p \in {"link", "nak", "flag"} : pc' = [pc EXCEPT ![c] = p]
    BY <1>3, FailFacts, Zenon DEF RequestExtraction, Then
  <2>2. /\ Working(c) /\ UNCHANGED <<status, queueVars, job, attempt, loaded, linked>>
        /\ extracted' = extracted \cup {own}
    BY <1>3 DEF RequestExtraction
  <2>3. \A d \in Doc : Loaded(d)' => Loaded(d)
    BY <2>2 DEF Loaded
  <2> QED
    BY <2>1, <2>2, <2>3, MoveKeepsOwed
<1>4. CASE RequestLink(c)
  <2>1. PICK p \in {"ack", "nak", "flag"} : pc' = [pc EXCEPT ![c] = p]
    BY <1>4, FailFacts, Zenon DEF RequestLink, Then
  <2>2. /\ pc[c] = "link" /\ Working(c)
        /\ UNCHANGED <<status, queueVars, job, attempt, loaded, extracted>>
        /\ linked' = linked \cup {d \in Doc : Loaded(d)}
    BY <1>4 DEF RequestLink
  <2>3. \A d \in Doc : Loaded(d)' => Loaded(d)
    BY <2>2 DEF Loaded
  <2>4. own \in Doc
    BY <2>2, MsgFacts DEF IInv, HandInv
  <2>5. Forwarded(own)'
    BY <2>2, <2>3, <2>4 DEF Forwarded, ProgressInv
  <2> QED
    BY <2>1, <2>2, <2>3, <2>5, MoveKeepsOwed
<1>5. CASE Nak(c)
  <2>1. /\ Requeued(job[c]) \in {"ready", "exhausted"}
        /\ Requeued(job[c]) = "exhausted" => delivered[job[c]] = MaxDeliver
    BY <1>5, SMTT(30) DEF Nak, Requeued, IInv, TypeOK, HandInv
  <2>2. delivery' = delivery \/ delivery' = [delivery EXCEPT ![job[c]] = Requeued(job[c])]
    BY <1>5 DEF Nak, IInv, TypeOK
  <2> QED
    BY <1>5, <2>1, <2>2, ReleaseKeepsOwed DEF Nak
<1>6. CASE Ack(c)
  <2>1. delivery' = delivery \/ delivery' = [delivery EXCEPT ![job[c]] = "acked"]
    BY <1>6 DEF Ack, IInv, TypeOK
  <2> QED
    BY <1>6, <2>1, ReleaseKeepsOwed DEF Ack
<1>7. CASE ReplyLost(c)
  BY <1>7, ReleaseKeepsOwed DEF ReplyLost
<1>8. ~MarkFailedFails(c)
  BY DEF StatusSurvives, MarkFailedFails
<1> QED
  BY <1>1, <1>2, <1>3, <1>4, <1>5, <1>6, <1>7, <1>8, Zenon DEF Handle

\* What is delivered again is in hand.
LEMMA ReceiveKeepsOwed ==
    ASSUME IInv, Alone, OwedInv, NEW c \in Coordinator, NEW n \in Msg, Receive(c, n)
    PROVE  AloneInv' /\ ProgressInv' /\ OwedInv'
<1>1. \A e \in Coordinator : e = c
  BY DEF Alone
<1>2. /\ pc[c] = "idle" /\ pc'[c] = "ingest" /\ job'[c] = n
      /\ attempt'[c] = delivered'[n] /\ delivery'[n] = "unacked"
  BY SMTT(30) DEF Receive, IInv, TypeOK
<1>3. AloneInv' /\ ProgressInv'
  BY <1>1, <1>2 DEF AloneInv, ProgressInv
<1>4. ASSUME NEW d \in Doc, status'[d] = "done", ~Forwarded(d)'
      PROVE  \E k \in 1..MaxMsg : Owed(<<d, k>>)'
  <2>1. status[d] = "done" /\ ~Forwarded(d)
    BY <1>4 DEF Receive, Forwarded, Loaded
  <2>2. PICK k \in 1..MaxMsg : Owed(<<d, k>>)
    BY <2>1 DEF OwedInv
  <2>3. <<d, k>> # n => /\ delivery'[<<d, k>>] = delivery[<<d, k>>]
                        /\ delivered'[<<d, k>>] = delivered[<<d, k>>]
    BY MsgFacts, SMTT(30) DEF Receive, IInv, TypeOK
  <2> QED
    BY <1>1, <1>2, <2>2, <2>3 DEF Owed
<1> QED
  BY <1>3, <1>4 DEF OwedInv

\* A request makes no document done, and no message that is in hand undelivered.
LEMMA RequestKeepsOwed ==
    ASSUME IInv, AloneInv, ProgressInv, OwedInv, NEW d \in Doc, Request(d)
    PROVE  AloneInv' /\ ProgressInv' /\ OwedInv'
<1>1. UNCHANGED <<handlerVars, outputVars, delivered>>
  BY Zenon DEF Request, UploadCheck, ClientPut, PutObject, InsertRow, Presign, ConfirmCheck,
     ConfirmRefused, ConfirmUpdate, Publish, PublishFails
<1>2. \A m \in Msg : delivery'[m] = delivery[m] \/ delivery[m] = "none"
  <2>1. CASE Publish(d)
    BY <2>1, MsgFacts, SMTT(30) DEF Publish, IInv, TypeOK
  <2>2. CASE UNCHANGED delivery
    BY <2>2
  <2> QED
    BY <2>1, <2>2, Zenon DEF Request, UploadCheck, ClientPut, PutObject, InsertRow, Presign,
       ConfirmCheck, ConfirmRefused, ConfirmUpdate, PublishFails
<1>3. \A e \in Doc : status'[e] = "done" => status[e] = "done"
  BY SMTT(30) DEF IInv, TypeOK, Request, UploadCheck, ClientPut, PutObject, InsertRow,
     Presign, ConfirmCheck, ConfirmRefused, ConfirmUpdate, Publish, PublishFails
<1>4. AloneInv'
  BY <1>1, <1>2 DEF AloneInv, IInv, HandInv
<1>5. ProgressInv'
  <2>1. \A e \in Doc : Forwarded(e) => Forwarded(e)'
    BY <1>1 DEF Forwarded, Loaded
  <2>2. \A c \in Coordinator : Working(c) => job[c][1] \in Doc
    BY MsgFacts DEF IInv, HandInv
  <2> QED
    BY <1>1, <1>3, <2>1, <2>2 DEF ProgressInv
<1>6. ASSUME NEW e \in Doc, status'[e] = "done", ~Forwarded(e)'
      PROVE  \E k \in 1..MaxMsg : Owed(<<e, k>>)'
  <2>1. status[e] = "done" /\ ~Forwarded(e)
    BY <1>1, <1>3, <1>6 DEF Forwarded, Loaded
  <2>2. PICK k \in 1..MaxMsg : Owed(<<e, k>>)
    BY <2>1 DEF OwedInv
  <2> QED
    BY <1>1, <1>2, <2>2, MsgFacts DEF Owed
<1> QED
  BY <1>4, <1>5, <1>6 DEF OwedInv

\* No step, and no stutter, leaves a document done and forgotten.
LEMMA NextKeepsOwed ==
    ASSUME StatusSurvives, Alone, IInv, ReplyInv, AloneInv, ProgressInv, OwedInv, [Next]_vars
    PROVE  AloneInv' /\ ProgressInv' /\ OwedInv'
<1>1. ASSUME NEW n \in Msg, AckWaitExpires(n) PROVE AloneInv' /\ ProgressInv' /\ OwedInv'
  <2>1. UNCHANGED <<handlerVars, outputVars, status, delivered>>
    BY <1>1 DEF AckWaitExpires
  <2>2. \A m \in Msg : \/ delivery'[m] = delivery[m]
                       \/ /\ delivery[m] = "unacked"
                          /\ delivery'[m] = IF delivered[m] < MaxDeliver THEN "ready" ELSE "exhausted"
    BY <1>1, SMTT(30) DEF AckWaitExpires, Requeued, IInv, TypeOK
  <2>3. AloneInv'
    BY <2>1, <2>2 DEF AloneInv, IInv, HandInv
  <2>4. ProgressInv'
    BY <2>1 DEF ProgressInv, Forwarded, Loaded
  <2>5. \A m \in Msg : Owed(m) => Owed(m)'
    BY <2>1, <2>2 DEF Owed
  <2>6. \A d \in Doc : Forwarded(d) => Forwarded(d)'
    BY <2>1 DEF Forwarded, Loaded
  <2> QED
    BY <2>1, <2>3, <2>4, <2>5, <2>6, MsgFacts DEF OwedInv
<1>2. ASSUME NEW c \in Coordinator, Crash(c) PROVE FALSE
  BY <1>2 DEF Crash, StatusSurvives
<1>3. CASE UNCHANGED vars
  <2>1. AloneInv' /\ ProgressInv'
    BY <1>3 DEF vars, AloneInv, ProgressInv, Forwarded, Loaded
  <2>2. \A m \in Msg : Owed(m) => Owed(m)'
    BY <1>3 DEF vars, Owed
  <2>3. \A d \in Doc : Forwarded(d) => Forwarded(d)'
    BY <1>3 DEF vars, Forwarded, Loaded
  <2> QED
    BY <1>3, <2>1, <2>2, <2>3, MsgFacts DEF vars, OwedInv
<1> QED
  BY <1>1, <1>2, <1>3, RequestKeepsOwed, HandleKeepsOwed, ReceiveKeepsOwed, Zenon DEF Next

\* With one coordinator, a document that stays done was handed on: after a failed
\* publish the event is delivered again, or the document is shown as failed
\* (coordinator.go:297-328).  With two, one may mark done what the other gave up.
THEOREM DoneForwarded == ASSUME StatusSurvives, Alone PROVE Spec => []DoneIsForwarded
<1> DEFINE Inv == ReplyInv /\ LiveInv /\ AloneInv /\ ProgressInv /\ OwedInv
<1>1. Init => Inv
  BY DEF Init, ReplyInv, LiveInv, Awaited, AloneInv, ProgressInv, OwedInv
<1>2. IInv /\ Inv /\ [Next]_vars => Inv'
  BY NextKeepsLive, NextKeepsOwed
<1>3. IInv /\ Inv => DoneIsForwarded
  <2> SUFFICES ASSUME IInv, Inv, NEW d \in Doc, Finished(d), status[d] = "done", ~Forwarded(d)
               PROVE  FALSE
    BY DEF DoneIsForwarded, Forwarded
  <2>1. PICK k \in 1..MaxMsg : Owed(<<d, k>>)
    BY DEF OwedInv
  <2> QED
    BY <2>1 DEF Owed, Finished, InHand
<1> QED
  BY <1>1, <1>2, <1>3, Invariance, PTL DEF Spec

-----------------------------------------------------------------------------
(* Refinement.  What the pipeline has in hand has its hash: an event is only *)
(* published for a row with one.                                            *)

Uploading == {"none", "checked", "stored"}

RequestInv ==
    /\ \A d \in Doc : phase[d] \in Uploading <=> ~Exists(d)
    /\ \A d \in Doc : phase[d] \in {"checked", "stored"} => content[d] # NoContent
    /\ \A d \in Doc : confirm[d] # NoContent => phase[d] \notin Uploading
    /\ \A d \in url : phase[d] \notin Uploading
    /\ \A d \in Doc : phase[d] \in {"inserted", "confirmed"} => hash[d] # NoContent

HashedInv ==
    /\ \A m \in Msg : delivery[m] # "none" => hash[m[1]] # NoContent
    /\ \A c \in Coordinator : Working(c) => hash[job[c][1]] # NoContent

\* Unless it was overwritten, a document's object is what its confirm read, what
\* its hash says, what a coordinator parses and what its entities came from.
FileInv ==
    /\ \A d \in Doc \ overwritten :
           /\ hash[d] # NoContent => content[d] = hash[d]
           /\ confirm[d] # NoContent => content[d] = confirm[d]
    /\ \A c \in Coordinator :
           pc[c] \in {"lock", "count", "commit"} => \/ job[c][1] \in overwritten
                                                  \/ streamed[c] = content[job[c][1]]
    /\ \A b \in loaded : /\ hash[b.msg[1]] # NoContent
                         /\ b.msg[1] \in overwritten \/ b.of = hash[b.msg[1]]

LifeInv == IInv /\ RequestInv /\ HashedInv /\ FileInv

\* What a step of a request does to the row and the queue.
LEMMA RequestKeepsHashed ==
    ASSUME LifeInv, NEW d \in Doc, Request(d)
    PROVE  RequestInv' /\ HashedInv'
<1>1. UNCHANGED handlerVars
  BY Zenon DEF Request, UploadCheck, ClientPut, PutObject, InsertRow, Presign, ConfirmCheck,
     ConfirmRefused, ConfirmUpdate, Publish, PublishFails
<1>2. CASE InsertRow(d) \/ ConfirmUpdate(d)
  <2>1. hash'[d] # NoContent
    BY <1>2 DEF InsertRow, ConfirmUpdate, LifeInv, RequestInv, IInv, TypeOK
  <2>2. RequestInv'
    BY <1>2, <2>1, SMTT(30) DEF InsertRow, ConfirmUpdate, LifeInv, IInv, TypeOK, RequestInv, Uploading
  <2>3. HashedInv'
    BY <1>1, <1>2, <2>1, MsgFacts, SMTT(30)
       DEF InsertRow, ConfirmUpdate, LifeInv, IInv, TypeOK, HandInv, HashedInv
  <2> QED
    BY <2>2, <2>3
<1>3. CASE Publish(d)
  <2>1. hash[d] # NoContent
    BY <1>3 DEF Publish, LifeInv, RequestInv
  <2>2. RequestInv'
    BY <1>3, SMTT(30) DEF Publish, LifeInv, IInv, TypeOK, RequestInv, Uploading
  <2>3. HashedInv'
    BY <1>1, <1>3, <2>1, SMTT(30) DEF Publish, LifeInv, IInv, TypeOK, HandInv, HashedInv, Msg
  <2> QED
    BY <2>2, <2>3
<1>4. CASE UNCHANGED <<hash, queueVars>>
  <2>1. HashedInv'
    BY <1>1, <1>4 DEF LifeInv, HashedInv
  <2>2. CASE \E x \in Content : UploadCheck(d, x) \/ ClientPut(d, x)
    BY <2>1, <2>2, NoContentAssumption, SMTT(30)
    DEF UploadCheck, ClientPut, LifeInv, IInv, TypeOK, RequestInv, Uploading
  <2>3. CASE PutObject(d) \/ Presign(d) \/ PublishFails(d)
    BY <2>1, <2>3, SMTT(30)
    DEF PutObject, Presign, PublishFails, LifeInv, IInv, TypeOK, RequestInv, Uploading
  <2>4. CASE ConfirmCheck(d) \/ ConfirmRefused(d)
    BY <2>1, <2>4, SMTT(30)
    DEF ConfirmCheck, ConfirmRefused, LifeInv, IInv, TypeOK, RequestInv, Uploading
  <2> QED
    BY <1>2, <1>3, <2>1, <2>2, <2>3, <2>4, Zenon DEF Request
<1> QED
  BY <1>2, <1>3, <1>4, Zenon DEF Request, UploadCheck, ClientPut, PutObject, Presign,
     ConfirmCheck, ConfirmRefused, PublishFails

\* The document in hand has a row with a hash.
LEMMA JobHashed ==
    ASSUME LifeInv, NEW c \in Coordinator, Working(c)
    PROVE  /\ job[c] \in Msg /\ job[c][1] \in Doc
           /\ hash[job[c][1]] # NoContent /\ Exists(job[c][1])
BY MsgFacts DEF LifeInv, IInv, HandInv, RowInv, HashedInv

\* A step of a coordinator leaves the requests and the hashes alone.
LEMMA HandleKeepsHashed ==
    ASSUME LifeInv, NEW c \in Coordinator, Handle(c) \/ Crash(c)
    PROVE  RequestInv' /\ HashedInv'
<1>1. Working(c)
  BY Zenon DEF Handle, Ingest, LockDocument, CountEntities, CommitEntities, MarkDone,
     RequestExtraction, RequestLink, StepFails, Nak, MarkFailed, MarkFailedFails, Ack,
     ReplyLost, Crash
<1>2. UNCHANGED requestVars
  BY Zenon DEF Handle, Ingest, LockDocument, CountEntities, CommitEntities, MarkDone,
     RequestExtraction, RequestLink, StepFails, Nak, MarkFailed, MarkFailedFails, Ack,
     ReplyLost, Crash
<1>3. status' = status \/ \E s \in {"done", "failed"} : status' = [status EXCEPT ![job[c][1]] = s]
  BY Zenon DEF Handle, Ingest, LockDocument, CountEntities, CommitEntities, MarkDone,
     RequestExtraction, RequestLink, StepFails, Nak, MarkFailed, MarkFailedFails, Ack,
     ReplyLost, Crash
<1>4. \A d \in Doc : Exists(d)' <=> Exists(d)
  BY <1>1, <1>3, JobHashed, SMTT(30) DEF LifeInv, IInv, TypeOK
<1>5. RequestInv'
  BY <1>2, <1>4 DEF LifeInv, RequestInv
<1>6. \A e \in Coordinator : Working(e)' => Working(e) /\ job'[e] = job[e]
  <2>1. Release(c) \/ (UNCHANGED job /\ \E p \in PC : pc' = [pc EXCEPT ![c] = p])
    <3>0. /\ FailTo(c) \in PC
          /\ {"lock", "count", "commit", "mark", "extract", "link", "ack"} \subseteq PC
      BY DEF FailTo
    <3>1. \A p \in PC : Then(c, p) => \E q \in PC : pc' = [pc EXCEPT ![c] = q]
      BY <3>0 DEF Then
    <3>2. CASE CommitEntities(c) \/ MarkDone(c) \/ RequestExtraction(c) \/ RequestLink(c)
      BY <3>0, <3>1, <3>2 DEF CommitEntities, MarkDone, RequestExtraction, RequestLink
    <3>3. CASE Ingest(c) \/ LockDocument(c) \/ StepFails(c) \/ MarkFailed(c) \/ MarkFailedFails(c)
      BY <3>0, <3>3 DEF Ingest, LockDocument, StepFails, MarkFailed, MarkFailedFails
    <3>4. CASE CountEntities(c)
      BY <3>0, <3>4 DEF CountEntities
    <3>5. CASE Nak(c) \/ Ack(c) \/ ReplyLost(c) \/ Crash(c)
      BY <3>5, Zenon DEF Nak, Ack, ReplyLost, Crash
    <3> QED
      BY <3>2, <3>3, <3>4, <3>5, Zenon DEF Handle
  <2>2. CASE UNCHANGED job /\ \E p \in PC : pc' = [pc EXCEPT ![c] = p]
    BY <1>1, <2>2, SMTT(30) DEF LifeInv, IInv, TypeOK
  <2>3. CASE Release(c)
    BY <2>3, SMTT(30) DEF Release, LifeInv, IInv, TypeOK
  <2> QED
    BY <2>1, <2>2, <2>3
<1>7. \A m \in Msg : delivery'[m] # "none" => delivery[m] # "none" \/ m = job[c]
  <2>1. CASE UNCHANGED delivery
    BY <2>1
  <2>2. CASE Nak(c) \/ Ack(c)
    BY <2>2, SMTT(30) DEF Nak, Ack, LifeInv, IInv, TypeOK
  <2> QED
    BY <2>1, <2>2, Zenon DEF Handle, Ingest, LockDocument, CountEntities, CommitEntities, MarkDone,
       RequestExtraction, RequestLink, StepFails, MarkFailed, MarkFailedFails, ReplyLost, Crash
<1>8. HashedInv'
  BY <1>1, <1>2, <1>6, <1>7, JobHashed DEF LifeInv, HashedInv
<1> QED
  BY <1>5, <1>8

\* A write of the hash is of bytes that were read; new bytes are for a document
\* that has no hash or counts as overwritten.
LEMMA RequestKeepsFiles ==
    ASSUME LifeInv, NEW d \in Doc, Request(d)
    PROVE  FileInv'
<1>1. UNCHANGED <<handlerVars, outputVars>>
  BY Zenon DEF Request, UploadCheck, ClientPut, PutObject, InsertRow, Presign, ConfirmCheck,
     ConfirmRefused, ConfirmUpdate, Publish, PublishFails
<1>2. /\ \A c \in Coordinator : Working(c) => hash[job[c][1]] # NoContent /\ job[c][1] \in Doc
      /\ \A b \in loaded : b.msg[1] \in Doc
  BY MsgFacts DEF LifeInv, IInv, TypeOK, HandInv, HashedInv, Batch
<1>3. CASE \E x \in Content : UploadCheck(d, x) \/ ClientPut(d, x)
  <2>1. /\ UNCHANGED <<hash, confirm>>
        /\ \A e \in Doc \ {d} : content'[e] = content[e]
        /\ overwritten \subseteq overwritten'
    BY <1>3 DEF UploadCheck, ClientPut, LifeInv, IInv, TypeOK
  <2>2. hash[d] # NoContent \/ confirm[d] # NoContent => d \in overwritten'
    <3>1. CASE \E x \in Content : UploadCheck(d, x)
      BY <3>1 DEF UploadCheck, LifeInv, RequestInv, Uploading, IInv, RowInv
    <3>2. CASE \E x \in Content : ClientPut(d, x)
      BY <3>2 DEF ClientPut
    <3> QED
      BY <1>3, <3>1, <3>2
  <2>3. \A e \in Doc \ overwritten' : /\ hash'[e] # NoContent => content'[e] = hash'[e]
                                      /\ confirm'[e] # NoContent => content'[e] = confirm'[e]
    BY <2>1, <2>2 DEF LifeInv, FileInv
  <2>4. \A c \in Coordinator :
           pc'[c] \in {"lock", "count", "commit"} => \/ job'[c][1] \in overwritten'
                                                   \/ streamed'[c] = content'[job'[c][1]]
    BY <1>1, <1>2, <2>1, <2>2 DEF LifeInv, FileInv
  <2>5. \A b \in loaded' : /\ hash'[b.msg[1]] # NoContent
                           /\ b.msg[1] \in overwritten' \/ b.of = hash'[b.msg[1]]
    BY <1>1, <2>1 DEF LifeInv, FileInv
  <2> QED
    BY <2>3, <2>4, <2>5 DEF FileInv
<1>4. CASE InsertRow(d) \/ ConfirmUpdate(d)
  <2>1. /\ UNCHANGED <<content, overwritten>>
        /\ \A e \in Doc \ {d} : hash'[e] = hash[e]
        /\ hash'[d] # NoContent
        /\ d \in overwritten \/ hash'[d] = content[d]
        /\ \A e \in Doc : confirm'[e] \in {confirm[e], NoContent}
    BY <1>4, SMTT(30) DEF InsertRow, ConfirmUpdate, LifeInv, RequestInv, FileInv, IInv, TypeOK
  <2>2. \A e \in Doc \ overwritten' : /\ hash'[e] # NoContent => content'[e] = hash'[e]
                                      /\ confirm'[e] # NoContent => content'[e] = confirm'[e]
    BY <2>1, SMTT(30) DEF LifeInv, FileInv
  <2>3. \A c \in Coordinator :
           pc'[c] \in {"lock", "count", "commit"} => \/ job'[c][1] \in overwritten'
                                                   \/ streamed'[c] = content'[job'[c][1]]
    BY <1>1, <2>1 DEF LifeInv, FileInv
  <2>4. \A b \in loaded' : /\ hash'[b.msg[1]] # NoContent
                           /\ b.msg[1] \in overwritten' \/ b.of = hash'[b.msg[1]]
    BY <1>1, <1>2, <2>1, SMTT(30) DEF LifeInv, FileInv
  <2> QED
    BY <2>2, <2>3, <2>4 DEF FileInv
<1>5. CASE ConfirmCheck(d) \/ ConfirmRefused(d)
  <2>1. /\ UNCHANGED <<content, overwritten, hash>>
        /\ \A e \in Doc : confirm'[e] \in {confirm[e], content[e], NoContent}
    BY <1>5, SMTT(30) DEF ConfirmCheck, ConfirmRefused, LifeInv, IInv, TypeOK
  <2> QED
    BY <1>1, <2>1, SMTT(30) DEF LifeInv, FileInv
<1>6. CASE UNCHANGED <<content, overwritten, hash, confirm>>
  BY <1>1, <1>6 DEF LifeInv, FileInv
<1> QED
  BY <1>3, <1>4, <1>5, <1>6, Zenon DEF Request, PutObject, Presign, Publish, PublishFails

\* A coordinator parses what is there, and its transaction writes what it parsed.
LEMMA HandleKeepsFiles ==
    ASSUME LifeInv, NEW c \in Coordinator, Handle(c) \/ Crash(c)
    PROVE  FileInv'
<1>1. UNCHANGED requestVars
  BY Zenon DEF Handle, Ingest, LockDocument, CountEntities, CommitEntities, MarkDone,
     RequestExtraction, RequestLink, StepFails, Nak, MarkFailed, MarkFailedFails, Ack,
     ReplyLost, Crash
<1>2. ASSUME NEW e \in Coordinator, pc'[e] \in {"lock", "count", "commit"}
      PROVE  /\ job'[e] = job[e]
             /\ \/ pc[e] \in {"lock", "count", "commit"} /\ streamed'[e] = streamed[e]
                \/ streamed'[e] = content[job[e][1]]
  <2>0. FailTo(c) \in {"nak", "flag"}
    BY DEF FailTo
  <2>1. CASE Ingest(c)
    BY <1>2, <2>1, SMTT(30) DEF Ingest, LifeInv, IInv, TypeOK
  <2>2. CASE LockDocument(c) \/ CountEntities(c)
    BY <1>2, <2>2, SMTT(30) DEF LockDocument, CountEntities, LifeInv, IInv, TypeOK
  <2>3. CASE Nak(c) \/ Ack(c) \/ ReplyLost(c) \/ Crash(c)
    BY <1>2, <2>3, SMTT(30) DEF Nak, Ack, ReplyLost, Crash, Release, LifeInv, IInv, TypeOK
  <2>4. CASE UNCHANGED handVars /\ \E p \in PC \ {"lock", "count", "commit"} : pc' = [pc EXCEPT ![c] = p]
    BY <1>2, <2>4, SMTT(30) DEF LifeInv, IInv, TypeOK
  <2>5. CASE StepFails(c) \/ MarkFailed(c) \/ MarkFailedFails(c)
    BY <2>0, <2>4, <2>5, Zenon DEF StepFails, MarkFailed, MarkFailedFails
  <2>6. CASE CommitEntities(c) \/ MarkDone(c) \/ RequestExtraction(c) \/ RequestLink(c)
    BY <2>0, <2>4, <2>6 DEF CommitEntities, MarkDone, RequestExtraction, RequestLink, Then
  <2> QED
    BY <2>1, <2>2, <2>3, <2>5, <2>6, Zenon DEF Handle
<1>3. \A e \in Coordinator :
           pc'[e] \in {"lock", "count", "commit"} => \/ job'[e][1] \in overwritten'
                                                   \/ streamed'[e] = content'[job'[e][1]]
  BY <1>1, <1>2 DEF LifeInv, FileInv
<1>4. \A b \in loaded' : /\ hash'[b.msg[1]] # NoContent
                         /\ b.msg[1] \in overwritten' \/ b.of = hash'[b.msg[1]]
  <2>1. CASE CommitEntities(c)
    <3>1. /\ job[c][1] \in Doc /\ hash[job[c][1]] # NoContent
          /\ job[c][1] \in overwritten \/ streamed[c] = hash[job[c][1]]
      BY <2>1, MsgFacts DEF CommitEntities, LifeInv, IInv, HandInv, HashedInv, FileInv
    <3>2. loaded' = loaded \cup {[msg |-> job[c], attempt |-> attempt[c], of |-> streamed[c]]}
      BY <2>1 DEF CommitEntities
    <3> QED
      BY <1>1, <3>1, <3>2 DEF LifeInv, FileInv
  <2>2. CASE UNCHANGED loaded
    BY <1>1, <2>2 DEF LifeInv, FileInv
  <2> QED
    BY <2>1, <2>2, Zenon DEF Handle, Ingest, LockDocument, CountEntities, MarkDone,
       RequestExtraction, RequestLink, StepFails, Nak, MarkFailed, MarkFailedFails, Ack,
       ReplyLost, Crash
<1> QED
  BY <1>1, <1>3, <1>4 DEF LifeInv, FileInv

LEMMA LifeStep == LifeInv /\ [Next]_vars => LifeInv'
<1> SUFFICES ASSUME LifeInv, [Next]_vars PROVE RequestInv' /\ HashedInv' /\ FileInv'
  BY NextInv DEF LifeInv
<1>1. ASSUME NEW m \in Msg, AckWaitExpires(m)
      PROVE  RequestInv' /\ HashedInv' /\ FileInv'
  <2>1. \A k \in Msg : delivery'[k] # "none" => delivery[k] # "none"
    BY <1>1, SMTT(30) DEF AckWaitExpires, LifeInv, IInv, TypeOK
  <2> QED
    BY <1>1, <2>1 DEF AckWaitExpires, LifeInv, RequestInv, HashedInv, FileInv
<1>2. ASSUME NEW c \in Coordinator, NEW m \in Msg, Receive(c, m)
      PROVE  RequestInv' /\ HashedInv' /\ FileInv'
  <2>1. \A k \in Msg : delivery'[k] # "none" => delivery[k] # "none"
    BY <1>2, SMTT(30) DEF Receive, LifeInv, IInv, TypeOK
  <2>2. \A e \in Coordinator : Working(e)' => job'[e] = m \/ (Working(e) /\ job'[e] = job[e])
    BY <1>2, SMTT(30) DEF Receive, LifeInv, IInv, TypeOK
  <2>3. hash[m[1]] # NoContent
    BY <1>2 DEF Receive, LifeInv, HashedInv
  <2>4. FileInv'
    BY <1>2, SMTT(30) DEF Receive, LifeInv, IInv, TypeOK, FileInv
  <2> QED
    BY <1>2, <2>1, <2>2, <2>3, <2>4 DEF Receive, LifeInv, RequestInv, HashedInv
<1>3. CASE UNCHANGED vars
  BY <1>3 DEF vars, LifeInv, RequestInv, HashedInv, FileInv
<1> QED
  BY <1>1, <1>2, <1>3, RequestKeepsHashed, HandleKeepsHashed, RequestKeepsFiles,
     HandleKeepsFiles, Zenon DEF Next

LEMMA LifeInitial == Init => LifeInv
BY InitInv, MsgFacts DEF Init, LifeInv, RequestInv, HashedInv, FileInv, Uploading

\* However uploads, confirms, PUTs, redeliveries and faults interleave, no file is
\* loaded twice, under one document or two, apart from documents whose client replaced
\* the object after a confirm had read it (documents.go:141-198, 350-389,
\* coordinator.go:247).
THEOREM FilesLoadedOnce == Spec => []FilesOnce
<1>1. LifeInv => FilesOnce
  <2> SUFFICES ASSUME LifeInv, NEW b \in loaded, NEW e \in loaded, b.of = e.of,
                      b.msg[1] \notin overwritten, e.msg[1] \notin overwritten
               PROVE  b = e
    BY DEF FilesOnce
  <2>1. b.msg[1] \in Doc /\ e.msg[1] \in Doc
    BY MsgFacts DEF LifeInv, IInv, TypeOK, Batch
  <2>2. hash[b.msg[1]] = hash[e.msg[1]] /\ hash[b.msg[1]] # NoContent
    BY DEF LifeInv, FileInv
  <2>3. b.msg[1] = e.msg[1]
    BY <2>1, <2>2 DEF LifeInv, IInv, UniqueContent
  <2> QED
    BY <2>3 DEF LifeInv, IInv, EntitiesOnce
<1> QED
  BY LifeInitial, LifeStep, <1>1, PTL DEF Spec

Entities == [d \in Doc |-> {b \in loaded : b.msg[1] = d}]

\* A step that writes no rows leaves every document's entities alone.
LEMMA SameEntities ==
    ASSUME UNCHANGED loaded
    PROVE  Entities' = Entities
BY DEF Entities

\* A document has entities if some delivery wrote a batch for it.
LEMMA EntitiesLoaded ==
    ASSUME NEW d \in Doc
    PROVE  Entities[d] = {} <=> ~Loaded(d)
BY DEF Entities, Loaded

\* A request announces a document, has its bytes accepted, or nothing to see.
LEMMA RequestRefines ==
    ASSUME LifeInv, NEW d \in Doc, Request(d)
    PROVE  Life!Next \/ UNCHANGED <<content, overwritten, hash, status, Entities, extracted, linked>>
<1>1. UNCHANGED <<Entities, extracted, linked>>
  <2>1. UNCHANGED outputVars
    BY Zenon DEF Request, UploadCheck, ClientPut, PutObject, InsertRow, Presign, ConfirmCheck,
       ConfirmRefused, ConfirmUpdate, Publish, PublishFails
  <2> QED
    BY <2>1, SameEntities
<1>2. CASE Presign(d)
  <2>1. status[d] = "absent"
    BY <1>2 DEF Presign, LifeInv, RequestInv, Uploading
  <2>2. Life!Announce(d)
    BY <1>1, <1>2, <2>1 DEF Presign, Life!Announce, Entities
  <2> QED
    BY <2>2 DEF Life!Next, Life!Client
<1>3. ASSUME NEW x \in Content, UploadCheck(d, x) \/ ClientPut(d, x)
      PROVE  Life!Next
  <2>1. /\ content' = [content EXCEPT ![d] = x]
        /\ UNCHANGED <<hash, status>>
    BY <1>3 DEF UploadCheck, ClientPut
  <2>2. overwritten' = overwritten \cup {d} \/ (hash[d] = NoContent /\ UNCHANGED overwritten)
    <3>1. CASE UploadCheck(d, x)
      BY <3>1 DEF UploadCheck, LifeInv, RequestInv, Uploading, IInv, RowInv
    <3>2. CASE ClientPut(d, x)
      BY <3>2 DEF ClientPut
    <3> QED
      BY <1>3, <3>1, <3>2
  <2>3. Life!Put(d, x)
    BY <1>1, <2>1, <2>2 DEF Life!Put, Life!Hashed, Entities
  <2> QED
    BY <2>3 DEF Life!Next, Life!Client
<1>4. ASSUME InsertRow(d) \/ ConfirmUpdate(d),
             NEW x \in Content, hash' = [hash EXCEPT ![d] = x], Fresh(d, x), Life!Read(d, x)
      PROVE  Life!Next
  <2>1. \A e \in Doc \ {d} : hash[e] # x
    BY <1>4, NoContentAssumption DEF Fresh, LifeInv, IInv, RowInv
  <2>2. Life!Accept(d, x)
    BY <1>1, <1>4, <2>1 DEF InsertRow, ConfirmUpdate, Life!Accept, Entities
  <2> QED
    BY <2>2 DEF Life!Next, Life!Client
<1>5. CASE InsertRow(d) \/ ConfirmUpdate(d)
  <2>1. CASE InsertRow(d)
    <3>1. content[d] \in Content /\ hash' = [hash EXCEPT ![d] = content[d]] /\ Fresh(d, content[d])
      BY <2>1 DEF InsertRow, IndexAdmits, LifeInv, RequestInv, IInv, TypeOK
    <3>2. Life!Read(d, content[d])
      BY DEF Life!Read
    <3> QED
      BY <1>4, <2>1, <3>1, <3>2, Zenon
  <2>2. CASE ConfirmUpdate(d)
    <3>1. confirm[d] \in Content /\ hash' = [hash EXCEPT ![d] = confirm[d]] /\ Fresh(d, confirm[d])
      BY <2>2 DEF ConfirmUpdate, IndexAdmits, LifeInv, IInv, TypeOK
    <3>2. Life!Read(d, confirm[d])
      BY <2>2 DEF ConfirmUpdate, Life!Read, LifeInv, FileInv
    <3> QED
      BY <1>4, <2>2, <3>1, <3>2, Zenon
  <2> QED
    BY <1>5, <2>1, <2>2
<1>6. CASE UNCHANGED <<content, overwritten, hash, status>>
  BY <1>1, <1>6
<1> QED
  BY <1>2, <1>3, <1>5, <1>6, Zenon DEF Request, PutObject, ConfirmCheck, ConfirmRefused,
     Publish, PublishFails

\* The transaction of a coordinator writes the first batch of its document in one
\* step, and no other document's.
LEMMA CommitRefines ==
    ASSUME LifeInv, NEW c \in Coordinator, CommitEntities(c)
    PROVE  Life!Next
<1>1. /\ job[c] \in Msg /\ job[c][1] \in Doc
      /\ [msg |-> job[c], attempt |-> attempt[c], of |-> streamed[c]] \in Batch
  BY JobHashed, SMTT(30) DEF CommitEntities, LifeInv, IInv, TypeOK, HandInv, Batch
<1> SUFFICES ASSUME NEW d \in Doc, d = job[c][1],
                    NEW b \in Batch, b = [msg |-> job[c], attempt |-> attempt[c], of |-> streamed[c]]
             PROVE  Life!Next
  BY <1>1
<1>2. hash[d] # NoContent
  BY JobHashed DEF CommitEntities
<1>3. Entities[d] = {}
  BY EntitiesLoaded DEF CommitEntities, LifeInv, IInv, LockInv
<1>4. Entities' = [Entities EXCEPT ![d] = {b}]
  <2>1. loaded' = loaded \cup {b}
    BY DEF CommitEntities
  <2>2. b.msg[1] = d
    OBVIOUS
  <2>3. ASSUME NEW e \in Doc
        PROVE  {f \in loaded' : f.msg[1] = e} = IF e = d THEN {b} ELSE {f \in loaded : f.msg[1] = e}
    BY <1>3, <2>1, <2>2 DEF Entities
  <2> QED
    BY <2>3 DEF Entities
<1>5. UNCHANGED <<content, overwritten, hash, status, extracted, linked>>
  BY DEF CommitEntities
<1>6. Life!Read(d, b.of)
  BY DEF CommitEntities, LifeInv, FileInv, Life!Read
<1>7. Life!Load(d, b)
  BY <1>2, <1>3, <1>4, <1>5, <1>6 DEF Life!Load, Life!Hashed, Entities
<1> QED
  BY <1>7 DEF Life!Next, Life!Pipeline

\* Every step of a coordinator is one of the pipeline, or none.
LEMMA HandleRefines ==
    ASSUME LifeInv, NEW c \in Coordinator, Handle(c) \/ Crash(c)
    PROVE  Life!Next \/ UNCHANGED <<content, overwritten, hash, status, Entities, extracted, linked>>
<1> DEFINE d == job[c][1]
<1>1. ASSUME NEW s \in {"done", "failed"}, Working(c), status' = [status EXCEPT ![d] = s],
             UNCHANGED <<requestVars, outputVars>>
      PROVE  Life!Next
  <2>1. Life!Record(d, s)
    BY <1>1, JobHashed, SameEntities DEF Life!Record, Life!Hashed, Entities
  <2> QED
    BY <1>1, <2>1, JobHashed DEF Life!Next, Life!Pipeline
<1>2. CASE RequestExtraction(c)
  <2>1. Life!Extract(d)
    BY <1>2, JobHashed, SameEntities DEF RequestExtraction, Life!Extract, Life!Hashed, Entities
  <2> QED
    BY <1>2, <2>1, JobHashed DEF RequestExtraction, Life!Next, Life!Pipeline
<1>3. CASE RequestLink(c)
  <2>1. {e \in Doc : Loaded(e)} = {e \in Doc : Entities[e] # {}}
    BY EntitiesLoaded
  <2>2. Life!Offer
    BY <1>3, <2>1, SameEntities DEF RequestLink, Life!Offer, Entities
  <2> QED
    BY <2>2 DEF Life!Next, Life!Pipeline
<1>4. CASE MarkDone(c) \/ MarkFailed(c)
  BY <1>1, <1>4 DEF MarkDone, MarkFailed
<1>5. CASE UNCHANGED <<requestVars, status, outputVars>>
  BY <1>5, SameEntities
<1> QED
  BY <1>2, <1>3, <1>4, <1>5, CommitRefines, Zenon DEF Handle, Ingest, LockDocument,
     CountEntities, StepFails, Nak, MarkFailedFails, Ack, ReplyLost, Crash

LEMMA StepRefines ==
    ASSUME LifeInv, [Next]_vars
    PROVE  Life!Next \/ UNCHANGED <<content, overwritten, hash, status, Entities, extracted, linked>>
<1>1. CASE UNCHANGED <<content, overwritten, hash, status, outputVars>>
  BY <1>1, SameEntities
<1> QED
  BY <1>1, RequestRefines, HandleRefines, Zenon DEF Next, AckWaitExpires, Receive, vars

\* With any number of coordinators and every fault, the two upload paths, the queue
\* and the statements of the coordinator are invisible: a document's row, entities
\* and hand-overs change only as DocumentLife allows. In particular entities come
\* from the bytes that were hashed, unless the client replaced them since
\* (documents.go:148-198, 350-389, coordinator.go:247, 472-517).
THEOREM ImplementsLife == Spec => RefinesLife
<1>1. Init => Life!Init
  BY DEF Init, Life!Init
<1>2. LifeInv /\ [Next]_vars => [Life!Next]_(Life!vars)
  BY StepRefines DEF Life!vars, Entities
<1> QED
  BY LifeInitial, LifeStep, <1>1, <1>2, PTL DEF Spec, RefinesLife, Life!Spec
=============================================================================
