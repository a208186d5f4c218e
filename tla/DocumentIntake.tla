--------------------------- MODULE DocumentIntake ---------------------------
(***************************************************************************)
(* From a file to extracted entities: the two upload paths of              *)
(* documents.go, the DOCUMENTS work queue and the ingestion coordinator    *)
(* (pipeline/coordinator.go), up to the requests the coordinator publishes *)
(* for the agent runtime.                                                  *)
(*                                                                         *)
(* One book.  A document id stands for the request that creates the row, so *)
(* phase[d] is where that request, or the latest confirm of d, is.  As in  *)
(* VerifyWorker a step is one statement another actor can get in front of; *)
(* the coordinator's transaction holds the source_documents row lock       *)
(* exactly while its pc is "count" or "commit".  The failure event on      *)
(* PIPELINE_EVENTS has no consumer and is left out with the logging.       *)
(***************************************************************************)
EXTENDS Naturals

CONSTANTS
    Doc,          \* ids of source_documents rows, used or not yet used
    Content,      \* file contents, told apart by their SHA-256
    NoContent,    \* nothing stored yet; as a hash, the unique placeholder
    Coordinator,  \* loops bound to the durable consumer, one per API process
    NoMsg,        \* "no message in hand"
    MaxMsg,       \* bound: events published for one document
    MaxDeliver,   \* maxDeliveryAttempts
    Fault         \* the failures the environment may produce

\* publish: the API cannot publish        step:  a coordinator step errs, in effect or not
\* reply:   an Ack or a Nak is lost       flag:  the last-resort UPDATE errs
\* crash:   the API process dies          check: the duplicate check of a confirm errs
FaultKind == {"publish", "step", "reply", "flag", "crash", "check"}

ASSUME MaxMsgAssumption     == MaxMsg \in Nat \ {0}
ASSUME MaxDeliverAssumption == MaxDeliver \in Nat \ {0}
ASSUME NoContentAssumption  == NoContent \notin Content
ASSUME NoMsgAssumption      == NoMsg \notin Doc \X (1..MaxMsg)
ASSUME FaultAssumption      == Fault \subseteq FaultKind

VARIABLES
    phase,        \* where the upload or confirm request of d is
    url,          \* documents whose presigned URL the client holds
    content,      \* the bytes of the upload, or behind the storage key
    confirm,      \* the bytes that a confirm past its checks has read and hashed
    hash,         \* source_documents.content_hash
    overwritten,  \* documents whose object was replaced after a confirm had read it
    status,       \* source_documents.ocr_status, "absent" before the INSERT
    delivery,     \* what became of each document.uploaded message
    delivered,    \* JetStream's NumDelivered
    pc,           \* where each coordinator is in handleUploaded
    job,          \* the message it holds
    attempt,      \* NumDelivered as that message's metadata reported it
    streamed,     \* the bytes it read and parsed to entities
    loaded,       \* batches of extracted_entities rows, by the delivery that wrote them
    extracted,    \* documents with an entity.extraction.requested event
    linked        \* documents whose entities were there at some link.requested event

objectVars  == <<url, content, overwritten>>
requestVars == <<phase, confirm, hash, objectVars>>
queueVars   == <<delivery, delivered>>
handVars    == <<job, attempt, streamed>>
handlerVars == <<pc, handVars>>
outputVars  == <<loaded, extracted, linked>>
vars == <<requestVars, status, queueVars, handlerVars, outputVars>>

\* inserted / confirmed: row written, publish not yet attempted
\* queued / unqueued:    the latest publish succeeded / none has, or it failed
Phase    == {"none", "checked", "stored", "inserted", "confirmed", "queued", "unqueued"}
Status   == {"absent", "pending", "done", "failed"}
Delivery == {"none", "ready", "unacked", "acked", "exhausted"}
PC == {"idle", "ingest", "lock", "count", "commit", "mark", "extract", "link",
       "ack", "nak", "flag"}

Msg   == Doc \X (1..MaxMsg)
Bytes == Content \cup {NoContent}
Batch == [msg : Msg, attempt : 1..MaxDeliver, of : Bytes]

TypeOK ==
    /\ phase \in [Doc -> Phase]
    /\ url \subseteq Doc
    /\ content \in [Doc -> Bytes]
    /\ confirm \in [Doc -> Bytes]
    /\ hash \in [Doc -> Bytes]
    /\ overwritten \subseteq Doc
    /\ status \in [Doc -> Status]
    /\ delivery \in [Msg -> Delivery]
    /\ delivered \in [Msg -> 0..MaxDeliver]
    /\ pc \in [Coordinator -> PC]
    /\ job \in [Coordinator -> Msg \cup {NoMsg}]
    /\ attempt \in [Coordinator -> 0..MaxDeliver]
    /\ streamed \in [Coordinator -> Bytes]
    /\ loaded \subseteq Batch
    /\ extracted \subseteq Doc
    /\ linked \subseteq Doc

Init ==
    /\ phase = [d \in Doc |-> "none"]
    /\ url = {}
    /\ content = [d \in Doc |-> NoContent]
    /\ confirm = [d \in Doc |-> NoContent]
    /\ hash = [d \in Doc |-> NoContent]
    /\ overwritten = {}
    /\ status = [d \in Doc |-> "absent"]
    /\ delivery = [m \in Msg |-> "none"]
    /\ delivered = [m \in Msg |-> 0]
    /\ pc = [c \in Coordinator |-> "idle"]
    /\ job = [c \in Coordinator |-> NoMsg]
    /\ attempt = [c \in Coordinator |-> 0]
    /\ streamed = [c \in Coordinator |-> NoContent]
    /\ loaded = {}
    /\ extracted = {}
    /\ linked = {}

Exists(d)    == status[d] # "absent"
Loaded(d)    == \E b \in loaded : b.msg[1] = d
Working(c)   == pc[c] # "idle"
InHand(d)    == \E c \in Coordinator : Working(c) /\ job[c][1] = d
\* SELECT ... FOR UPDATE, held until the transaction ends.
Locked(d)    == \E c \in Coordinator : pc[c] \in {"count", "commit"} /\ job[c][1] = d
\* No live row of the book has these contents (the duplicate check).
Fresh(d, x)  == \A e \in Doc \ {d} : Exists(e) => hash[e] # x

-----------------------------------------------------------------------------
(* Direct upload: check, bytes, row, event.  Any error ends the request.   *)

UploadCheck(d, x) ==
    /\ phase[d] = "none"
    /\ Fresh(d, x)
    /\ phase' = [phase EXCEPT ![d] = "checked"]
    /\ content' = [content EXCEPT ![d] = x]
    /\ UNCHANGED <<url, confirm, hash, overwritten, status, queueVars, handlerVars, outputVars>>

\* Mutant: a storage key without the random part, so uploads replace each other.
PutShared(d) ==
    /\ phase[d] = "checked"
    /\ phase' = [phase EXCEPT ![d] = "stored"]
    /\ content' = [e \in Doc |-> IF hash[e] # NoContent THEN content[d] ELSE content[e]]
    /\ UNCHANGED <<url, confirm, hash, overwritten, status, queueVars, handlerVars, outputVars>>

PutObject(d) ==
    /\ phase[d] = "checked"
    /\ phase' = [phase EXCEPT ![d] = "stored"]
    /\ UNCHANGED <<confirm, hash, objectVars, status, queueVars, handlerVars, outputVars>>

\* Mutant: no unique index behind the duplicate check.
NoIndex(d, x) == TRUE

\* idx_unique_doc_per_book, tested by every write of content_hash.
IndexAdmits(d, x) == Fresh(d, x)

InsertRow(d) ==
    /\ phase[d] = "stored"
    /\ IndexAdmits(d, content[d])
    /\ phase' = [phase EXCEPT ![d] = "inserted"]
    /\ hash' = [hash EXCEPT ![d] = content[d]]
    /\ status' = [status EXCEPT ![d] = "pending"]
    /\ UNCHANGED <<confirm, objectVars, queueVars, handlerVars, outputVars>>

-----------------------------------------------------------------------------
(* Presigned upload: row first, bytes by the client, then confirm.         *)

Presign(d) ==
    /\ phase[d] = "none"
    /\ phase' = [phase EXCEPT ![d] = "unqueued"]
    /\ url' = url \cup {d}
    /\ status' = [status EXCEPT ![d] = "pending"]
    /\ UNCHANGED <<content, confirm, hash, overwritten, queueVars, handlerVars, outputVars>>

\* The URL serves any number of PUTs, also during and after a confirm.  Its
\* expiry would only take this step away, and is left out.
ClientPut(d, x) ==
    /\ d \in url
    /\ content[d] # x
    /\ content' = [content EXCEPT ![d] = x]
    /\ overwritten' = IF confirm[d] = NoContent /\ hash[d] = NoContent
                      THEN overwritten
                      ELSE overwritten \cup {d}
    /\ UNCHANGED <<phase, url, confirm, hash, status, queueVars, handlerVars, outputVars>>

\* Any document of the book may be confirmed, also one already processed; a
\* duplicate check that errs is passed over.
\* Bounds: one confirm of a document at a time, MaxMsg events per document.
ConfirmCheck(d) ==
    /\ phase[d] \in {"queued", "unqueued"}
    /\ confirm[d] = NoContent
    /\ content[d] # NoContent
    /\ \E k \in 1..MaxMsg : delivery[<<d, k>>] = "none"
    /\ Fresh(d, content[d]) \/ "check" \in Fault
    /\ confirm' = [confirm EXCEPT ![d] = content[d]]
    /\ UNCHANGED <<phase, hash, objectVars, status, queueVars, handlerVars, outputVars>>

\* The scan or the UPDATE fails, or the unique index refuses the hash.
ConfirmRefused(d) ==
    /\ confirm[d] # NoContent
    /\ confirm' = [confirm EXCEPT ![d] = NoContent]
    /\ UNCHANGED <<phase, hash, objectVars, status, queueVars, handlerVars, outputVars>>

\* Resets the status whatever it was, and writes the hash of the bytes it read.
ConfirmUpdate(d) ==
    /\ confirm[d] # NoContent
    /\ ~Locked(d)
    /\ IndexAdmits(d, confirm[d])
    /\ confirm' = [confirm EXCEPT ![d] = NoContent]
    /\ phase' = [phase EXCEPT ![d] = "confirmed"]
    /\ hash' = [hash EXCEPT ![d] = confirm[d]]
    /\ status' = [status EXCEPT ![d] = "pending"]
    /\ UNCHANGED <<objectVars, queueVars, handlerVars, outputVars>>

-----------------------------------------------------------------------------
(* The DOCUMENTS stream.                                                   *)

Publish(d) ==
    /\ phase[d] \in {"inserted", "confirmed"}
    /\ \E k \in 1..MaxMsg :
           /\ delivery[<<d, k>>] = "none"
           /\ delivery' = [delivery EXCEPT ![<<d, k>>] = "ready"]
    /\ phase' = [phase EXCEPT ![d] = "queued"]
    /\ UNCHANGED <<confirm, hash, objectVars, status, delivered, handlerVars, outputVars>>

\* The upload logs it and answers 201, the confirm answers 500.
PublishFails(d) ==
    /\ "publish" \in Fault
    /\ phase[d] \in {"inserted", "confirmed"}
    /\ phase' = [phase EXCEPT ![d] = "unqueued"]
    /\ UNCHANGED <<confirm, hash, objectVars, status, queueVars, handlerVars, outputVars>>

\* Mutant: a consumer without MaxDeliver.
RequeuedForever(m) == "ready"

Requeued(m) == IF delivered[m] < MaxDeliver THEN "ready" ELSE "exhausted"

AckWaitExpires(m) ==
    /\ delivery[m] = "unacked"
    /\ delivery' = [delivery EXCEPT ![m] = Requeued(m)]
    /\ UNCHANGED <<requestVars, status, delivered, handlerVars, outputVars>>

-----------------------------------------------------------------------------
(* The coordinator.                                                        *)

\* Mutants: acknowledge a failure at once; nak the last attempt like the others.
FailDrops(c) == "ack"
FailNaks(c)  == "nak"

\* fail(): nak while attempts remain, otherwise mark the document failed and ack.
FailTo(c) == IF attempt[c] < MaxDeliver THEN "nak" ELSE "flag"

GoTo(c, p) == pc' = [pc EXCEPT ![c] = p]

\* A step that took effect; its caller may still be handed an error.
Then(c, p) == GoTo(c, p) \/ ("step" \in Fault /\ GoTo(c, FailTo(c)))

\* The handler returns, or its process is gone: nothing of it remains.
Release(c) ==
    /\ GoTo(c, "idle")
    /\ job' = [job EXCEPT ![c] = NoMsg]
    /\ attempt' = [attempt EXCEPT ![c] = 0]
    /\ streamed' = [streamed EXCEPT ![c] = NoContent]

Receive(c, m) ==
    /\ pc[c] = "idle"
    /\ delivery[m] = "ready"
    /\ delivery' = [delivery EXCEPT ![m] = "unacked"]
    /\ delivered' = [delivered EXCEPT ![m] = @ + 1]
    /\ GoTo(c, "ingest")
    /\ job' = [job EXCEPT ![c] = m]
    /\ attempt' = [attempt EXCEPT ![c] = delivered[m] + 1]
    /\ UNCHANGED <<streamed, requestVars, status, outputVars>>

\* StreamObject, the column map and ProcessDocument, on the bytes that are there
\* now; they may parse to no entities at all, and then nothing is persisted.
Ingest(c) ==
    /\ pc[c] = "ingest"
    /\ \/ GoTo(c, "lock") /\ streamed' = [streamed EXCEPT ![c] = content[job[c][1]]]
       \/ GoTo(c, "mark") /\ UNCHANGED streamed
    /\ UNCHANGED <<requestVars, status, queueVars, job, attempt, outputVars>>

\* Mutant: persistEntities without FOR UPDATE.
LockNothing(c) ==
    /\ pc[c] = "lock"
    /\ GoTo(c, "count")
    /\ UNCHANGED <<requestVars, status, queueVars, handVars, outputVars>>

LockDocument(c) ==
    /\ pc[c] = "lock"
    /\ ~Locked(job[c][1])
    /\ GoTo(c, "count")
    /\ UNCHANGED <<requestVars, status, queueVars, handVars, outputVars>>

\* Mutant: a document that already has entities counts as processed.
CountThenAck(c) ==
    /\ pc[c] = "count"
    /\ GoTo(c, IF Loaded(job[c][1]) THEN "ack" ELSE "commit")
    /\ UNCHANGED <<requestVars, status, queueVars, handVars, outputVars>>

\* Entities already present end the transaction, not the handler.
CountEntities(c) ==
    /\ pc[c] = "count"
    /\ GoTo(c, IF Loaded(job[c][1]) THEN "mark" ELSE "commit")
    /\ UNCHANGED <<requestVars, status, queueVars, handVars, outputVars>>

CommitEntities(c) ==
    /\ pc[c] = "commit"
    /\ loaded' = loaded \cup {[msg |-> job[c], attempt |-> attempt[c], of |-> streamed[c]]}
    /\ Then(c, "mark")
    /\ UNCHANGED <<requestVars, status, queueVars, handVars, extracted, linked>>

MarkDone(c) ==
    /\ pc[c] = "mark"
    /\ ~Locked(job[c][1])
    /\ status' = [status EXCEPT ![job[c][1]] = "done"]
    /\ Then(c, "extract")
    /\ UNCHANGED <<requestVars, queueVars, handVars, outputVars>>

RequestExtraction(c) ==
    /\ pc[c] = "extract"
    /\ extracted' = extracted \cup {job[c][1]}
    /\ Then(c, "link")
    /\ UNCHANGED <<requestVars, status, queueVars, handVars, loaded, linked>>

\* The link pass is book-wide: it sees every document with entities.
RequestLink(c) ==
    /\ pc[c] = "link"
    /\ linked' = linked \cup {d \in Doc : Loaded(d)}
    /\ Then(c, "ack")
    /\ UNCHANGED <<requestVars, status, queueVars, handVars, loaded, extracted>>

\* Mutant: a failed request is skipped over, as the two publishes once were.
StepSkipped(c) ==
    /\ "step" \in Fault
    /\ pc[c] \in {"ingest", "lock", "count", "commit", "mark", "extract", "link"}
    /\ GoTo(c, IF pc[c] \in {"extract", "link"} THEN "ack" ELSE FailTo(c))
    /\ UNCHANGED <<requestVars, status, queueVars, handVars, outputVars>>

\* A step fails without effect; an open transaction is rolled back.
StepFails(c) ==
    /\ "step" \in Fault
    /\ pc[c] \in {"ingest", "lock", "count", "commit", "mark", "extract", "link"}
    /\ GoTo(c, FailTo(c))
    /\ UNCHANGED <<requestVars, status, queueVars, handVars, outputVars>>

Nak(c) ==
    /\ pc[c] = "nak"
    /\ delivery' = [delivery EXCEPT ![job[c]] = IF @ = "unacked" THEN Requeued(job[c]) ELSE @]
    /\ Release(c)
    /\ UNCHANGED <<requestVars, status, delivered, outputVars>>

\* fail() on the last attempt: the status is overwritten whatever it was.
MarkFailed(c) ==
    /\ pc[c] = "flag"
    /\ ~Locked(job[c][1])
    /\ status' = [status EXCEPT ![job[c][1]] = "failed"]
    /\ GoTo(c, "ack")
    /\ UNCHANGED <<requestVars, queueVars, handVars, outputVars>>

\* The UPDATE errs; fail() logs it and goes on to the ack.
MarkFailedFails(c) ==
    /\ "flag" \in Fault
    /\ pc[c] = "flag"
    /\ GoTo(c, "ack")
    /\ UNCHANGED <<requestVars, status, queueVars, handVars, outputVars>>

\* An ack deletes the message, also one that is waiting to be redelivered.
Ack(c) ==
    /\ pc[c] = "ack"
    /\ delivery' = [delivery EXCEPT ![job[c]] = IF @ \in {"unacked", "ready"} THEN "acked" ELSE @]
    /\ Release(c)
    /\ UNCHANGED <<requestVars, status, delivered, outputVars>>

ReplyLost(c) ==
    /\ "reply" \in Fault
    /\ pc[c] \in {"ack", "nak"}
    /\ Release(c)
    /\ UNCHANGED <<requestVars, status, queueVars, outputVars>>

Crash(c) ==
    /\ "crash" \in Fault
    /\ Working(c)
    /\ Release(c)
    /\ UNCHANGED <<requestVars, status, queueVars, outputVars>>

-----------------------------------------------------------------------------

Request(d) ==
    \/ \E x \in Content : UploadCheck(d, x) \/ ClientPut(d, x)
    \/ PutObject(d)
    \/ InsertRow(d)
    \/ Presign(d)
    \/ ConfirmCheck(d)
    \/ ConfirmRefused(d)
    \/ ConfirmUpdate(d)
    \/ Publish(d)
    \/ PublishFails(d)

Handle(c) ==
    \/ Ingest(c)
    \/ LockDocument(c)
    \/ CountEntities(c)
    \/ CommitEntities(c)
    \/ MarkDone(c)
    \/ RequestExtraction(c)
    \/ RequestLink(c)
    \/ StepFails(c)
    \/ Nak(c)
    \/ MarkFailed(c)
    \/ MarkFailedFails(c)
    \/ Ack(c)
    \/ ReplyLost(c)

Next ==
    \/ \E d \in Doc : Request(d)
    \/ \E m \in Msg : AckWaitExpires(m)
    \/ \E c \in Coordinator : (\E m \in Msg : Receive(c, m)) \/ Handle(c) \/ Crash(c)

Spec == Init /\ [][Next]_vars

\* A request that has written its row goes on to publish, the coordinator loop
\* runs for the process lifetime and JetStream enforces AckWait; nobody is
\* obliged to upload, put or confirm anything.
Fairness ==
    /\ \A d \in Doc : WF_vars(Publish(d) \/ PublishFails(d))
    /\ \A m \in Msg : WF_vars(AckWaitExpires(m))
    /\ \A c \in Coordinator : WF_vars((\E m \in Msg : Receive(c, m)) \/ Handle(c))

FairSpec == Spec /\ Fairness

-----------------------------------------------------------------------------
(* Properties.                                                             *)

\* Two uploads or confirms of the same bytes that race past the duplicate
\* check never both leave a row with that hash (documents.go:148-162, 359-389,
\* the unique index of infra/init.sql).
UniqueContent ==
    \A d, e \in Doc : hash[d] = hash[e] /\ hash[d] # NoContent => d = e

\* Redelivery, a second confirm, a commit in doubt, a crash or a second
\* coordinator never load a document's entities twice (the count under the row
\* lock, coordinator.go:472-497).
EntitiesOnce ==
    \A b, e \in loaded : b.msg[1] = e.msg[1] => b = e

\* No file's entities are loaded twice, under one document or two, however
\* uploads, confirms and PUTs race: the hash that was tested for duplicates is
\* that of the bytes processed (documents.go:141-198, 350-389, coordinator.go:247).
\* Only documents whose client used the presigned URL again after a confirm had
\* read the object are excepted: the code does not look at the bytes again.
FilesOnce ==
    \A b, e \in loaded :
        /\ b.of = e.of
        /\ b.msg[1] \notin overwritten
        /\ e.msg[1] \notin overwritten
        => b = e

Life == INSTANCE DocumentLife
            WITH entities <- [d \in Doc |-> {b \in loaded : b.msg[1] = d}],
                 bytes <- content, replaced <- overwritten

\* Through races of uploads, PUTs, confirms and coordinators, redelivery, lost
\* replies, failing steps and crashes, documents change only as DocumentLife
\* allows: a document is hashed, with a hash of its own, before it is processed;
\* its entities are written in one step, once, from the bytes that were hashed
\* unless the client has replaced them since, and then they are offered
\* (documents.go:148-198, 350-389, coordinator.go:247, 472-517).
RefinesLife == Life!Spec

Finished(d) ==
    /\ phase[d] = "queued"
    /\ \A k \in 1..MaxMsg : delivery[<<d, k>>] \in {"none", "acked", "exhausted"}
    /\ ~InHand(d)

\* Once every event of a queued document has been consumed the document says so:
\* it is done or failed, not pending forever (fail(), coordinator.go:162-226).
ConsumedIsRecorded ==
    \A d \in Doc : Finished(d) => status[d] \in {"done", "failed"}

\* A document left as done was handed on: its extraction was requested, and if
\* it has entities a link pass that sees them was (coordinator.go:297-328).
DoneIsForwarded ==
    \A d \in Doc : Finished(d) /\ status[d] = "done"
                        => d \in extracted /\ (Loaded(d) => d \in linked)

\* A document with a published event eventually shows done or failed, unless a
\* later confirm resets it and is itself refused (coordinator.go:106-114).
QueuedSettles ==
    \A d \in Doc : (\E k \in 1..MaxMsg : delivery[<<d, k>>] = "ready")
                        ~> status[d] \in {"done", "failed"} \/ phase[d] = "unqueued"

\* Entities in the table are eventually offered to a link pass, unless the
\* document is shown as failed or its latest event was refused to the client
\* (coordinator.go:297-328).
EntitiesReachLinker ==
    \A d \in Doc : Loaded(d) ~> \/ d \in linked
                                \/ status[d] = "failed"
                                \/ phase[d] = "unqueued"

\* An upload that has its row (and is answered 201) is eventually processed
\* (documents.go:200-212).
EveryUploadSettles ==
    \A d \in Doc : phase[d] = "inserted" ~> status[d] \in {"done", "failed"}
=============================================================================
