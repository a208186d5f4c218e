------------------------------ MODULE LinkPass ------------------------------
(***************************************************************************)
(* The book-wide link pass: documents whose rows the coordinator stores,   *)
(* one link.requested message for each, and the single consumer of the     *)
(* agent runtime that answers a message by reading the rows that are in no *)
(* group, running the linker over them and writing the groups back one     *)
(* request at a time (agent-runtime/main.py, mcp_client, internal/mcp).    *)
(*                                                                         *)
(* JetStream is external.  The subscription names no durable, so it is     *)
(* ephemeral: the bound on deliveries is the consumer's own, copies the    *)
(* server has pushed are handled even when the message is acked meanwhile, *)
(* and a restarted process starts counting from one.  The coordinator's    *)
(* side is in DocumentIntake; here a document is stored, then announced.   *)
(***************************************************************************)
EXTENDS Linker, Sequences, SequencesExt

CONSTANTS
    Book,        \* books to start from: the entities of every document to come
    Limit,       \* LIMIT of get_pending_entities
    MaxAttempts, \* MAX_DELIVERY_ATTEMPTS
    MaxFaults    \* bound: faults in one behaviour

ASSUME LimitAssumption    == Limit \in Nat \ {0}
ASSUME AttemptsAssumption == MaxAttempts \in Nat \ {0}
ASSUME FaultsAssumption   == MaxFaults \in Nat

NoJob == 0
ASSUME DocumentAssumption == \A B \in Book : \A e \in B : Row[e].doc # NoJob

VARIABLES
    book,       \* the entities of all documents
    stored,     \* the documents whose rows are committed, oldest first
    message,    \* what became of each document's link.requested
    delivered,  \* its NumDelivered
    groups,     \* the groups stored; id tells apart groups with the same rows
    pc,         \* where the consumer is
    job,        \* the document whose message it holds
    seen,       \* the rows the pass read
    plan,       \* the candidates the linker returned
    todo,       \* those persist_groups has not come to
    failed,     \* whether any of them failed
    faults      \* faults so far

vars == <<book, stored, message, delivered, groups, pc, job, seen, plan, todo, failed, faults>>
queueVars == <<message, delivered>>
passVars  == <<pc, job, seen, plan, todo, failed>>

Document == {Row[e].doc : e \in book}
Stored   == ToSet(stored)
InDB     == {e \in book : Row[e].doc \in Stored}

Message == {"none", "ready", "unacked", "gone"}
PC      == {"idle", "read", "persist"}

Members(g) == g.inv \cup g.bank \cup g.gl
InGroup    == UNION {Members(g) : g \in groups}

TypeOK ==
    /\ book \in Book
    /\ stored \in Seq(Document)
    /\ message \in [Document -> Message]
    /\ delivered \in [Document -> Nat]
    /\ \A g \in groups : /\ Members(g) \subseteq InDB
                         /\ g.bank # {} /\ g.gl # {}
                         /\ g.status \in {"auto_linked", "needs_review"}
    /\ pc \in PC
    /\ job \in Document \cup {NoJob}
    /\ pc = "idle" <=> job = NoJob
    /\ seen \subseteq InDB
    /\ todo \subseteq plan
    /\ failed \in BOOLEAN
    /\ faults \in 0 .. MaxFaults

Init ==
    /\ book \in Book
    /\ stored = <<>>
    /\ message = [d \in Document |-> "none"]
    /\ delivered = [d \in Document |-> 0]
    /\ groups = {}
    /\ pc = "idle"
    /\ job = NoJob
    /\ seen = {}
    /\ plan = {}
    /\ todo = {}
    /\ failed = FALSE
    /\ faults = 0

Fault ==
    /\ faults < MaxFaults
    /\ faults' = faults + 1

-----------------------------------------------------------------------------
(* The coordinator: all rows of a document in one transaction, then the    *)
(* request to link its book.                                               *)

Store(d) ==
    /\ d \notin Stored
    /\ stored' = Append(stored, d)
    /\ UNCHANGED <<book, queueVars, groups, passVars, faults>>

PublishLink(d) ==
    /\ d \in Stored
    /\ message[d] = "none"
    /\ message' = [message EXCEPT ![d] = "ready"]
    /\ UNCHANGED <<book, stored, delivered, groups, passVars, faults>>

AckWaitExpires(d) ==
    /\ Fault
    /\ message[d] = "unacked"
    /\ message' = [message EXCEPT ![d] = "ready"]
    /\ UNCHANGED <<book, stored, delivered, groups, passVars>>

-----------------------------------------------------------------------------
(* get_pending_entities.                                                   *)

\* Mutant: the rows of existing groups are offered again.
AllRows == InDB

Pending == InDB \ InGroup

\* The newest Limit rows; rows of one document have one extracted_at.
Older(d, e) == \E i, j \in 1 .. Len(stored) : i < j /\ stored[i] = d /\ stored[j] = e
Windows(S) ==
    IF Cardinality(S) <= Limit THEN {S}
    ELSE {W \in kSubset(Limit, S) : \A e \in W, f \in S \ W : ~Older(Row[e].doc, Row[f].doc)}

-----------------------------------------------------------------------------
(* The consumer.                                                           *)

Take(d) ==
    /\ pc = "idle"
    /\ message[d] = "ready"
    /\ message' = [message EXCEPT ![d] = "unacked"]
    /\ delivered' = [delivered EXCEPT ![d] = @ + 1]
    /\ pc' = "read"
    /\ job' = d
    /\ UNCHANGED <<book, stored, groups, seen, plan, todo, failed, faults>>

\* process_link up to persist_groups: nothing else runs between read and plan.
Read ==
    /\ pc = "read"
    /\ \E W \in Windows(Pending) : \E P \in Plans(W) :
         /\ seen' = W
         /\ plan' = P
         /\ todo' = P
    /\ pc' = "persist"
    /\ UNCHANGED <<book, stored, queueVars, groups, job, failed, faults>>

\* get_pending_entities or get_book_tolerance raises.
ReadFails ==
    /\ Fault
    /\ pc = "read"
    /\ failed' = TRUE
    /\ pc' = "persist"
    /\ UNCHANGED <<book, stored, queueVars, groups, job, seen, plan, todo>>

SameRows(c, d) == c.inv = d.inv /\ c.bank = d.bank /\ c.gl = d.gl

\* One transaction of create_entity_link; the id is the database's.
Insert(c) ==
    groups' = groups \cup {[id |-> Cardinality({g \in groups : SameRows(g, c)}),
                            inv |-> c.inv, bank |-> c.bank, gl |-> c.gl, status |-> Route(c)]}

PersistGroup(c) ==
    /\ pc = "persist"
    /\ c \in todo
    /\ Insert(c)
    /\ todo' = todo \ {c}
    /\ UNCHANGED <<book, stored, queueVars, pc, job, seen, plan, failed, faults>>

\* Mutant: persist_groups logs a failure and forgets it.
PersistSwallows(c) ==
    /\ Fault
    /\ pc = "persist"
    /\ c \in todo
    /\ (UNCHANGED groups \/ Insert(c))
    /\ todo' = todo \ {c}
    /\ UNCHANGED <<book, stored, queueVars, pc, job, seen, plan, failed>>

\* The request raises, before or after the API committed it; the loop goes on.
PersistFails(c) ==
    /\ Fault
    /\ pc = "persist"
    /\ c \in todo
    /\ (UNCHANGED groups \/ Insert(c))
    /\ todo' = todo \ {c}
    /\ failed' = TRUE
    /\ UNCHANGED <<book, stored, queueVars, pc, job, seen, plan>>

\* The handler returns, or its process is gone.
Release ==
    /\ pc' = "idle"
    /\ job' = NoJob
    /\ seen' = {}
    /\ plan' = {}
    /\ todo' = {}
    /\ failed' = FALSE

\* Mutant: every failure is given up at once.
NeverRetried == "gone"

\* _retry_or_drop: nak while attempts remain, then term.
AfterFailure == IF delivered[job] < MaxAttempts THEN "ready" ELSE "gone"

\* persist_groups returns or raises: ack, nak or term.  A copy that the server
\* pushed meanwhile stays to be handled.
Settle ==
    /\ pc = "persist"
    /\ todo = {}
    /\ message' = [message EXCEPT ![job] =
                     IF @ # "unacked" THEN @ ELSE IF failed THEN AfterFailure ELSE "gone"]
    /\ Release
    /\ UNCHANGED <<book, stored, delivered, groups, faults>>

\* The process dies; its successor gets what was not acked, counted afresh.
Crash ==
    /\ Fault
    /\ pc # "idle"
    /\ message' = [d \in Document |-> IF message[d] = "unacked" THEN "ready" ELSE message[d]]
    /\ delivered' = [d \in Document |-> 0]
    /\ Release
    /\ UNCHANGED <<book, stored, groups>>

Handle ==
    \/ \E d \in Document : Take(d)
    \/ Read
    \/ ReadFails
    \/ \E c \in todo : PersistGroup(c) \/ PersistFails(c)
    \/ Settle

Next ==
    \/ \E d \in Document : Store(d) \/ PublishLink(d) \/ AckWaitExpires(d)
    \/ Handle
    \/ Crash

Spec == Init /\ [][Next]_vars

\* The coordinator retries until its publish is acked and the consumer loops
\* for ever; nobody has to upload anything.
Fairness == WF_vars(\E d \in Document : PublishLink(d)) /\ WF_vars(Handle)

FairSpec == Spec /\ Fairness

-----------------------------------------------------------------------------
(* Properties.                                                             *)

\* A group stored as auto_linked is one the verification tier, which takes the
\* largest of all three differences, finds within tolerance: confidence is
\* never taken for tolerance (link.py:379-416, decimal_math/mod.rs:68-102).
AutoLinkedWithinTolerance ==
    \A g \in groups : g.status = "auto_linked" => MaxVariance(g) <= Tolerance

\* No two groups say of the same bank and GL rows that they reconcile: not
\* within a pass, where several candidates cover them, and not across passes,
\* whatever is retried, redelivered or restarted, although no constraint of the
\* database forbids it (link.py:471-487, mcp_client/__init__.py:94-107).
NoTwinGroups ==
    \A g, h \in groups : g.bank = h.bank /\ g.gl = h.gl => g = h

\* A pass about to be acknowledged stored everything the linker returned
\* (main.py:72-83, mcp_client/__init__.py:86-92).
AckedPassIsComplete ==
    pc = "persist" /\ todo = {} /\ ~failed =>
        \A c \in plan : \E g \in groups : SameRows(g, c)

\* Three rows that agree to the cent, on the day and in the name.
Perfect(i, b, g) ==
    /\ ~Row[i].void /\ ~Row[b].void /\ ~Row[g].void
    /\ Magnitude(Row[i].amount) = Magnitude(Row[b].amount)
    /\ Magnitude(Row[b].amount) = Magnitude(Row[g].amount)
    /\ Row[i].date = Row[b].date /\ Row[b].date = Row[g].date
    /\ Row[i].name = Row[b].name /\ Row[b].name = Row[g].name
    /\ Similarity[Row[i].name, Row[i].name] >= NameFloor

\* The rows of such a triple are all stored and none of them is in a group.
TripleUnlinked ==
    \E i \in OfType(Pending, "invoice_line_item"), b \in OfType(Pending, "bank_transaction"),
       g \in OfType(Pending, "gl_entry") : Perfect(i, b, g)

\* In whatever order its documents arrive, and whatever fails less often than
\* MaxAttempts, a perfect triple does not stay unlinked (main.py:86-146).
PerfectTriplesLinked == TripleUnlinked ~> ~TripleUnlinked

\* A bank and a GL row of the same day and name whose amounts differ as a
\* posting error would are put before a person, never left unmatched
\* (link.py:290-300, 421-425).
DiscrepancySurfaces ==
    pc = "persist" /\ todo = {} /\ ~failed /\ Built(seen) # {} =>
        \A b \in OfType(seen, "bank_transaction"), g \in OfType(seen, "gl_entry") :
            ~Row[b].void /\ ~Row[g].void /\ Mismatch(b, g)
            => \E c \in plan : b \in c.bank /\ g \in c.gl
=============================================================================
