----------------------------- MODULE FindingReview -----------------------------
(***************************************************************************)
(* The work of people on a finding (services/api/internal/findings): its   *)
(* status, the reviewer's sign-off, and attachments.                       *)
(*                                                                         *)
(* Resolving reads the reviewer in one statement and writes in another,    *)
(* without a transaction, and a read that fails counts as "no reviewer".   *)
(***************************************************************************)
EXTENDS Naturals, FiniteSets

CONSTANTS
    Findings,
    Reviewers,          \* people, one open request each
    Objects,            \* objects that may be uploaded to the bucket
    Elsewhere,          \* the objects among them under another book's prefix
    MaxReviewFaults     \* bound on the reads that fail

ASSUME ReviewBounds == MaxReviewFaults \in Nat /\ Elsewhere \subseteq Objects

VARIABLES
    finding,        \* finding[f]: status and reviewed_by
    attachment,     \* rows of finding_attachments, as <<finding, object>>
    stored,         \* objects in the bucket
    review,         \* review[u]: the resolving request of u
    misread,        \* findings resolved after a failed read
    reviewFaults

reviewVars == <<finding, attachment, stored, review, misread, reviewFaults>>

FindingStatus == {"open", "acknowledged", "resolved"}
Resolving == [next: {"idle", "sign", "resolve"}, on: SUBSET Findings]

ReviewTypeOK ==
    /\ finding \in [Findings -> [status: FindingStatus, reviewedBy: SUBSET Reviewers]]
    /\ attachment \subseteq Findings \X Objects
    /\ stored \subseteq Objects
    /\ review \in [Reviewers -> Resolving]
    /\ misread \subseteq Findings
    /\ reviewFaults \in 0..MaxReviewFaults

NoRequest == [next |-> "idle", on |-> {}]

ReviewInit ==
    /\ finding = [f \in Findings |-> [status |-> "open", reviewedBy |-> {}]]
    /\ attachment = {} /\ stored = {}
    /\ review = [u \in Reviewers |-> NoRequest]
    /\ misread = {}
    /\ reviewFaults = 0

\* HandleUpdateStatus with "open" or "acknowledged": one statement, which also
\* takes a resolved finding back and leaves its reviewer.
SetStatus(f, status) ==
    /\ status \in {"open", "acknowledged"}
    /\ finding[f].status # status
    /\ finding' = [finding EXCEPT ![f].status = status]
    /\ UNCHANGED <<attachment, stored, review, misread, reviewFaults>>

\* Mutant: whoever resolves signs.
Overrule(u, f) ==
    /\ review[u].next = "idle"
    /\ review' = [review EXCEPT ![u] = [next |-> "sign", on |-> {f}]]
    /\ UNCHANGED <<finding, attachment, stored, misread, reviewFaults>>

\* HandleUpdateStatus with "resolved": read the reviewer, then write.
ReadReviewer(u, f) ==
    /\ review[u].next = "idle"
    /\ review' = [review EXCEPT ![u] =
           [next |-> IF finding[f].reviewedBy = {} THEN "sign" ELSE "resolve", on |-> {f}]]
    /\ UNCHANGED <<finding, attachment, stored, misread, reviewFaults>>

\* The error of the read is dropped and the reviewer stays nil.
ReadReviewerFails(u, f) ==
    /\ review[u].next = "idle"
    /\ reviewFaults < MaxReviewFaults
    /\ reviewFaults' = reviewFaults + 1
    /\ review' = [review EXCEPT ![u] = [next |-> "sign", on |-> {f}]]
    /\ misread' = misread \cup {f}
    /\ UNCHANGED <<finding, attachment, stored>>

Done(u) == review' = [review EXCEPT ![u] = NoRequest]

Sign(u) ==
    /\ review[u].next = "sign"
    /\ \E f \in review[u].on :
           finding' = [finding EXCEPT ![f] = [status |-> "resolved", reviewedBy |-> {u}]]
    /\ Done(u)
    /\ UNCHANGED <<attachment, stored, misread, reviewFaults>>

Resolve(u) ==
    /\ review[u].next = "resolve"
    /\ \E f \in review[u].on : finding' = [finding EXCEPT ![f].status = "resolved"]
    /\ Done(u)
    /\ UNCHANGED <<attachment, stored, misread, reviewFaults>>

\* The UPDATE fails: a 500 and nothing written.
ResolveFails(u) ==
    /\ review[u].next # "idle"
    /\ reviewFaults < MaxReviewFaults
    /\ reviewFaults' = reviewFaults + 1
    /\ Done(u)
    /\ UNCHANGED <<finding, attachment, stored, misread>>

\* A presigned upload; no code deletes an object.
PutObject(o) ==
    /\ o \notin stored
    /\ stored' = stored \cup {o}
    /\ UNCHANGED <<finding, attachment, review, misread, reviewFaults>>

\* HandleAddAttachment: the key must lie under the finding's book and exist.
AddAttachment(f, o) ==
    /\ o \in stored \ Elsewhere
    /\ <<f, o>> \notin attachment
    /\ attachment' = attachment \cup {<<f, o>>}
    /\ UNCHANGED <<finding, stored, review, misread, reviewFaults>>

ReviewNext ==
    \/ \E f \in Findings, status \in FindingStatus : SetStatus(f, status)
    \/ \E u \in Reviewers, f \in Findings : ReadReviewer(u, f) \/ ReadReviewerFails(u, f)
    \/ \E u \in Reviewers : Sign(u) \/ Resolve(u) \/ ResolveFails(u)
    \/ \E o \in Objects : PutObject(o)
    \/ \E f \in Findings, o \in Objects : AddAttachment(f, o)

ReviewSpec == ReviewInit /\ [][ReviewNext]_reviewVars

------------------------------------------------------------------------------
(***************************************************************************)
(* Sign-off is not taken over: once a finding has a reviewer and no        *)
(* request that read it before is still to write, the reviewer stays,      *)
(* through reopenings and later resolutions, unless the read of a later    *)
(* request failed, whose error the handler drops (findings.go:200-220).    *)
(***************************************************************************)
Signing(f) == \E u \in Reviewers : review[u].next = "sign" /\ f \in review[u].on
SignedOff(f, u) == finding[f].reviewedBy = {u} /\ ~Signing(f)

ReviewerStands ==
    [][\A f \in Findings, u \in Reviewers :
           SignedOff(f, u) => (SignedOff(f, u)' \/ f \in misread')]_reviewVars
==============================================================================
