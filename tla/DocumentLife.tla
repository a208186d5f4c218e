---------------------------- MODULE DocumentLife ----------------------------
(***************************************************************************)
(* What the intake promises about a document, free of requests, queues,    *)
(* coordinators, retries and crashes.  A document has a row with a status  *)
(* and the hash of its bytes, its entities, and the two hand-overs to the  *)
(* agent runtime.                                                          *)
(*                                                                         *)
(* A document has a hash, no other's, before anything is done with it, and *)
(* its entities are written in one batch, once, from the bytes that were   *)
(* hashed, unless the client has replaced them since; a link pass is told  *)
(* of entities that are there.  The status alone goes back and forth: a    *)
(* confirm resets it, and of two attempts at a document the later to end   *)
(* decides.                                                                *)
(***************************************************************************)

CONSTANTS
    Doc,          \* ids of source_documents rows, used or not yet used
    Content,      \* file contents, told apart by their SHA-256
    NoContent,    \* the placeholder of a row without bytes
    Batch         \* the sets of rows that one transaction may write, b.of the bytes
                  \* they were parsed from

VARIABLES
    bytes,        \* bytes[d]: the object that the row points to
    replaced,     \* documents whose bytes were replaced after they had been read
    hash,         \* hash[d]: what the row says of the bytes
    status,       \* status[d]: "absent" before the INSERT, then the column
    entities,     \* entities[d]: the batches written for d
    extracted,    \* documents handed to extraction
    linked        \* documents whose entities were offered to a link pass

vars == <<bytes, replaced, hash, status, entities, extracted, linked>>

Init ==
    /\ bytes = [d \in Doc |-> NoContent]
    /\ replaced = {}
    /\ hash = [d \in Doc |-> NoContent]
    /\ status = [d \in Doc |-> "absent"]
    /\ entities = [d \in Doc |-> {}]
    /\ extracted = {}
    /\ linked = {}

Hashed(d) == hash[d] # NoContent

\* x may be what was read of d's bytes.
Read(d, x) == d \in replaced \/ bytes[d] = x

-----------------------------------------------------------------------------
(* The client. *)

\* A row for bytes to come.
Announce(d) ==
    /\ status[d] = "absent"
    /\ status' = [status EXCEPT ![d] = "pending"]
    /\ UNCHANGED <<bytes, replaced, hash, entities, extracted, linked>>

\* Bytes arrive. Of a document without a hash they may or may not have been read.
Put(d, x) ==
    /\ bytes' = [bytes EXCEPT ![d] = x]
    /\ replaced' = replaced \cup {d} \/ (~Hashed(d) /\ UNCHANGED replaced)
    /\ UNCHANGED <<hash, status, entities, extracted, linked>>

\* A hash that no other document has; a confirm starts the document anew.
Accept(d, x) ==
    /\ Read(d, x)
    /\ \A e \in Doc \ {d} : hash[e] # x
    /\ hash' = [hash EXCEPT ![d] = x]
    /\ status' = [status EXCEPT ![d] = "pending"]
    /\ UNCHANGED <<bytes, replaced, entities, extracted, linked>>

-----------------------------------------------------------------------------
(* The pipeline. *)

Load(d, b) ==
    /\ Hashed(d)
    /\ Read(d, b.of)
    /\ entities[d] = {}
    /\ entities' = [entities EXCEPT ![d] = {b}]
    /\ UNCHANGED <<bytes, replaced, hash, status, extracted, linked>>

Record(d, s) ==
    /\ Hashed(d)
    /\ status' = [status EXCEPT ![d] = s]
    /\ UNCHANGED <<bytes, replaced, hash, entities, extracted, linked>>

Extract(d) ==
    /\ Hashed(d)
    /\ extracted' = extracted \cup {d}
    /\ UNCHANGED <<bytes, replaced, hash, status, entities, linked>>

\* A link pass is about the book: all entities there are offered.
Offer ==
    /\ linked' = linked \cup {d \in Doc : entities[d] # {}}
    /\ UNCHANGED <<bytes, replaced, hash, status, entities, extracted>>

-----------------------------------------------------------------------------

Client == \E d \in Doc : Announce(d) \/ \E x \in Content : Put(d, x) \/ Accept(d, x)

Pipeline ==
    \/ \E d \in Doc :
           \/ \E b \in Batch : Load(d, b)
           \/ \E s \in {"done", "failed"} : Record(d, s)
           \/ Extract(d)
    \/ Offer

Next == Client \/ Pipeline

Spec == Init /\ [][Next]_vars
=============================================================================
