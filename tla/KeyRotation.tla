------------------------------ MODULE KeyRotation ------------------------------
(***************************************************************************)
(* Rotation of a firm's data encryption keys                               *)
(* (services/api/internal/tenant/rotate_keys.go).                          *)
(*                                                                         *)
(* A rotation is one transaction at READ COMMITTED. Its UPDATE finds the   *)
(* active keys of the moment it starts, waits for the rows that another    *)
(* rotation holds, and looks at their status again when it gets them; no   *)
(* constraint says that a firm has one active key.                         *)
(***************************************************************************)
EXTENDS Naturals, FiniteSets

CONSTANTS
    Keys,               \* keys that the firm may have
    Rotators            \* firm admins, one open request each

VARIABLES
    key,            \* key[k]: status of the row in data_encryption_keys
    rotation,       \* rotation[u]: the open transaction of u
    missed          \* missed[k]: keys committed after the UPDATE that made way for k had started

keyVars == <<key, rotation, missed>>

\* found: active keys when the UPDATE started; seen: all keys then; held: rows updated.
Rotation == [next: {"idle", "mark", "insert"},
             found: SUBSET Keys, seen: SUBSET Keys, held: SUBSET Keys]

KeyTypeOK ==
    /\ key \in [Keys -> {"absent", "active", "rotating"}]
    /\ rotation \in [Rotators -> Rotation]
    /\ missed \in [Keys -> SUBSET Keys]

NoRotation == [next |-> "idle", found |-> {}, seen |-> {}, held |-> {}]

KeyInit ==
    /\ key = [k \in Keys |-> "absent"]
    /\ rotation = [u \in Rotators |-> NoRotation]
    /\ missed = [k \in Keys |-> {}]

Made == {k \in Keys : key[k] # "absent"}
Active == {k \in Keys : key[k] = "active"}

BeginRotation(u) ==
    /\ rotation[u].next = "idle"
    /\ rotation' = [rotation EXCEPT ![u] =
           [next |-> "mark", found |-> Active, seen |-> Made, held |-> {}]]
    /\ UNCHANGED <<key, missed>>

Unheld(u, k) == \A v \in Rotators \ {u} : k \notin rotation[v].held

MarkRotating(u) ==
    /\ rotation[u].next = "mark"
    /\ \A k \in rotation[u].found : Unheld(u, k)
    /\ rotation' = [rotation EXCEPT
           ![u].next = "insert",
           ![u].held = {k \in rotation[u].found : key[k] = "active"}]
    /\ UNCHANGED <<key, missed>>

\* Mutant: the prior keys stay active.
CommitNewOnly(u, new) ==
    /\ rotation[u].next = "insert"
    /\ key[new] = "absent"
    /\ key' = [key EXCEPT ![new] = "active"]
    /\ missed' = [missed EXCEPT ![new] = Made \ rotation[u].seen]
    /\ rotation' = [rotation EXCEPT ![u] = NoRotation]

\* The INSERT and the commit: what the transaction wrote is seen at once.
CommitRotation(u, new) ==
    /\ rotation[u].next = "insert"
    /\ key[new] = "absent"
    /\ key' = [k \in Keys |->
           IF k = new THEN "active" ELSE IF k \in rotation[u].held THEN "rotating" ELSE key[k]]
    /\ missed' = [missed EXCEPT ![new] = Made \ rotation[u].seen]
    /\ rotation' = [rotation EXCEPT ![u] = NoRotation]

\* A statement fails, the client leaves, or the process dies.
RollbackRotation(u) ==
    /\ rotation[u].next # "idle"
    /\ rotation' = [rotation EXCEPT ![u] = NoRotation]
    /\ UNCHANGED <<key, missed>>

KeyNext ==
    \E u \in Rotators :
        \/ BeginRotation(u) \/ MarkRotating(u) \/ RollbackRotation(u)
        \/ \E new \in Keys : CommitRotation(u, new)

KeySpec == KeyInit /\ [][KeyNext]_keyVars

------------------------------------------------------------------------------
(***************************************************************************)
(* Whatever rotations fail or wait for each other, a firm that ever had a  *)
(* key has an active one, and two are active only if one of them was       *)
(* committed while the other's rotation was under way, past its look at    *)
(* the active keys (rotate_keys.go:47-68).                                 *)
(***************************************************************************)
OneActiveKey ==
    /\ Made # {} => Active # {}
    /\ \A k, l \in Active : k # l => (k \in missed[l] \/ l \in missed[k])
==============================================================================
