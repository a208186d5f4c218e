---------------------------- MODULE Disposition ----------------------------
(***************************************************************************)
(* What the API promises about the disposition of a reconciliation group,  *)
(* free of queues, workers, retries and crashes.  A group has a status (the *)
(* column reconciliation_groups.status) and the verdict the deterministic  *)
(* tier has recorded for it (its row in audit_findings, if any).           *)
(*                                                                         *)
(* The machine tier acts through Link, RecordVerdict and Downgrade only:   *)
(* it proposes a status at creation and may afterwards only lower          *)
(* "auto_linked" to "needs_review", and a verdict that exceeds tolerance    *)
(* lands in the same step as the downgrade it demands.  Every other action  *)
(* is a person at the review screens, or the agent's flag_for_review tool. *)
(***************************************************************************)

CONSTANT Group    \* ids of reconciliation_groups rows, used or not yet used

VARIABLES
    status,       \* status[g]: "absent" before the INSERT, then the column
    verdict       \* verdict[g]: what the recorded finding says of g

MachineStatus == {"auto_linked", "needs_review"}
HumanStatus   == {"confirmed", "rejected"}
Status        == {"absent"} \cup MachineStatus \cup HumanStatus \cup {"superseded"}
Verdict       == {"none", "within", "exceeds"}

vars == <<status, verdict>>

TypeOK ==
    /\ status \in [Group -> Status]
    /\ verdict \in [Group -> Verdict]

Init ==
    /\ status = [g \in Group |-> "absent"]
    /\ verdict = [g \in Group |-> "none"]

Exists(g) == status[g] # "absent"

-----------------------------------------------------------------------------
(* The machine tier. *)

\* The agent runtime proposes a group; only machine dispositions are accepted.
Link(g, s) ==
    /\ ~Exists(g)
    /\ status' = [status EXCEPT ![g] = s]
    /\ UNCHANGED verdict

\* The deterministic verdict is recorded once per group and disposes of it.
RecordVerdict(g, v) ==
    /\ Exists(g)
    /\ verdict[g] = "none"
    /\ verdict' = [verdict EXCEPT ![g] = v]
    /\ status' = IF v = "exceeds" /\ status[g] = "auto_linked"
                 THEN [status EXCEPT ![g] = "needs_review"]
                 ELSE status

\* A group nobody could verify, or that a second evaluation finds over
\* tolerance, is handed to a person.
Downgrade(g) ==
    /\ status[g] = "auto_linked"
    /\ status' = [status EXCEPT ![g] = "needs_review"]
    /\ UNCHANGED verdict

-----------------------------------------------------------------------------
(* People, and the agent's flag_for_review tool. *)

Decide(g, s) ==
    /\ Exists(g)
    /\ status' = [status EXCEPT ![g] = s]
    /\ UNCHANGED verdict

\* Split and merge: the old groups are superseded, the new ones start in review.
Regroup(old, new) ==
    /\ \A g \in old : Exists(g)
    /\ \A g \in new : ~Exists(g)
    /\ status' = [g \in Group |-> IF g \in old THEN "superseded"
                                  ELSE IF g \in new THEN "needs_review"
                                  ELSE status[g]]
    /\ UNCHANGED verdict

-----------------------------------------------------------------------------

Machine ==
    \E g \in Group :
        \/ \E s \in MachineStatus : Link(g, s)
        \/ \E v \in Verdict \ {"none"} : RecordVerdict(g, v)
        \/ Downgrade(g)

Person ==
    \/ \E g \in Group, s \in HumanStatus \cup {"needs_review"} : Decide(g, s)
    \/ \E old, new \in SUBSET Group : Regroup(old, new)

Next == Machine \/ Person

Spec == Init /\ [][Next]_vars
=============================================================================
