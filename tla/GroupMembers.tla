------------------------------ MODULE GroupMembers ------------------------------
(***************************************************************************)
(* Members of reconciliation groups under split, merge and review          *)
(* (humanoverride.go HandleSplitGroup, HandleMergeGroups; review.go).      *)
(*                                                                         *)
(* Split and merge are transactions at READ COMMITTED: the UPDATE that     *)
(* supersedes a source group waits for whoever holds its row, and what a   *)
(* transaction creates is seen when it commits. The members of a group are *)
(* written with it and never change, a member brings its role along.       *)
(***************************************************************************)
EXTENDS Naturals, Sequences, FiniteSets, SequencesExt

CONSTANTS
    Entities,           \* rows of extracted_entities
    MaxGroups,          \* bound on the groups
    Editors,            \* people splitting, merging and reviewing
    Partitions,         \* what a split may ask for, without the empty partitions it skips
    Decisions,          \* of a review: subset of {"confirmed", "rejected"}
    MaxRegroupings      \* bound on the splits and merges

ASSUME GroupBounds ==
    /\ MaxGroups \in Nat /\ MaxGroups >= 2 /\ MaxRegroupings \in Nat
    /\ Decisions \subseteq {"confirmed", "rejected"}
    /\ Partitions \subseteq Seq((SUBSET Entities) \ {{}})

VARIABLES
    group,          \* group[g]: the row of reconciliation_groups and its members
    edit,           \* edit[u]: the open transaction of editor u
    doubled,        \* entities put in a second live group, see NoneLost
    leftOut,        \* entities that a split named in no partition
    regroupings

groupVars == <<group, edit, doubled, leftOut, regroupings>>

Groups == 1..MaxGroups
GroupStatus == {"absent", "needs_review", "confirmed", "rejected", "superseded"}
Edit == [todo: Seq(Groups), held: SUBSET Groups, parts: Seq(SUBSET Entities)]

GroupTypeOK ==
    /\ group \in [Groups -> [status: GroupStatus, members: SUBSET Entities]]
    /\ edit \in [Editors -> Edit]
    /\ doubled \subseteq Entities /\ leftOut \subseteq Entities
    /\ regroupings \in 0..MaxRegroupings

NoEdit == [todo |-> <<>>, held |-> {}, parts |-> <<>>]

\* The linker put every entity in one group.
GroupInit ==
    /\ \E home \in [Entities -> {1, 2}] :
           group = [g \in Groups |->
               LET members == {e \in Entities : home[e] = g}
               IN  [status |-> IF members = {} THEN "absent" ELSE "needs_review", members |-> members]]
    /\ edit = [u \in Editors |-> NoEdit]
    /\ doubled = {} /\ leftOut = {}
    /\ regroupings = 0

Existing == {g \in Groups : group[g].status # "absent"}
Sources(u) == edit[u].held \cup ToSet(edit[u].todo)
Editing(u) == Sources(u) # {}
Free(g, u) == \A v \in Editors \ {u} : g \notin edit[v].held
MembersOf(gs) == UNION {group[g].members : g \in gs}

Begin(u, sources, parts) ==
    /\ ~Editing(u)
    /\ regroupings < MaxRegroupings
    /\ regroupings' = regroupings + 1
    /\ edit' = [edit EXCEPT ![u] = [NoEdit EXCEPT !.todo = sources, !.parts = parts]]
    /\ UNCHANGED <<group, doubled, leftOut>>

\* At least two partitions, the empty ones skipped; the status of the group is
\* not looked at, and an entity of no such group brings in no row.
HandleSplitGroup(u, g, parts) ==
    /\ g \in Existing
    /\ Begin(u, <<g>>, parts)

\* One new group for everything; the status of the sources is not looked at.
HandleMergeGroups(u, sources) ==
    /\ ToSet(sources) \subseteq Existing
    /\ Begin(u, sources, <<Entities>>)

\* The row of the next source, in the order of the request.
Take(u) ==
    /\ edit[u].todo # <<>>
    /\ Free(Head(edit[u].todo), u)
    /\ edit' = [edit EXCEPT ![u].todo = Tail(@), ![u].held = @ \cup {Head(edit[u].todo)}]
    /\ UNCHANGED <<doubled, leftOut, regroupings>>

\* Mutant: the UPDATE runs on the connection and not in the transaction.
SupersedeAtOnce(u) ==
    /\ Take(u)
    /\ group' = [group EXCEPT ![Head(edit[u].todo)].status = "superseded"]

\* What the source becomes is seen at the commit.
Supersede(u) ==
    /\ Take(u)
    /\ UNCHANGED group

\* Neither handler looks at the status of a source: it may have been superseded
\* before the request, or by a request that committed while this one was open.
Stale(gs) == {g \in gs : group[g].status = "superseded"}

NamedTwice(parts) ==
    {e \in Entities : \E i, j \in 1..Len(parts) : i # j /\ e \in parts[i] \cap parts[j]}

\* One free id for each partition, whichever the database makes.
Fresh(u) == CHOOSE f \in Injection(1..Len(edit[u].parts), Groups \ Existing) : TRUE

Regrouped(u) ==
    LET Part(g) == {i \in 1..Len(edit[u].parts) : Fresh(u)[i] = g}
    IN  [g \in Groups |->
            IF g \in edit[u].held THEN [group[g] EXCEPT !.status = "superseded"]
            ELSE IF g \in Existing \/ Part(g) = {} THEN group[g]
            ELSE [status |-> "needs_review",
                  members |-> UNION {edit[u].parts[i] \cap MembersOf(edit[u].held) : i \in Part(g)}]]

CommitRegrouping(u) ==
    /\ Editing(u)
    /\ edit[u].todo = <<>>
    /\ Len(edit[u].parts) <= MaxGroups - Cardinality(Existing)
    /\ group' = Regrouped(u)
    /\ doubled' = doubled \cup MembersOf(Stale(edit[u].held))
           \cup (NamedTwice(edit[u].parts) \cap MembersOf(edit[u].held))
    /\ leftOut' = leftOut \cup (MembersOf(edit[u].held) \ UNION ToSet(edit[u].parts))
    /\ edit' = [edit EXCEPT ![u] = NoEdit]
    /\ UNCHANGED regroupings

\* A statement fails, the client leaves, or PostgreSQL picks this transaction to
\* break a deadlock of two merges that name the same groups in another order.
RollbackRegrouping(u) ==
    /\ Editing(u)
    /\ edit' = [edit EXCEPT ![u] = NoEdit]
    /\ UNCHANGED <<group, doubled, leftOut, regroupings>>

\* Confirm, reject, bulk confirm: whatever the status was, also of a group that
\* was superseded while the statement waited for its row.
ReviewGroup(u, g, status) ==
    /\ g \in Existing
    /\ Free(g, u) /\ ~Editing(u)
    /\ group[g].status # status
    /\ group' = [group EXCEPT ![g].status = status]
    /\ doubled' = doubled \cup MembersOf(Stale({g}))
    /\ UNCHANGED <<edit, leftOut, regroupings>>

GroupNext ==
    \E u \in Editors :
        \/ \E g \in Groups, parts \in Partitions : HandleSplitGroup(u, g, parts)
        \/ \E g, h \in Groups : HandleMergeGroups(u, <<g, h>>)
        \/ Supersede(u) \/ CommitRegrouping(u) \/ RollbackRegrouping(u)
        \/ \E g \in Groups, status \in Decisions : ReviewGroup(u, g, status)

GroupSpec == GroupInit /\ [][GroupNext]_groupVars

------------------------------------------------------------------------------
(***************************************************************************)
(* However splits, merges and reviews interleave, are rolled back or pick  *)
(* the same groups, no entity that a split did not leave out is lost: some *)
(* group has it that is not superseded (humanoverride.go:168-222,          *)
(* 255-293). It is exactly one, except for what the handlers let through:  *)
(* a split that names an entity twice (193-215), and a superseded group    *)
(* that is regrouped or reviewed once more, because somebody asked for it  *)
(* or because two requests raced for the group (186, 274, review.go:160).  *)
(***************************************************************************)
Live(e) == {g \in Existing : group[g].status # "superseded" /\ e \in group[g].members}

NoneLost ==
    \A e \in Entities \ leftOut :
        /\ Live(e) # {}
        /\ e \in doubled \/ \E g \in Existing : Live(e) = {g}
==============================================================================
