-------------------------- MODULE MCDocumentIntake --------------------------
(* Small instances of DocumentIntake for TLC. *)
EXTENDS DocumentIntake, TLC, FiniteSets

CONSTANTS d1, d2, x1, x2, c1, c2

TwoDocs == {d1, d2}
OneDoc  == {d1}
TwoFiles == {x1, x2}
OneFile  == {x1}
TwoCoordinators == {c1, c2}
OneCoordinator  == {c1}

AllFaults   == FaultKind
Recoverable == {"publish", "step", "reply"}
OnlyPublish == {"publish"}

\* Coordinators are interchangeable, and so are documents and files.
Symmetry == Permutations(TwoDocs) \cup Permutations(TwoFiles) \cup Permutations(TwoCoordinators)

-----------------------------------------------------------------------------
(* The safety run looks at each hazard with the actors it takes: at one      *)
(* document through its whole life, presigned and overwritten or in the hands *)
(* of both coordinators; and at two documents from their requests to the     *)
(* entities of both.                                                         *)

OneWorks == Cardinality({c \in Coordinator : Working(c)}) <= 1

WholeLife ==
    /\ Cardinality({d \in Doc : phase[d] # "none"}) <= 1
    /\ OneWorks \/ url = {}

\* One event and one delivery each, at most one of the two presigned.
UntilLoaded ==
    /\ OneWorks
    /\ \A d \in Doc : Cardinality({k \in 1..MaxMsg : delivery[<<d, k>>] # "none"}) <= 1
    /\ \A m \in Msg : delivered[m] <= 1
    /\ Cardinality(url) <= 1
    /\ extracted = {} /\ linked = {}

Focus == WholeLife \/ UntilLoaded
=============================================================================
