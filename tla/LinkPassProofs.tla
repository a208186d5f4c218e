--------------------------- MODULE LinkPassProofs ---------------------------
(***************************************************************************)
(* Theorems of Linker and LinkPass, for any books, rows, tolerances,       *)
(* thresholds, limits and numbers of faults.                               *)
(***************************************************************************)
EXTENDS LinkPass, DecisionTableProofs, FiniteSetTheorems

-----------------------------------------------------------------------------
(* The two tiers.                                                          *)

\* The roles a candidate has legs in are roles.
LEMMA LegsAreRoles == ASSUME NEW c PROVE Legs(c) \subseteq Role
BY DEF Legs

\* The larger of two numbers within a bound is within it.
LEMMA LargerWithin ==
    ASSUME NEW m, NEW n, NEW k, m <= k, n <= k
    PROVE  Larger(m, n) <= k
BY DEF Larger

\* A difference of two legs of an exact candidate is within tolerance.
LEMMA ExactLegGap ==
    ASSUME NEW c, Exact(c), NEW r \in Role, NEW s \in Role, r # s
    PROVE  LegGap(c, r, s) <= Tolerance
<1>1. CASE {r, s} \subseteq Legs(c)
  BY <1>1 DEF LegGap, Exact, AmountsMatch
<1>2. CASE ~({r, s} \subseteq Legs(c))
  BY <1>2, ToleranceAssumption DEF LegGap
<1> QED
  BY <1>1, <1>2

\* What the linker calls exact the verification tier finds within tolerance.
LEMMA ExactWithinTolerance ==
    ASSUME NEW c, Exact(c)
    PROVE  MaxVariance(c) <= Tolerance
<1>1. /\ LegGap(c, "inv", "bank") <= Tolerance
      /\ LegGap(c, "inv", "gl") <= Tolerance
      /\ LegGap(c, "bank", "gl") <= Tolerance
  BY ExactLegGap DEF Role
<1> QED
  BY <1>1, LargerWithin DEF MaxVariance

\* With totals that are numbers the converse holds, so the two tiers agree on every
\* candidate, and the shipped decision table calls "exceeds" exactly the groups the
\* linker does not call exact (link.py:379-416, decimal_math/mod.rs:68-102,
\* decision-graphs/gl_reconciliation.json).
THEOREM TiersAgree ==
    ASSUME NEW c, c.bank # {}, c.gl # {}, \A r \in Role : Total(c[r]) \in Int
    PROVE  /\ Exact(c) <=> MaxVariance(c) <= Tolerance
           /\ \A i \in 1 .. 4 : InBand(Shipped[i], MaxVariance(c), Tolerance)
                                    => (Shipped[i].exceeds <=> ~Exact(c))
<1>1. ASSUME NEW r \in Role, NEW s \in Role PROVE LegGap(c, r, s) \in Nat
  <2>1. PICK m \in Int : m = Totals(c)[r]
    BY DEF Totals
  <2>2. PICK n \in Int : n = Totals(c)[s]
    BY DEF Totals
  <2> QED
    BY <2>1, <2>2 DEF LegGap, Gap, Magnitude
<1>2. PICK x \in Nat : x = LegGap(c, "inv", "bank")
  BY <1>1 DEF Role
<1>3. PICK y \in Nat : y = LegGap(c, "inv", "gl")
  BY <1>1 DEF Role
<1>4. PICK z \in Nat : z = LegGap(c, "bank", "gl")
  BY <1>1 DEF Role
<1>5. /\ MaxVariance(c) \in Nat
      /\ MaxVariance(c) <= Tolerance => x <= Tolerance /\ y <= Tolerance /\ z <= Tolerance
  BY <1>2, <1>3, <1>4, ToleranceAssumption DEF MaxVariance, Larger
<1>6. ASSUME MaxVariance(c) <= Tolerance PROVE Exact(c)
  <2>1. "bank" \in Legs(c) /\ "gl" \in Legs(c)
    BY DEF Legs, Role
  <2>2. ASSUME NEW r \in Legs(c), NEW s \in Legs(c), r # s
        PROVE  AmountsMatch(Totals(c)[r], Totals(c)[s])
    <3>1. r \in Role /\ s \in Role
      BY LegsAreRoles
    <3>2. PICK m \in Int : m = Totals(c)[r]
      BY <3>1 DEF Totals
    <3>3. PICK n \in Int : n = Totals(c)[s]
      BY <3>1 DEF Totals
    <3>4. Gap(m, n) = Gap(n, m)
      BY DEF Gap, Magnitude
    <3>5. LegGap(c, r, s) = Gap(m, n) /\ LegGap(c, s, r) = Gap(m, n)
      BY <3>2, <3>3, <3>4 DEF LegGap
    <3>6. \/ LegGap(c, r, s) \in {x, y, z}
          \/ LegGap(c, s, r) \in {x, y, z}
      BY <2>2, <3>1, <1>2, <1>3, <1>4 DEF Role
    <3>7. Gap(m, n) <= Tolerance
      BY <1>5, <1>6, <3>5, <3>6
    <3> QED
      BY <3>2, <3>3, <3>7 DEF AmountsMatch
  <2>3. Legs(c) \notin {{}} \cup {{r} : r \in Role}
    BY <2>1
  <2> QED
    BY <2>2, <2>3 DEF Exact
<1>7. Exact(c) <=> MaxVariance(c) <= Tolerance
  BY <1>6, ExactWithinTolerance
<1>8. ASSUME NEW i \in 1 .. 4, InBand(Shipped[i], MaxVariance(c), Tolerance)
      PROVE  Shipped[i].exceeds <=> ~Exact(c)
  <2>1. Shipped[i].exceeds <=> MaxVariance(c) > Tolerance
    BY <1>5, <1>8, ShippedTable, ToleranceAssumption
  <2> QED
    BY <1>5, <1>7, <2>1, ToleranceAssumption
<1> QED
  BY <1>7, <1>8

-----------------------------------------------------------------------------
(* What the linker returns.                                                *)

\* A candidate's legs are among the rows it was built from, and it has a bank and
\* a GL leg.
LEMMA BuiltLegs ==
    ASSUME NEW S, NEW c \in Built(S)
    PROVE  /\ Members(c) \subseteq S
           /\ c.bank # {}
           /\ c.gl # {}
<1> DEFINE I == {e \in OfType(S, "invoice_line_item") : ~Row[e].void}
           B == {e \in OfType(S, "bank_transaction") : ~Row[e].void}
           G == {e \in OfType(S, "gl_entry") : ~Row[e].void}
<1>1. I \subseteq S /\ B \subseteq S /\ G \subseteq S
  BY DEF OfType
<1>2. c \in Candidates(I, B, G)
  BY DEF Built
<1> HIDE DEF I, B, G
<1>3. CASE c \in OneToOne(I, B, G)
  BY <1>1, <1>3 DEF OneToOne, Candidate, Members
<1>4. CASE c \in ManyToOne(I, B, G)
  BY <1>1, <1>4 DEF ManyToOne, Candidate, Members, Combos
<1>5. CASE c \in OneToMany(I, B, G)
  <2>1. PICK t \in I \X Combos(B) \X G : c = Candidate(3, {t[1]}, t[2], {t[3]})
    BY <1>5 DEF OneToMany
  <2>2. t[2] # {}
    <3>1. t[2] \in Combos(B) /\ Cardinality(t[2]) \in 2 .. MaxGroupSize
      BY <2>1 DEF Combos
    <3>2. Cardinality({}) = 0
      BY FS_EmptySet
    <3> QED
      BY <3>1, <3>2
  <2> QED
    BY <1>1, <2>1, <2>2 DEF Candidate, Members, Combos
<1>6. CASE c \in NoInvoice(B, G)
  BY <1>1, <1>6 DEF NoInvoice, Candidate, Members
<1>7. CASE c \in Mismatches(I, B, G)
  BY <1>1, <1>7 DEF Mismatches, Candidate, Members
<1> QED
  BY <1>2, <1>3, <1>4, <1>5, <1>6, <1>7 DEF Candidates

\* Of what a pass returns, no two candidates have the same bank and GL legs.
LEMMA PlanFacts ==
    ASSUME NEW S, NEW P \in Plans(S)
    PROVE  /\ \A c \in P : /\ Members(c) \subseteq S
                           /\ c.bank # {} /\ c.gl # {}
                           /\ Route(c) # "unmatched"
           /\ \A c, d \in P : SameKey(c, d) => c = d
<1>1. PICK D \in Deduplicated(Built(S)) : P = {c \in D : Route(c) # "unmatched"}
  BY DEF Plans
<1>2. D \subseteq Built(S) /\ \A c, d \in D : SameKey(c, d) => c = d
  BY DEF Deduplicated, Undisplaced
<1> QED
  BY <1>1, <1>2, BuiltLegs

\* The largest window is a part of the rows it is taken from.
LEMMA WindowsWithin ==
    ASSUME NEW S, NEW W \in Windows(S)
    PROVE  W \subseteq S
BY DEF Windows, kSubset

\* A route is one of three.
LEMMA RouteType ==
    ASSUME NEW c
    PROVE  Route(c) \in {"auto_linked", "needs_review", "unmatched"}
BY DEF Route

\* Exactness is a matter of the legs.
LEMMA ExactByLegs ==
    ASSUME NEW c, NEW d, SameRows(c, d), Exact(c)
    PROVE  Exact(d)
<1>1. \A r \in Role : c[r] = d[r]
  BY DEF Role, SameRows
<1>2. Legs(c) = Legs(d) /\ Totals(c) = Totals(d)
  BY <1>1 DEF Legs, Totals
<1> QED
  BY <1>2 DEF Exact

-----------------------------------------------------------------------------
(* The pass.  The inductive invariant says of what persist_groups has still *)
(* to store what the linker promised of it, and that none of it has the     *)
(* bank and GL legs of a group that is already there: the rows were in no   *)
(* group when the pass read them, and only this pass has stored any since.  *)

PlanInv ==
    \A c \in plan : /\ Members(c) \subseteq InDB
                    /\ c.bank # {} /\ c.gl # {}
                    /\ Route(c) # "unmatched"

FreshInv ==
    /\ \A c, d \in todo : SameKey(c, d) => c = d
    /\ \A c \in todo, g \in groups : ~SameKey(c, g)

AutoExact == \A g \in groups : g.status = "auto_linked" => Exact(g)

IInv == TypeOK /\ PlanInv /\ FreshInv /\ AutoExact /\ NoTwinGroups

\* The group create_entity_link stores for a candidate.
Made(c) == [id |-> Cardinality({g \in groups : SameRows(g, c)}),
            inv |-> c.inv, bank |-> c.bank, gl |-> c.gl, status |-> Route(c)]

\* Storing a group of the plan, and taking it off the list, keeps the invariant's
\* statements about groups.
LEMMA InsertKeeps ==
    ASSUME IInv, NEW c \in todo, Insert(c), todo' = todo \ {c}, plan' = plan,
           book' = book, stored' = stored
    PROVE  /\ \A g \in groups' : /\ Members(g) \subseteq InDB'
                                 /\ g.bank # {} /\ g.gl # {}
                                 /\ g.status \in {"auto_linked", "needs_review"}
           /\ PlanInv' /\ FreshInv' /\ AutoExact' /\ NoTwinGroups'
<1>1. groups' = groups \cup {Made(c)}
  BY DEF Insert, Made
<1>2. /\ Made(c).inv = c.inv /\ Made(c).bank = c.bank /\ Made(c).gl = c.gl
      /\ Made(c).status = Route(c)
  BY DEF Made
<1>3. InDB' = InDB
  BY DEF InDB, Stored
<1>4. /\ c \in plan
      /\ Members(c) \subseteq InDB
      /\ c.bank # {} /\ c.gl # {}
      /\ Route(c) \in {"auto_linked", "needs_review"}
  BY RouteType DEF IInv, TypeOK, PlanInv
<1>5. \A g \in groups' : /\ Members(g) \subseteq InDB'
                         /\ g.bank # {} /\ g.gl # {}
                         /\ g.status \in {"auto_linked", "needs_review"}
  <2>1. Members(Made(c)) = Members(c)
    BY <1>2 DEF Members
  <2> QED
    BY <1>1, <1>2, <1>3, <1>4, <2>1 DEF IInv, TypeOK
<1>6. PlanInv'
  BY <1>3 DEF IInv, PlanInv
<1>7. FreshInv'
  <2>1. \A d, e \in todo' : SameKey(d, e) => d = e
    BY DEF IInv, FreshInv
  <2>2. ASSUME NEW d \in todo', NEW g \in groups' PROVE ~SameKey(d, g)
    <3>1. CASE g \in groups
      BY <3>1 DEF IInv, FreshInv
    <3>2. CASE g = Made(c)
      <4>1. d # c /\ d \in todo
        OBVIOUS
      <4>2. ~SameKey(d, c)
        BY <4>1 DEF IInv, FreshInv
      <4> QED
        BY <1>2, <3>2, <4>2 DEF SameKey
    <3> QED
      BY <1>1, <3>1, <3>2
  <2> QED
    BY <2>1, <2>2 DEF FreshInv
<1>8. AutoExact'
  <2>1. ASSUME Route(c) = "auto_linked" PROVE Exact(Made(c))
    <3>1. Exact(c)
      BY <2>1 DEF Route
    <3>2. SameRows(c, Made(c))
      BY <1>2 DEF SameRows
    <3> QED
      BY <3>1, <3>2, ExactByLegs
  <2> QED
    BY <1>1, <1>2, <2>1 DEF IInv, AutoExact
<1>9. NoTwinGroups'
  <2>1. \A g \in groups : ~SameKey(c, g)
    BY DEF IInv, FreshInv
  <2>2. \A g \in groups : ~(g.bank = Made(c).bank /\ g.gl = Made(c).gl)
    BY <1>2, <2>1 DEF SameKey
  <2> QED
    BY <1>1, <2>2 DEF IInv, NoTwinGroups
<1> QED
  BY <1>5, <1>6, <1>7, <1>8, <1>9

\* A read finds rows that are in no group, so nothing it plans is there already.
LEMMA ReadKeeps ==
    ASSUME IInv, Read
    PROVE  IInv'
<1>1. PICK W \in Windows(Pending) : \E P \in Plans(W) : seen' = W /\ plan' = P /\ todo' = P
  BY DEF Read
<1>2. PICK P \in Plans(W) : seen' = W /\ plan' = P /\ todo' = P
  BY <1>1
<1>3. /\ UNCHANGED <<book, stored, message, delivered, groups, job, failed, faults>>
      /\ pc = "read" /\ pc' = "persist"
  BY DEF Read, queueVars
<1>4. W \subseteq InDB /\ W \cap InGroup = {}
  BY WindowsWithin DEF Pending
<1>5. InDB' = InDB
  BY <1>3 DEF InDB, Stored
<1>6. TypeOK'
  BY <1>2, <1>3, <1>4, <1>5 DEF IInv, TypeOK, Document, PC
<1>7. PlanInv'
  BY <1>2, <1>4, <1>5, PlanFacts DEF PlanInv
<1>8. FreshInv'
  <2>1. \A c, d \in todo' : SameKey(c, d) => c = d
    BY <1>2, PlanFacts
  <2>2. ASSUME NEW c \in todo', NEW g \in groups', SameKey(c, g) PROVE FALSE
    <3>1. PICK x \in c.bank : x \in W
      BY <1>2, PlanFacts DEF Members
    <3>2. x \in Members(g) /\ g \in groups
      BY <1>3, <2>2, <3>1 DEF SameKey, Members
    <3> QED
      BY <1>4, <3>1, <3>2 DEF InGroup
  <2> QED
    BY <2>1, <2>2 DEF FreshInv
<1>9. AutoExact' /\ NoTwinGroups'
  BY <1>3 DEF IInv, AutoExact, NoTwinGroups
<1> QED
  BY <1>6, <1>7, <1>8, <1>9 DEF IInv

\* The end of a handler leaves nothing to store.
LEMMA ReleaseKeeps ==
    ASSUME IInv, Release, UNCHANGED <<book, stored, groups>>,
           message' \in [Document -> Message], delivered' \in [Document -> Nat],
           faults' \in 0 .. MaxFaults
    PROVE  IInv'
<1>1. /\ pc' = "idle" /\ job' = NoJob
      /\ seen' = {} /\ plan' = {} /\ todo' = {} /\ failed' = FALSE
  BY DEF Release
<1>2. InDB' = InDB /\ Document' = Document
  BY DEF InDB, Stored, Document
<1>3. TypeOK'
  BY <1>1, <1>2 DEF IInv, TypeOK, PC
<1>4. PlanInv' /\ FreshInv'
  BY <1>1 DEF PlanInv, FreshInv
<1>5. AutoExact' /\ NoTwinGroups'
  BY DEF IInv, AutoExact, NoTwinGroups
<1> QED
  BY <1>3, <1>4, <1>5 DEF IInv

\* A fault leaves the count of faults within its bound.
LEMMA FaultCount ==
    ASSUME Fault, faults \in 0 .. MaxFaults
    PROVE  faults' \in 0 .. MaxFaults
BY FaultsAssumption DEF Fault

\* Nothing is stored at first.
LEMMA InitInv == Init => IInv
<1> SUFFICES ASSUME Init PROVE IInv
  OBVIOUS
<1>1. stored \in Seq(Document)
  BY DEF Init
<1>2. /\ book \in Book
      /\ message \in [Document -> Message]
      /\ delivered \in [Document -> Nat]
      /\ pc \in PC
      /\ job \in Document \cup {NoJob}
      /\ (pc = "idle") <=> (job = NoJob)
      /\ seen \subseteq InDB /\ todo \subseteq plan
      /\ failed \in BOOLEAN
  BY DEF Init, Message, PC
<1>3. faults \in 0 .. MaxFaults /\ groups = {}
  BY FaultsAssumption DEF Init
<1>4. TypeOK
  BY <1>1, <1>2, <1>3 DEF TypeOK
<1>5. PlanInv /\ FreshInv /\ AutoExact /\ NoTwinGroups
  BY DEF Init, PlanInv, FreshInv, AutoExact, NoTwinGroups
<1> QED
  BY <1>4, <1>5 DEF IInv

\* A step that leaves the groups and the pass's lists alone, and the rows in the
\* database where they are, disturbs nothing but types.
LEMMA ElsewhereKeeps ==
    ASSUME IInv, UNCHANGED <<book, groups, plan, todo>>, InDB \subseteq InDB', TypeOK'
    PROVE  IInv'
<1>1. PlanInv' /\ FreshInv'
  BY DEF IInv, PlanInv, FreshInv
<1>2. AutoExact' /\ NoTwinGroups'
  BY DEF IInv, AutoExact, NoTwinGroups
<1> QED
  BY <1>1, <1>2 DEF IInv

\* A document's rows are stored after those that were stored before.
LEMMA StoreKeeps ==
    ASSUME IInv, NEW d \in Document, Store(d)
    PROVE  IInv'
<1>1. /\ stored' = Append(stored, d)
      /\ UNCHANGED <<book, message, delivered, groups, pc, job, seen, plan, todo, failed, faults>>
  BY DEF Store, queueVars, passVars
<1>2. stored \in Seq(Document) /\ Document' = Document
  BY <1>1 DEF IInv, TypeOK, Document
<1>3. stored' \in Seq(Document)
  BY <1>1, <1>2
<1>4. InDB \subseteq InDB'
  <2>1. ASSUME NEW e \in Stored PROVE e \in Stored'
    <3>1. PICK i \in 1 .. Len(stored) : stored[i] = e
      BY <1>2, <2>1 DEF Stored, ToSet
    <3>2. i \in 1 .. Len(stored') /\ stored'[i] = e
      BY <1>1, <1>2, <3>1
    <3>3. i \in DOMAIN stored'
      BY <1>3, <3>2
    <3> QED
      BY <3>2, <3>3 DEF Stored, ToSet
  <2> QED
    BY <1>1, <2>1 DEF InDB
<1>5. TypeOK'
  BY <1>1, <1>2, <1>3, <1>4 DEF IInv, TypeOK
<1> QED
  BY <1>1, <1>4, <1>5, ElsewhereKeeps

\* Taking a message starts a pass that has nothing to store yet.
LEMMA TakeKeeps ==
    ASSUME IInv, NEW d \in Document, Take(d)
    PROVE  IInv'
<1>1. /\ UNCHANGED <<book, stored, groups, seen, plan, todo, failed, faults>>
      /\ pc' = "read" /\ job' = d
  BY DEF Take
<1>2. InDB' = InDB /\ Document' = Document
  BY <1>1 DEF InDB, Stored, Document
<1>3. d # NoJob
  BY DocumentAssumption DEF IInv, TypeOK, Document
<1>4. message' \in [Document -> Message] /\ delivered' \in [Document -> Nat]
  BY DEF Take, IInv, TypeOK, Message
<1>5. TypeOK'
  BY <1>1, <1>2, <1>3, <1>4 DEF IInv, TypeOK, PC
<1> QED
  BY <1>1, <1>2, <1>5, ElsewhereKeeps

\* What happens to a message in the queue is nothing to the groups.
LEMMA QueueKeeps ==
    ASSUME IInv, UNCHANGED <<book, stored, delivered, groups, passVars>>,
           message' \in [Document -> Message], faults' \in 0 .. MaxFaults
    PROVE  IInv'
<1>1. InDB' = InDB /\ Document' = Document
  BY DEF InDB, Stored, Document
<1>2. TypeOK'
  BY <1>1 DEF IInv, TypeOK, passVars
<1> QED
  BY <1>1, <1>2, ElsewhereKeeps DEF passVars

\* One candidate is stored, or its request fails on either side of the commit.
LEMMA PersistKeeps ==
    ASSUME IInv, NEW c \in todo, PersistGroup(c) \/ PersistFails(c)
    PROVE  IInv'
<1>1. /\ UNCHANGED <<book, stored, message, delivered, pc, job, seen, plan>>
      /\ todo' = todo \ {c}
      /\ failed' \in BOOLEAN
      /\ faults' \in 0 .. MaxFaults
  BY FaultCount DEF PersistGroup, PersistFails, queueVars, IInv, TypeOK
<1>2. InDB' = InDB /\ Document' = Document
  BY <1>1 DEF InDB, Stored, Document
<1>3. CASE Insert(c)
  <2>1. TypeOK'
    BY <1>1, <1>2, <1>3, InsertKeeps DEF IInv, TypeOK
  <2> QED
    BY <1>1, <1>3, <2>1, InsertKeeps DEF IInv
<1>4. CASE UNCHANGED groups
  <2>1. TypeOK'
    BY <1>1, <1>2, <1>4 DEF IInv, TypeOK
  <2>2. PlanInv' /\ FreshInv'
    BY <1>1, <1>2, <1>4 DEF IInv, PlanInv, FreshInv
  <2>3. AutoExact' /\ NoTwinGroups'
    BY <1>4 DEF IInv, AutoExact, NoTwinGroups
  <2> QED
    BY <2>1, <2>2, <2>3 DEF IInv
<1> QED
  BY <1>3, <1>4 DEF PersistGroup, PersistFails

\* Every step keeps the invariant.
LEMMA NextKeeps == IInv /\ [Next]_vars => IInv'
<1> SUFFICES ASSUME IInv, [Next]_vars PROVE IInv'
  OBVIOUS
<1>1. ASSUME NEW d \in Document, Store(d) PROVE IInv'
  BY <1>1, StoreKeeps
<1>2. ASSUME NEW d \in Document, PublishLink(d) PROVE IInv'
  <2>1. message' \in [Document -> Message] /\ faults' \in 0 .. MaxFaults
    BY <1>2 DEF PublishLink, IInv, TypeOK, Message
  <2> QED
    BY <1>2, <2>1, QueueKeeps DEF PublishLink
<1>3. ASSUME NEW d \in Document, AckWaitExpires(d) PROVE IInv'
  <2>1. message' \in [Document -> Message]
    BY <1>3 DEF AckWaitExpires, IInv, TypeOK, Message
  <2>2. faults' \in 0 .. MaxFaults
    BY <1>3, FaultCount DEF AckWaitExpires, IInv, TypeOK
  <2> QED
    BY <1>3, <2>1, <2>2, QueueKeeps DEF AckWaitExpires
<1>4. ASSUME NEW d \in Document, Take(d) PROVE IInv'
  BY <1>4, TakeKeeps
<1>5. CASE Read
  BY <1>5, ReadKeeps
<1>6. CASE ReadFails
  <2>1. /\ UNCHANGED <<book, stored, message, delivered, groups, job, seen, plan, todo>>
        /\ failed' = TRUE /\ pc = "read" /\ pc' = "persist"
        /\ faults' \in 0 .. MaxFaults
    BY <1>6, FaultCount DEF ReadFails, queueVars, IInv, TypeOK
  <2>2. InDB' = InDB /\ Document' = Document
    BY <2>1 DEF InDB, Stored, Document
  <2>3. TypeOK'
    BY <2>1, <2>2 DEF IInv, TypeOK, PC
  <2> QED
    BY <2>1, <2>2, <2>3, ElsewhereKeeps
<1>7. ASSUME NEW c \in todo, PersistGroup(c) \/ PersistFails(c) PROVE IInv'
  BY <1>7, PersistKeeps
<1>8. CASE Settle
  <2>1. message' \in [Document -> Message]
    BY <1>8 DEF Settle, AfterFailure, IInv, TypeOK, Message
  <2>2. delivered' \in [Document -> Nat] /\ faults' \in 0 .. MaxFaults
    BY <1>8 DEF Settle, IInv, TypeOK
  <2> QED
    BY <1>8, <2>1, <2>2, ReleaseKeeps DEF Settle
<1>9. CASE Crash
  <2>1. message' \in [Document -> Message] /\ delivered' \in [Document -> Nat]
    BY <1>9 DEF Crash, IInv, TypeOK, Message
  <2>2. faults' \in 0 .. MaxFaults
    BY <1>9, FaultCount DEF Crash, IInv, TypeOK
  <2> QED
    BY <1>9, <2>1, <2>2, ReleaseKeeps DEF Crash
<1>10. CASE UNCHANGED vars
  BY <1>10 DEF vars, IInv, TypeOK, PlanInv, FreshInv, AutoExact, NoTwinGroups, InDB, Stored,
     Document
<1> QED
  BY <1>1, <1>2, <1>3, <1>4, <1>5, <1>6, <1>7, <1>8, <1>9, <1>10 DEF Next, Handle

\* The invariant holds throughout.
LEMMA Invariant == Spec => []IInv
BY InitInv, NextKeeps, PTL DEF Spec

-----------------------------------------------------------------------------
(* The theorems.                                                           *)

\* What a pass reads, plans and stores are rows that are in the database.
THEOREM LinkTypeCorrect == Spec => []TypeOK
<1>1. IInv => TypeOK
  BY DEF IInv
<1> QED
  BY Invariant, <1>1, PTL

\* No group is linked without a person unless the verification tier, which computes
\* its own variance, will find it within tolerance (link.py:379-416, 451-455,
\* decimal_math/mod.rs:68-102).
THEOREM AutoLinkIsSafe == Spec => []AutoLinkedWithinTolerance
<1>1. IInv => AutoLinkedWithinTolerance
  BY ExactWithinTolerance DEF IInv, AutoExact, AutoLinkedWithinTolerance
<1> QED
  BY Invariant, <1>1, PTL

\* Retries, redeliveries and restarts store no group twice: the deduplication of a
\* pass and the rows it does not read are enough, without a constraint of the
\* database (link.py:471-487, mcp.go:78-93, mcp_client/__init__.py:94-107).
THEOREM NoTwins == Spec => []NoTwinGroups
<1>1. IInv => NoTwinGroups
  BY DEF IInv
<1> QED
  BY Invariant, <1>1, PTL

-----------------------------------------------------------------------------
(* What a pass may be acknowledged for.  While nothing has failed, what it  *)
(* planned and no longer has to store is stored.                            *)

StoredInv ==
    pc = "persist" /\ ~failed => \A c \in plan \ todo : \E g \in groups : SameRows(g, c)

\* The group stored for a candidate has its rows.
LEMMA InsertStores ==
    ASSUME NEW c, Insert(c)
    PROVE  groups \subseteq groups' /\ \E g \in groups' : SameRows(g, c)
<1>1. groups' = groups \cup {Made(c)}
  BY DEF Insert, Made
<1>2. SameRows(Made(c), c)
  BY DEF Made, SameRows
<1> QED
  BY <1>1, <1>2

\* Every step keeps the invariant: a candidate leaves the list by being stored, or
\* by a failure that is remembered.
LEMMA NextStores == StoredInv /\ [Next]_vars => StoredInv'
<1> SUFFICES ASSUME StoredInv, [Next]_vars, pc' = "persist", ~failed'
             PROVE  \A c \in plan' \ todo' : \E g \in groups' : SameRows(g, c)
  BY DEF StoredInv
<1>1. CASE UNCHANGED <<groups, passVars>>
  BY <1>1 DEF StoredInv, passVars
<1>2. CASE Read
  BY <1>2 DEF Read
<1>3. ASSUME NEW c \in todo, PersistGroup(c)
      PROVE  \A d \in plan' \ todo' : \E g \in groups' : SameRows(g, d)
  <2>1. /\ pc = "persist" /\ failed' = failed /\ plan' = plan
        /\ Insert(c) /\ todo' = todo \ {c}
    BY <1>3 DEF PersistGroup
  <2>2. \A d \in plan \ todo : \E g \in groups : SameRows(g, d)
    BY <2>1 DEF StoredInv
  <2>3. \A d \in plan' \ todo' : d = c \/ d \in plan \ todo
    BY <2>1
  <2> QED
    BY <2>1, <2>2, <2>3, InsertStores
<1>4. ~ReadFails /\ ~Settle /\ ~Crash /\ \A c \in todo : ~PersistFails(c)
  BY DEF ReadFails, PersistFails, Settle, Crash, Release
<1>5. ASSUME NEW d \in Document, Store(d) \/ PublishLink(d) \/ AckWaitExpires(d)
      PROVE  UNCHANGED <<groups, passVars>>
  BY <1>5 DEF Store, PublishLink, AckWaitExpires
<1>6. ASSUME NEW d \in Document, Take(d) PROVE FALSE
  BY <1>6 DEF Take
<1>7. CASE UNCHANGED vars
  BY <1>1, <1>7 DEF vars, passVars
<1> QED
  BY <1>1, <1>2, <1>3, <1>4, <1>5, <1>6, <1>7 DEF Next, Handle

\* A pass that is about to be acknowledged stored everything the linker returned: a
\* failed read or request is never lost between the two (main.py:72-83,
\* mcp_client/__init__.py:86-92).
THEOREM AckedIsComplete == Spec => []AckedPassIsComplete
<1>1. Init => StoredInv
  BY DEF Init, StoredInv
<1>2. StoredInv => AckedPassIsComplete
  BY DEF StoredInv, AckedPassIsComplete
<1> QED
  BY <1>1, <1>2, NextStores, PTL DEF Spec
=============================================================================
