----------------------------- MODULE RequestProofs -----------------------------
(***************************************************************************)
(* Theorems of KeyRotation, FindingReview, StripeSync, TenantScope and     *)
(* PeriodClose, for every number of keys, people, events, connections,     *)
(* requests and periods, and every bound. Each component has an inductive  *)
(* invariant of its own: they share no variable.                           *)
(***************************************************************************)
EXTENDS KeyRotation, FindingReview, StripeSync, TenantScope, PeriodClose, FiniteSetTheorems,
        TLAPS

-----------------------------------------------------------------------------
(* Key rotation.                                                           *)

\* A rotation knows every key of the time its UPDATE started that is still
\* active, and past the UPDATE it holds them; what is held is active.
LookInv ==
    \A u \in Rotators :
        /\ rotation[u].found \subseteq rotation[u].seen
        /\ rotation[u].seen \subseteq Made
        /\ rotation[u].held \subseteq Active
        /\ rotation[u].next # "idle" => Active \cap rotation[u].seen \subseteq rotation[u].found
        /\ rotation[u].next = "insert" => Active \cap rotation[u].found \subseteq rotation[u].held

\* A row has one holder.
HeldInv ==
    \A u, v \in Rotators : u # v => rotation[u].held \cap rotation[v].held = {}

KeyInv == KeyTypeOK /\ LookInv /\ HeldInv /\ OneActiveKey

\* No key exists at first.
LEMMA KeyInitInv == KeyInit => KeyInv
BY DEF KeyInit, KeyInv, KeyTypeOK, LookInv, HeldInv, OneActiveKey, Made, Active, Rotation, NoRotation

\* The steps that change no key keep what every rotation knows.
LEMMA LookingPreserves ==
    ASSUME KeyInv, NEW u \in Rotators, BeginRotation(u) \/ MarkRotating(u) \/ RollbackRotation(u)
    PROVE  KeyInv'
<1> USE DEF Made, Active, NoRotation, Rotation
<1>1. UNCHANGED <<key, missed>>
  BY DEF BeginRotation, MarkRotating, RollbackRotation
<1>2. KeyTypeOK /\ LookInv /\ HeldInv
  BY DEF KeyInv
<1>3. PICK r \in Rotation :
         /\ rotation' = [rotation EXCEPT ![u] = r]
         /\ r.found \subseteq r.seen
         /\ r.seen \subseteq Made
         /\ r.held \subseteq Active
         /\ r.next # "idle" => Active \cap r.seen \subseteq r.found
         /\ r.next = "insert" => Active \cap r.found \subseteq r.held
         /\ \A v \in Rotators \ {u} : r.held \cap rotation[v].held = {}
  <2>1. CASE BeginRotation(u)
    <3> DEFINE r == [next |-> "mark", found |-> Active, seen |-> Made, held |-> {}]
    <3>1. r \in Rotation /\ rotation' = [rotation EXCEPT ![u] = r]
      BY <2>1 DEF BeginRotation
    <3>2. /\ r.found = Active /\ r.seen = Made /\ r.held = {} /\ r.next = "mark"
          /\ Active \subseteq Made
      OBVIOUS
    <3>3. /\ r.found \subseteq r.seen
          /\ r.seen \subseteq Made
          /\ r.held \subseteq Active
          /\ r.next # "idle" => Active \cap r.seen \subseteq r.found
          /\ r.next = "insert" => Active \cap r.found \subseteq r.held
          /\ \A v \in Rotators \ {u} : r.held \cap rotation[v].held = {}
      <4> HIDE DEF r, Made, Active
      <4> QED
        BY <3>2
    <3> HIDE DEF r, Made, Active, Rotation
    <3> QED
      BY <3>1, <3>3, Zenon
  <2>2. CASE MarkRotating(u)
    <3> DEFINE r == [rotation[u] EXCEPT !.next = "insert",
                                        !.held = {k \in rotation[u].found : key[k] = "active"}]
    <3>1. rotation[u] \in Rotation
      BY <1>2 DEF KeyTypeOK
    <3>2. r \in Rotation /\ rotation' = [rotation EXCEPT ![u] = r]
      BY <2>2, <3>1, <1>2 DEF MarkRotating, KeyTypeOK
    <3>3. \A v \in Rotators \ {u} : r.held \cap rotation[v].held = {}
      BY <2>2, <3>1 DEF MarkRotating, Unheld
    <3> QED
      BY <3>1, <3>2, <3>3, <1>2, <2>2 DEF LookInv, MarkRotating
  <2>3. CASE RollbackRotation(u)
    <3>1. NoRotation \in Rotation /\ rotation' = [rotation EXCEPT ![u] = NoRotation]
      BY <2>3 DEF RollbackRotation
    <3> QED
      BY <3>1
  <2> QED
    BY <2>1, <2>2, <2>3
<1>4. KeyTypeOK' /\ LookInv' /\ HeldInv'
  BY <1>1, <1>2, <1>3 DEF KeyTypeOK, LookInv, HeldInv
<1>5. OneActiveKey'
  BY <1>1 DEF KeyInv, OneActiveKey
<1> QED
  BY <1>4, <1>5 DEF KeyInv

\* A commit: what it does not move aside, its UPDATE could not see.
LEMMA CommitPreserves ==
    ASSUME KeyInv, NEW u \in Rotators, NEW new \in Keys, CommitRotation(u, new)
    PROVE  KeyInv'
<1> USE DEF NoRotation, Rotation
<1>1. KeyTypeOK'
  BY SMTT(30) DEF KeyInv, KeyTypeOK, CommitRotation, Made
<1>2. /\ Made' = Made \cup {new} /\ new \notin Made
      /\ Active' = (Active \ rotation[u].held) \cup {new}
  BY DEF KeyInv, KeyTypeOK, LookInv, CommitRotation, Made, Active
<1>3. /\ \A v \in Rotators \ {u} : rotation'[v] = rotation[v]
      /\ rotation'[u] = NoRotation
  BY DEF KeyInv, KeyTypeOK, CommitRotation
<1>4. HeldInv'
  BY <1>3 DEF KeyInv, HeldInv
<1>5. LookInv'
  <2> SUFFICES ASSUME NEW v \in Rotators
               PROVE  /\ rotation'[v].found \subseteq rotation'[v].seen
                      /\ rotation'[v].seen \subseteq Made'
                      /\ rotation'[v].held \subseteq Active'
                      /\ rotation'[v].next # "idle" => Active' \cap rotation'[v].seen \subseteq rotation'[v].found
                      /\ rotation'[v].next = "insert" => Active' \cap rotation'[v].found \subseteq rotation'[v].held
    BY DEF LookInv
  <2>1. CASE v = u
    BY <2>1, <1>3
  <2>2. CASE v # u
    BY <2>2, <1>2, <1>3 DEF KeyInv, LookInv, HeldInv
  <2> QED
    BY <2>1, <2>2
<1>6. OneActiveKey'
  <2>1. Active' # {}
    BY <1>2
  <2>2. missed' = [missed EXCEPT ![new] = Made \ rotation[u].seen] /\ rotation[u].next = "insert"
    BY DEF CommitRotation
  <2>3. \A k \in Active \ rotation[u].held : k \in missed'[new]
    BY <2>2 DEF KeyInv, KeyTypeOK, LookInv, Made, Active
  <2>4. \A l \in Active : l # new /\ missed'[l] = missed[l]
    BY <1>2, <2>2 DEF KeyInv, KeyTypeOK, Made, Active
  <2>5. ASSUME NEW k \in Active', NEW l \in Active', k # l
        PROVE  k \in missed'[l] \/ l \in missed'[k]
    BY <2>3, <2>4, <2>5, <1>2 DEF KeyInv, OneActiveKey
  <2> QED
    BY <2>1, <2>5 DEF OneActiveKey
<1> QED
  BY <1>1, <1>4, <1>5, <1>6 DEF KeyInv

\* Every step and every stutter.
LEMMA KeyStep == KeyInv /\ [KeyNext]_keyVars => KeyInv'
<1> SUFFICES ASSUME KeyInv, [KeyNext]_keyVars PROVE KeyInv'
  OBVIOUS
<1>1. CASE KeyNext
  BY <1>1, LookingPreserves, CommitPreserves DEF KeyNext
<1>2. CASE UNCHANGED keyVars
  BY <1>2 DEF keyVars, KeyInv, KeyTypeOK, LookInv, HeldInv, OneActiveKey, Made, Active
<1> QED
  BY <1>1, <1>2

\* Keys and rotations keep their types.
LEMMA KeyTyped == KeySpec => []KeyTypeOK
<1>1. KeyInv => KeyTypeOK
  BY DEF KeyInv
<1> QED
  BY KeyInitInv, KeyStep, <1>1, PTL DEF KeySpec

\* A firm that ever had a key has an active one, and two are active only if
\* their rotations overlapped, for any number of admins and keys.
THEOREM ActiveKey == KeySpec => []OneActiveKey
<1>1. KeyInv => OneActiveKey
  BY DEF KeyInv
<1> QED
  BY KeyInitInv, KeyStep, <1>1, PTL DEF KeySpec

-----------------------------------------------------------------------------
(* Sign-off.                                                               *)

\* No step takes the sign-off over, but for a failed read.
LEMMA StandsStep ==
    ASSUME ReviewTypeOK, [ReviewNext]_reviewVars,
           NEW f \in Findings, NEW u \in Reviewers, SignedOff(f, u)
    PROVE  SignedOff(f, u)' \/ f \in misread'
<1> USE DEF ReviewTypeOK, Resolving, NoRequest, SignedOff, Signing
<1>1. ASSUME NEW g \in Findings, NEW status \in FindingStatus, SetStatus(g, status)
      PROVE  SignedOff(f, u)'
  BY <1>1 DEF SetStatus
<1>2. ASSUME NEW v \in Reviewers, NEW g \in Findings, ReadReviewer(v, g)
      PROVE  SignedOff(f, u)'
  <2> DEFINE r == [next |-> IF finding[g].reviewedBy = {} THEN "sign" ELSE "resolve", on |-> {g}]
  <2>1. review' = [review EXCEPT ![v] = r] /\ finding' = finding
    BY <1>2 DEF ReadReviewer
  <2>2. g = f => r.next # "sign"
    OBVIOUS
  <2> QED
    BY <2>1, <2>2
<1>3. ASSUME NEW v \in Reviewers, NEW g \in Findings, ReadReviewerFails(v, g)
      PROVE  SignedOff(f, u)' \/ f \in misread'
  BY <1>3, SMTT(30) DEF ReadReviewerFails
<1>4. ASSUME NEW v \in Reviewers, Sign(v)
      PROVE  SignedOff(f, u)'
  <2>1. PICK g \in review[v].on :
            finding' = [finding EXCEPT ![g] = [status |-> "resolved", reviewedBy |-> {v}]]
    BY <1>4 DEF Sign
  <2>2. f # g
    BY <1>4, <2>1 DEF Sign
  <2>3. ~Signing(f)'
    BY <1>4, SMTT(30) DEF Sign, Done
  <2> QED
    BY <2>1, <2>2, <2>3
<1>5. ASSUME NEW v \in Reviewers, Resolve(v) \/ ResolveFails(v)
      PROVE  SignedOff(f, u)'
  BY <1>5, SMTT(30) DEF Resolve, ResolveFails, Done
<1>6. ASSUME UNCHANGED <<finding, review>>
      PROVE  SignedOff(f, u)'
  BY <1>6
<1> QED
  BY <1>1, <1>2, <1>3, <1>4, <1>5, <1>6
  DEF ReviewNext, PutObject, AddAttachment, reviewVars

\* The types hold, whoever reviews and uploads what.
LEMMA ReviewTyped == ReviewSpec => []ReviewTypeOK
<1> USE ReviewBounds DEF ReviewTypeOK, Resolving, NoRequest, FindingStatus
<1>1. ReviewInit => ReviewTypeOK
  BY DEF ReviewInit
<1>2. ReviewTypeOK /\ [ReviewNext]_reviewVars => ReviewTypeOK'
  <2> SUFFICES ASSUME ReviewTypeOK, [ReviewNext]_reviewVars PROVE ReviewTypeOK'
    OBVIOUS
  <2>1. ASSUME NEW f \in Findings, NEW status \in FindingStatus, SetStatus(f, status)
        PROVE  ReviewTypeOK'
    BY <2>1 DEF SetStatus
  <2>2. ASSUME NEW u \in Reviewers, NEW f \in Findings, ReadReviewer(u, f) \/ ReadReviewerFails(u, f)
        PROVE  ReviewTypeOK'
    BY <2>2, SMTT(30) DEF ReadReviewer, ReadReviewerFails
  <2>3. ASSUME NEW u \in Reviewers, Sign(u) \/ Resolve(u) \/ ResolveFails(u)
        PROVE  ReviewTypeOK'
    BY <2>3, SMTT(30) DEF Sign, Resolve, ResolveFails, Done
  <2>4. ASSUME NEW o \in Objects, PutObject(o)
        PROVE  ReviewTypeOK'
    BY <2>4 DEF PutObject
  <2>5. ASSUME NEW f \in Findings, NEW o \in Objects, AddAttachment(f, o)
        PROVE  ReviewTypeOK'
    BY <2>5 DEF AddAttachment
  <2>6. CASE UNCHANGED reviewVars
    BY <2>6 DEF reviewVars
  <2> QED
    BY <2>1, <2>2, <2>3, <2>4, <2>5, <2>6 DEF ReviewNext
<1> QED
  BY <1>1, <1>2, PTL DEF ReviewSpec

\* The first reviewer of a finding stays, for any number of findings and people.
THEOREM SignOffStands == ReviewSpec => ReviewerStands
<1>1. ReviewTypeOK /\ [ReviewNext]_reviewVars =>
          [\A f \in Findings, u \in Reviewers :
              SignedOff(f, u) => (SignedOff(f, u)' \/ f \in misread')]_reviewVars
  BY StandsStep
<1> QED
  BY <1>1, ReviewTyped, PTL DEF ReviewSpec, ReviewerStands

-----------------------------------------------------------------------------
(* Stripe events.                                                          *)

\* The row carries at most one event.
OneLast == \A x, y \in firm.last : x = y

\* A delivery that nothing overtook since its read is no older than the row.
FreshInv ==
    ~overlapped => \A e \in Events, h \in Copies :
        delivery[<<e, h>>] = "read" => \A last \in firm.last : Created[last] <= Created[e]

BillingInv == BillingTypeOK /\ OneLast /\ FreshInv /\ NewestEventShown

\* Before the first checkout nothing is linked and nothing delivered.
LEMMA BillingInitInv == BillingInit => BillingInv
<1> SUFFICES ASSUME BillingInit PROVE BillingInv
  OBVIOUS
<1>1. firm \in [customer: SUBSET Sessions, last: SUBSET Events, tier: SUBSET UNION {Price[e] : e \in Events}]
  BY DEF BillingInit
<1>2. /\ checkout \in [Sessions -> [status: {"none", "open", "completed", "synced"},
                                  customer: SUBSET Sessions]]
      /\ delivery \in [Events \X Copies -> {"idle", "read", "stale"}]
      /\ acked = {} /\ ~overlapped /\ firm.last = {}
      /\ overlapped \in BOOLEAN
  BY DEF BillingInit
<1>3. billingFaults \in 0..MaxBillingFaults
  BY BillingBounds DEF BillingInit
<1>4. BillingTypeOK
  BY <1>1, <1>2, <1>3 DEF BillingTypeOK
<1> QED
  BY <1>2, <1>4 DEF BillingInv, OneLast, FreshInv, NewestEventShown

\* Checkouts do not touch what events wrote.
LEMMA CheckoutPreserves ==
    ASSUME BillingInv, NEW s \in Sessions, HandleCheckout(s) \/ Pay(s) \/ ApplyCheckout(s)
    PROVE  BillingInv'
<1>1. BillingTypeOK'
  <2>1. CASE HandleCheckout(s)
    BY <2>1, BillingBounds, SMTT(30) DEF BillingInv, BillingTypeOK, HandleCheckout
  <2>2. CASE Pay(s)
    BY <2>2, BillingBounds, SMTT(30) DEF BillingInv, BillingTypeOK, Pay
  <2>3. CASE ApplyCheckout(s)
    <3>1. checkout[s].customer \in SUBSET Sessions
      BY DEF BillingInv, BillingTypeOK
    <3>2. firm' \in [customer: SUBSET Sessions, last: SUBSET Events,
                     tier: SUBSET UNION {Price[e] : e \in Events}]
      BY <2>3, <3>1 DEF BillingInv, BillingTypeOK, ApplyCheckout
    <3> QED
      BY <2>3, <3>2 DEF BillingInv, BillingTypeOK, ApplyCheckout
  <2> QED
    BY <2>1, <2>2, <2>3
<1>2. firm'.last = firm.last /\ UNCHANGED <<acked, delivery, overlapped>>
  BY SMTT(30) DEF BillingInv, BillingTypeOK, HandleCheckout, Pay, ApplyCheckout
<1> QED
  BY <1>1, <1>2 DEF BillingInv, OneLast, FreshInv, NewestEventShown

\* A delivery that reads, is ignored or fails leaves the row alone.
LEMMA DeliveryPreserves ==
    ASSUME BillingInv, NEW e \in Events,
           IgnoreOutOfOrder(e) \/ \E h \in Copies : ReadWatermark(e, h) \/ WriteStateFails(e, h)
    PROVE  BillingInv'
<1>1. CASE IgnoreOutOfOrder(e)
  <2>1. PICK last \in firm.last : Created[last] > Created[e]
    BY <1>1 DEF IgnoreOutOfOrder, OutOfOrder
  <2>2. last \in Events /\ Created[last] \in Nat /\ Created[e] \in Nat
    BY <2>1, BillingBounds DEF BillingInv, BillingTypeOK
  <2> QED
    BY <1>1, <2>1, <2>2, SMTT(30) DEF IgnoreOutOfOrder, BillingInv, BillingTypeOK, OneLast,
       FreshInv, NewestEventShown
<1>2. ASSUME NEW h \in Copies, ReadWatermark(e, h)
      PROVE  BillingInv'
  <2>1. BillingTypeOK'
    BY <1>2, SMTT(30) DEF ReadWatermark, BillingInv, BillingTypeOK
  <2>2. \A last \in firm.last : Created[last] <= Created[e]
    BY <1>2, BillingBounds DEF ReadWatermark, OutOfOrder, BillingInv, BillingTypeOK
  <2>3. FreshInv'
    BY <1>2, <2>2, SMTT(30) DEF ReadWatermark, BillingInv, BillingTypeOK, FreshInv
  <2> QED
    BY <1>2, <2>1, <2>3 DEF ReadWatermark, BillingInv, OneLast, NewestEventShown
<1>3. ASSUME NEW h \in Copies, WriteStateFails(e, h)
      PROVE  BillingInv'
  <2>1. BillingTypeOK'
    BY <1>3, BillingBounds, SMTT(30) DEF WriteStateFails, BillingInv, BillingTypeOK
  <2>2. FreshInv'
    BY <1>3, SMTT(30) DEF WriteStateFails, BillingInv, BillingTypeOK, FreshInv
  <2> QED
    BY <1>3, <2>1, <2>2 DEF WriteStateFails, BillingInv, OneLast, NewestEventShown
<1> QED
  BY <1>1, <1>2, <1>3

\* A write: the row shows its event, and every other delivery under way is overtaken.
LEMMA WritePreserves ==
    ASSUME BillingInv, NEW e \in Events, NEW h \in Copies, WriteState(e, h)
    PROVE  BillingInv'
<1>1. /\ firm' = Written(e) /\ acked' = acked \cup {e}
      /\ overlapped' = (overlapped \/ delivery[<<e, h>>] = "stale")
      /\ delivery' = [d \in Events \X Copies |->
             IF d = <<e, h>> \/ delivery[d] = "idle" THEN "idle" ELSE "stale"]
      /\ UNCHANGED <<checkout, billingFaults>>
  BY DEF WriteState
<1>2. firm'.last = {e} /\ firm'.customer = firm.customer
  BY <1>1 DEF Written, BillingInv, BillingTypeOK
<1>3. BillingTypeOK'
  <2>1. Price[e] \subseteq UNION {Price[x] : x \in Events}
    OBVIOUS
  <2>2. firm' \in [customer: SUBSET Sessions, last: SUBSET Events,
                   tier: SUBSET UNION {Price[x] : x \in Events}]
    BY <1>1, <2>1 DEF Written, BillingInv, BillingTypeOK
  <2> QED
    BY <1>1, <2>2 DEF BillingInv, BillingTypeOK
<1>4. OneLast' /\ FreshInv'
  BY <1>1, <1>2 DEF OneLast, FreshInv
<1>5. NewestEventShown'
  <2> SUFFICES ASSUME ~overlapped', NEW x \in acked'
               PROVE  Created[x] <= Created[e]
    BY <1>2 DEF NewestEventShown
  <2>1. ~overlapped /\ delivery[<<e, h>>] = "read"
    BY <1>1 DEF BillingInv, BillingTypeOK, WriteState
  <2>2. x # e => \E last \in firm.last : Created[x] <= Created[last] /\ Created[last] <= Created[e]
    BY <1>1, <2>1 DEF BillingInv, FreshInv, NewestEventShown
  <2>3. x \in Events /\ \A y \in Events : Created[y] \in Nat
    BY <1>1, BillingBounds DEF BillingInv, BillingTypeOK
  <2> QED
    BY <2>2, <2>3 DEF BillingInv, BillingTypeOK
<1> QED
  BY <1>3, <1>4, <1>5 DEF BillingInv

\* Every step and every stutter.
LEMMA BillingStep == BillingInv /\ [BillingNext]_billingVars => BillingInv'
<1> SUFFICES ASSUME BillingInv, [BillingNext]_billingVars PROVE BillingInv'
  OBVIOUS
<1>1. CASE BillingNext
  BY <1>1, CheckoutPreserves, DeliveryPreserves, WritePreserves DEF BillingNext, DeliverBilling
<1>2. CASE UNCHANGED billingVars
  BY <1>2 DEF billingVars, BillingInv, BillingTypeOK, OneLast, FreshInv, NewestEventShown
<1> QED
  BY <1>1, <1>2

\* The firm, its checkouts and the deliveries keep their types.
LEMMA BillingTyped == BillingSpec => []BillingTypeOK
<1>1. BillingInv => BillingTypeOK
  BY DEF BillingInv
<1> QED
  BY BillingInitInv, BillingStep, <1>1, PTL DEF BillingSpec

\* Unless two deliveries overlap, no event answered 2xx is newer than what the
\* firm's row shows, for any number of events, sessions, copies and failures.
THEOREM NewestShown == BillingSpec => []NewestEventShown
<1>1. BillingInv => NewestEventShown
  BY DEF BillingInv
<1> QED
  BY BillingInitInv, BillingStep, <1>1, PTL DEF BillingSpec

-----------------------------------------------------------------------------
(* Tenant scope.                                                           *)

\* What a connection may carry while r holds it.
ScopeOf(r, c) ==
    /\ connection[c].state = "lent"
    /\ \/ connection[c].scope = NoScope
       \/ /\ connection[c].scope.firm = Own(r)
          /\ \A b \in connection[c].scope.books : FirmOf[b] \in Own(r)
    /\ call[r].next = "firm" => connection[c].scope = NoScope
    /\ call[r].next \in {"load", "books", "handle"} => connection[c].scope.firm = Own(r)
    /\ call[r].next = "handle" => connection[c].scope.books = call[r].loaded

PoolTyped ==
    /\ connection \in [Connections -> [state: {"closed", "idle", "lent"}, scope: Scope]]
    /\ call \in [Calls -> [next: CallStep, by: SUBSET (Users \cup Books),
                           on: SUBSET Connections, loaded: SUBSET Books]]

\* A request holds its own connections and books of its own firm; a connection
\* that nobody holds carries nothing.
PoolInv ==
    /\ PoolTyped
    /\ \A r \in Calls : call[r].next = "idle" => call[r].on = {}
    /\ \A r, s \in Calls : r # s => call[r].on \cap call[s].on = {}
    /\ \A r \in Calls : \A b \in call[r].loaded : FirmOf[b] \in Own(r)
    /\ \A r \in Calls : \A c \in call[r].on : ScopeOf(r, c)
    /\ \A c \in Connections : Holders(c) = {} => connection[c].scope = NoScope

\* The pool starts empty.
LEMMA PoolInitInv == TenantInit => PoolInv
<1> SUFFICES ASSUME TenantInit PROVE PoolInv
  OBVIOUS
<1>1. /\ \A c \in Connections : connection[c].state = "closed" /\ connection[c].scope = NoScope
      /\ \A r \in Calls : call[r] = NoCall
  BY DEF TenantInit
<1>2. NoScope \in Scope /\ NoCall \in [next: CallStep, by: SUBSET (Users \cup Books),
                                      on: SUBSET Connections, loaded: SUBSET Books]
  BY DEF NoScope, Scope, NoCall, CallStep
<1>3. PoolTyped
  BY <1>2 DEF TenantInit, PoolTyped
<1> QED
  BY <1>1, <1>3 DEF PoolInv, NoCall

\* A request takes a connection that nobody holds.
LEMMA AcquirePreserves ==
    ASSUME PoolInv, NEW r \in Calls, NEW x \in Users \cup Books, NEW c \in Connections, Acquire(r, x, c)
    PROVE  PoolInv'
<1>1. /\ \A d \in Connections \ {c} : connection'[d] = connection[d]
      /\ connection'[c].state = "lent" /\ connection'[c].scope = connection[c].scope
      /\ \A s \in Calls \ {r} : call'[s] = call[s]
      /\ call'[r].next = "firm" /\ call'[r].by = {x} /\ call'[r].on = {c}
      /\ call'[r].loaded \subseteq {x} /\ call'[r].loaded \in SUBSET Books
  BY DEF Acquire, PoolInv, PoolTyped
<1>2. Holders(c) = {} /\ connection[c].scope = NoScope
  BY DEF Acquire, PoolInv, ScopeOf, Holders
<1>3. PoolTyped'
  BY <1>1, SMTT(30) DEF Acquire, PoolInv, PoolTyped, CallStep
<1>4. \A s \in Calls \ {r} : Own(s)' = Own(s) /\ c \notin call[s].on
  BY <1>1, <1>2 DEF Own, Holders
<1>5. Own(r)' = {FirmOf[x]}
  BY <1>1 DEF Own
<1>6. \A s \in Calls : \A b \in call'[s].loaded : FirmOf[b] \in Own(s)'
  BY <1>1, <1>4, <1>5 DEF PoolInv
<1>7. \A s \in Calls : \A d \in call'[s].on : ScopeOf(s, d)'
  <2>1. ScopeOf(r, c)'
    BY <1>1, <1>2 DEF ScopeOf
  <2>2. ASSUME NEW s \in Calls \ {r}, NEW d \in call[s].on
        PROVE  ScopeOf(s, d)'
    BY <1>1, <1>4, <2>2 DEF PoolInv, PoolTyped, ScopeOf
  <2> QED
    BY <2>1, <2>2, <1>1
<1>8. \A d \in Connections : Holders(d)' = {} => connection'[d].scope = NoScope
  <2> SUFFICES ASSUME NEW d \in Connections \ {c}, Holders(d)' = {}
               PROVE  connection[d].scope = NoScope
    BY <1>1, <1>2
  <2>1. call[r].on = {}
    BY DEF Acquire, PoolInv
  <2>2. Holders(d) = {}
    BY <1>1, <2>1 DEF Holders
  <2> QED
    BY <2>2 DEF PoolInv
<1>9. /\ \A s, t \in Calls : s # t => call'[s].on \cap call'[t].on = {}
      /\ \A s \in Calls : call'[s].next = "idle" => call'[s].on = {}
  BY <1>1, <1>4 DEF PoolInv
<1> QED
  BY <1>3, <1>6, <1>7, <1>8, <1>9 DEF PoolInv

\* On its connection a request sets its own firm and books, and its handlers
\* and its failures leave the connection alone.
LEMMA ServePreserves ==
    ASSUME PoolInv, NEW r \in Calls, NEW scope \in [Connections -> Scope],
           \A d \in Connections \ call[r].on : scope[d] = connection[d].scope,
           connection' = [d \in Connections |-> [state |-> connection[d].state, scope |-> scope[d]]],
           \A s \in Calls \ {r} : call'[s] = call[s],
           PoolTyped',
           call'[r].by = call[r].by, call'[r].on = call[r].on, call'[r].next # "idle",
           \A b \in call'[r].loaded : FirmOf[b] \in Own(r),
           \A d \in call[r].on : ScopeOf(r, d)'
    PROVE  PoolInv'
<1>1. \A s \in Calls : Own(s)' = Own(s) /\ call'[s].on = call[s].on
  BY DEF Own
<1>2. \A d \in Connections : connection'[d].state = connection[d].state /\ connection'[d].scope = scope[d]
  OBVIOUS
<1>3. ASSUME NEW s \in Calls \ {r}, NEW d \in call[s].on
      PROVE  ScopeOf(s, d)'
  <2>1. d \in Connections \ call[r].on
    BY DEF PoolInv, PoolTyped
  <2>2. connection'[d].state = connection[d].state /\ connection'[d].scope = connection[d].scope
    BY <2>1, <1>2
  <2>3. ScopeOf(s, d)
    BY DEF PoolInv
  <2> QED
    BY <1>1, <2>2, <2>3 DEF ScopeOf
<1>4. \A s \in Calls : \A b \in call'[s].loaded : FirmOf[b] \in Own(s)'
  BY <1>1 DEF PoolInv
<1>5. \A d \in Connections : Holders(d)' = {} => connection'[d].scope = NoScope
  BY <1>1, <1>2 DEF PoolInv, Holders
<1>6. /\ \A s, t \in Calls : s # t => call'[s].on \cap call'[t].on = {}
      /\ \A s \in Calls : call'[s].next = "idle" => call'[s].on = {}
  BY <1>1 DEF PoolInv
<1> QED
  BY <1>1, <1>3, <1>4, <1>5, <1>6 DEF PoolInv

\* The steps of a request between acquiring and releasing.
LEMMA ServingPreserves ==
    ASSUME PoolInv, NEW r \in Calls,
           \/ SetFirm(r) \/ GetAssignedBooks(r) \/ SetBooks(r) \/ AbandonCall(r)
           \/ \E b \in Books : HandleCreateBook(r, b)
           \/ \E u \in Users, b \in Books : HandleAssignStaff(r, u, b) \/ HandleRemoveStaff(r, u, b)
    PROVE  PoolInv'
<1> DEFINE Row == [next : CallStep, by : SUBSET (Users \cup Books),
                   on : SUBSET Connections, loaded : SUBSET Books]
           Kept == [d \in Connections |-> connection[d].scope]
           With(scope) == [d \in Connections |-> [state |-> connection[d].state, scope |-> scope[d]]]
<1>1. /\ connection = With(Kept) /\ Kept \in [Connections -> Scope]
      /\ call[r].on \subseteq Connections /\ Own(r) \in SUBSET Firms
  BY DEF PoolInv, PoolTyped, Own, Firms
<1> DEFINE Served == /\ \A s \in Calls \ {r} : call'[s] = call[s]
                     /\ call'[r].by = call[r].by /\ call'[r].on = call[r].on /\ call'[r].next # "idle"
                     /\ call' \in [Calls -> Row]
           Rest == /\ connection' = connection
                   /\ call'[r].next = "release" \/ (call[r].next = "load" /\ call'[r].next = "books")
<1>a. ASSUME GetAssignedBooks(r)
      PROVE  Served /\ Rest /\ \A b \in call'[r].loaded : FirmOf[b] \in Own(r)
  <2>1. PICK loaded \in SUBSET Books :
           /\ call' = [call EXCEPT ![r] = [next |-> "books", by |-> call[r].by, on |-> call[r].on,
                                           loaded |-> loaded]]
           /\ \A b \in loaded : \E c \in call[r].on : Visible(c, b)
    <3>1. PICK u \in call[r].by, c \in call[r].on :
             call' = [call EXCEPT ![r] = [next |-> "books", by |-> call[r].by, on |-> call[r].on,
                                          loaded |-> AssignedBooks(u, c)]]
      BY <1>a DEF GetAssignedBooks
    <3>2. AssignedBooks(u, c) \in SUBSET Books /\ \A b \in AssignedBooks(u, c) : Visible(c, b)
      BY DEF AssignedBooks
    <3>3. \A b \in AssignedBooks(u, c) : \E d \in call[r].on : Visible(d, b)
      BY <3>1, <3>2
    <3> HIDE DEF Served, Rest
    <3> QED
      BY <3>1, <3>2, <3>3
  <2>2. /\ call[r].next = "load" /\ call'[r].next = "books" /\ call'[r].loaded = loaded
        /\ call'[r].by = call[r].by /\ call'[r].on = call[r].on
        /\ \A s \in Calls \ {r} : call'[s] = call[s]
    BY <1>a, <2>1 DEF GetAssignedBooks, PoolInv, PoolTyped
  <2>3. call' \in [Calls -> Row]
    BY <2>1 DEF PoolInv, PoolTyped, CallStep
  <2>4. \A c \in call[r].on : connection[c].scope.firm = Own(r)
    BY <2>2 DEF PoolInv, ScopeOf
  <2>5. \A b \in loaded : FirmOf[b] \in Own(r)
    BY <2>1, <2>4 DEF Visible
  <2>6. connection' = connection
    BY <1>a DEF GetAssignedBooks
  <2> QED
    BY <2>2, <2>3, <2>5, <2>6
<1>b. ASSUME ~GetAssignedBooks(r)
      PROVE  /\ Served /\ call'[r].loaded = call[r].loaded
             /\ SetFirm(r) \/ SetBooks(r) \/ Rest
  <2>1. PICK next \in {"load", "books", "handle", "release"} :
           /\ call' = [call EXCEPT ![r].next = next]
           /\ SetFirm(r) \/ SetBooks(r) \/ (connection' = connection /\ next = "release")
    BY <1>b DEF SetFirm, SetBooks, AbandonCall, HandleCreateBook, HandleAssignStaff,
       HandleRemoveStaff, End
  <2>2. call' \in [Calls -> Row]
    BY <2>1 DEF PoolInv, PoolTyped, CallStep
  <2> QED
    BY <2>1, <2>2 DEF PoolInv, PoolTyped
<1>2. Served
  BY <1>a, <1>b
<1>3. \A b \in call'[r].loaded : FirmOf[b] \in Own(r)
  BY <1>a, <1>b DEF PoolInv
<1>4. \E scope \in [Connections -> Scope] :
         /\ connection' = With(scope)
         /\ \A d \in Connections \ call[r].on : scope[d] = connection[d].scope
         /\ \A d \in call[r].on : ScopeOf(r, d)'
  <2>1. CASE SetFirm(r)
    <3> DEFINE scope == [d \in Connections |-> IF d \in call[r].on
                   THEN [firm |-> Own(r), books |-> connection[d].scope.books] ELSE connection[d].scope]
    <3>1. scope \in [Connections -> Scope]
      BY <1>1 DEF PoolInv, PoolTyped, Scope
    <3>2. connection' = With(scope)
      BY <1>1, <2>1 DEF SetFirm, PoolInv, PoolTyped, Scope
    <3>3. call'[r].next \in {"load", "books"}
      BY <2>1 DEF SetFirm, PoolInv, PoolTyped
    <3>4. \A d \in call[r].on : connection[d].scope = NoScope /\ connection[d].state = "lent"
      BY <2>1 DEF SetFirm, PoolInv, ScopeOf
    <3>5. ASSUME NEW d \in call[r].on PROVE ScopeOf(r, d)'
      <4>1. /\ connection'[d].state = "lent"
            /\ connection'[d].scope = [firm |-> Own(r), books |-> {}]
        <5>1. d \in Connections /\ connection[d].scope.books = {}
          BY <1>1, <3>4 DEF NoScope
        <5>2. scope[d] = [firm |-> Own(r), books |-> {}]
          BY <5>1, <3>5
        <5> HIDE DEF scope
        <5> QED
          BY <5>1, <5>2, <3>2, <3>4
      <4> QED
        BY <1>2, <3>3, <4>1 DEF ScopeOf, Own
    <3> QED
      BY <3>1, <3>2, <3>5
  <2>2. CASE SetBooks(r)
    <3> DEFINE scope == [d \in Connections |-> IF d \in call[r].on
                   THEN [firm |-> connection[d].scope.firm, books |-> call[r].loaded]
                   ELSE connection[d].scope]
    <3>1. scope \in [Connections -> Scope]
      BY <1>1 DEF PoolInv, PoolTyped, Scope
    <3>2. connection' = With(scope)
      BY <1>1, <2>2 DEF SetBooks, PoolInv, PoolTyped, Scope
    <3>3. call'[r].next = "handle" /\ call'[r].loaded = call[r].loaded
      BY <2>2 DEF SetBooks, PoolInv, PoolTyped
    <3>4. \A d \in call[r].on : connection[d].scope.firm = Own(r) /\ connection[d].state = "lent"
      BY <2>2 DEF SetBooks, PoolInv, ScopeOf
    <3>5. ASSUME NEW d \in call[r].on PROVE ScopeOf(r, d)'
      <4>1. /\ connection'[d].state = "lent"
            /\ connection'[d].scope.firm = Own(r) /\ connection'[d].scope.books = call[r].loaded
        BY <1>1, <3>2, <3>4
      <4> QED
        BY <1>2, <1>3, <3>3, <4>1 DEF ScopeOf, Own
    <3> QED
      BY <3>1, <3>2, <3>5
  <2>3. CASE ~SetFirm(r) /\ ~SetBooks(r)
    <3>1. Rest
      BY <1>a, <1>b, <2>3
    <3>2. \A d \in call[r].on : ScopeOf(r, d)'
      BY <1>2, <3>1 DEF ScopeOf, Own, PoolInv
    <3> QED
      BY <1>1, <3>1, <3>2
  <2> QED
    BY <2>1, <2>2, <2>3
<1>5. PICK scope \in [Connections -> Scope] :
         /\ connection' = With(scope)
         /\ \A d \in Connections \ call[r].on : scope[d] = connection[d].scope
         /\ \A d \in call[r].on : ScopeOf(r, d)'
  BY <1>4
<1>6. PoolTyped'
  BY <1>2, <1>5 DEF PoolInv, PoolTyped
<1> QED
  BY <1>2, <1>3, <1>5, <1>6, ServePreserves

\* Whatever became of the request, its connection goes back bare.
LEMMA ReleasePreserves ==
    ASSUME PoolInv, NEW r \in Calls, ReleaseScrubbed(r) \/ ReleaseClosed(r)
    PROVE  PoolInv'
<1>1. PICK state \in {"idle", "closed"} :
         /\ connection' = Released(r, state, NoScope)
         /\ call' = [call EXCEPT ![r] = NoCall]
  BY DEF ReleaseScrubbed, ReleaseClosed
<1>2. /\ NoScope \in Scope
      /\ NoCall \in [next : CallStep, by : SUBSET (Users \cup Books),
                     on : SUBSET Connections, loaded : SUBSET Books]
  BY DEF NoScope, Scope, NoCall, CallStep
<1>3. PoolTyped'
  BY <1>1, <1>2 DEF PoolInv, PoolTyped, Released
<1>4. /\ \A s \in Calls \ {r} : call'[s] = call[s] /\ Own(s)' = Own(s)
      /\ call'[r] = NoCall
  BY <1>1 DEF PoolInv, PoolTyped, Own
<1>5. ASSUME NEW s \in Calls \ {r}, NEW d \in call[s].on
      PROVE  ScopeOf(s, d)'
  <2>1. d \in Connections /\ d \notin call[r].on /\ ScopeOf(s, d)
    BY DEF PoolInv, PoolTyped
  <2>2. connection'[d] = connection[d]
    BY <1>1, <2>1 DEF Released
  <2> QED
    BY <1>4, <2>1, <2>2 DEF ScopeOf
<1>6. ASSUME NEW d \in Connections, Holders(d)' = {}
      PROVE  connection'[d].scope = NoScope
  <2>1. CASE d \in call[r].on
    BY <1>1, <2>1 DEF Released
  <2>2. CASE d \notin call[r].on
    <3>1. Holders(d) = {}
      BY <1>4, <1>6, <2>2 DEF Holders
    <3> QED
      BY <1>1, <2>2, <3>1 DEF Released, PoolInv
  <2> QED
    BY <2>1, <2>2
<1> QED
  BY <1>3, <1>4, <1>5, <1>6 DEF PoolInv, NoCall

\* Every step and every stutter.
LEMMA TenantStep == PoolInv /\ [TenantNext]_tenantVars => PoolInv'
<1> SUFFICES ASSUME PoolInv, [TenantNext]_tenantVars PROVE PoolInv'
  OBVIOUS
<1>1. CASE TenantNext
  <2>1. Users \subseteq Users \cup Books /\ Books \subseteq Users \cup Books
    OBVIOUS
  <2> QED
    BY <1>1, <2>1, AcquirePreserves, ServingPreserves, ReleasePreserves
    DEF TenantNext, RLSInjector, AcquireScoped
<1>2. CASE UNCHANGED tenantVars
  BY <1>2 DEF tenantVars, PoolInv, PoolTyped, ScopeOf, Own, Holders
<1> QED
  BY <1>1, <1>2

\* Books, assignments, connections and requests keep their types.
LEMMA TenantTyped == TenantSpec => []TenantTypeOK
<1>1. TenantInit => TenantTypeOK
  BY PoolInitInv, TenantBounds DEF TenantInit, PoolInv, PoolTyped, TenantTypeOK
<1>2. PoolInv' /\ TenantTypeOK /\ [TenantNext]_tenantVars => TenantTypeOK'
  <2> SUFFICES ASSUME PoolInv', TenantTypeOK, [TenantNext]_tenantVars PROVE TenantTypeOK'
    OBVIOUS
  <2>1. book' \subseteq Books /\ assigned' \subseteq Users \X Books /\ calls' \in 0..MaxCalls
    <3> USE TenantBounds DEF TenantTypeOK
    <3>1. ASSUME NEW r \in Calls, NEW b \in Books, HandleCreateBook(r, b)
          PROVE  book' \subseteq Books /\ assigned' \subseteq Users \X Books /\ calls' \in 0..MaxCalls
      BY <3>1 DEF HandleCreateBook, Handling
    <3>2. ASSUME NEW r \in Calls, NEW u \in Users, NEW b \in Books,
                 HandleAssignStaff(r, u, b) \/ HandleRemoveStaff(r, u, b)
          PROVE  book' \subseteq Books /\ assigned' \subseteq Users \X Books /\ calls' \in 0..MaxCalls
      BY <3>2 DEF HandleAssignStaff, HandleRemoveStaff
    <3>3. ASSUME NEW r \in Calls, NEW x, NEW c \in Connections, Acquire(r, x, c)
          PROVE  book' \subseteq Books /\ assigned' \subseteq Users \X Books /\ calls' \in 0..MaxCalls
      BY <3>3 DEF Acquire
    <3>4. ASSUME NEW r \in Calls,
                 \/ SetFirm(r) \/ GetAssignedBooks(r) \/ SetBooks(r) \/ AbandonCall(r)
                 \/ ReleaseScrubbed(r) \/ ReleaseClosed(r)
          PROVE  UNCHANGED <<book, assigned, calls>>
      BY <3>4 DEF SetFirm, GetAssignedBooks, SetBooks, AbandonCall, ReleaseScrubbed, ReleaseClosed
    <3> QED
      BY <3>1, <3>2, <3>3, <3>4 DEF TenantNext, RLSInjector, AcquireScoped, tenantVars
  <2> QED
    BY <2>1 DEF PoolInv, PoolTyped, TenantTypeOK
<1> QED
  BY PoolInitInv, TenantStep, <1>1, <1>2, PTL DEF TenantSpec

\* No request is served in the scope of another firm, for any number of
\* requests, connections, users and books, and wherever a request ends.
THEOREM ScopeStays == TenantSpec => []ScopedToCaller
<1>1. PoolInv => ScopedToCaller
  <2> SUFFICES ASSUME PoolInv PROVE ScopedToCaller
    OBVIOUS
  <2>1. ASSUME NEW c \in Connections, connection[c].scope # NoScope
        PROVE  \E r \in Calls :
                   /\ Holders(c) = {r}
                   /\ connection[c].scope.firm = Own(r)
                   /\ \A b \in connection[c].scope.books : FirmOf[b] \in Own(r)
    <3>1. PICK r \in Calls : c \in call[r].on
      BY <2>1 DEF PoolInv, Holders
    <3>2. Holders(c) = {r}
      BY <3>1 DEF PoolInv, Holders
    <3> QED
      BY <2>1, <3>1, <3>2 DEF PoolInv, ScopeOf
  <2>2. ASSUME NEW r \in Calls, NEW c \in Connections, call[r].next = "handle", c \in call[r].on
        PROVE  connection[c].scope = [firm |-> Own(r), books |-> call[r].loaded]
    BY <2>2 DEF PoolInv, PoolTyped, ScopeOf, Scope
  <2> QED
    BY <2>1, <2>2 DEF ScopedToCaller
<1> QED
  BY PoolInitInv, TenantStep, <1>1, PTL DEF TenantSpec

-----------------------------------------------------------------------------
(* Periods.                                                                *)

\* The types, without the bounds of the instance.
Sums == [debits: Nat, credits: Nat]
DeskRow == [next: PeriodStatement, on: SUBSET Periods, seen: SUBSET Periods, balance: SUBSET Sums]

PeriodShape ==
    /\ period \in [Periods -> [status: PeriodStatus, closedBy: SUBSET Desks, balance: SUBSET Sums]]
    /\ docRequest \in [Requests -> RequestRow]
    /\ ledger \in [Periods -> Sums]
    /\ desk \in [Desks -> DeskRow]
    /\ unseen \in [Periods -> SUBSET Periods]
    /\ periodFaults \in Nat

\* What a handler about to execute its next statement has made sure of.
AtDesk(at) ==
    /\ \A p, q \in at.on : p = q
    /\ at.next = "insert" =>
           at.seen \subseteq Present /\ \A p \in at.on, q \in at.seen : ~Overlap(p, q)
    /\ at.next \in {"count", "balance", "close", "reopen", "log"} => at.on \subseteq Present

\* Reopening leaves nothing of a close.
ReopenedBare == \A p \in Periods : period[p].status = "reopened" => period[p] = Reopened

Unlogged == {p \in Periods : period[p].status = "reopened" /\ p \notin reopenLog /\ ~Logging(p)}

PeriodInv ==
    /\ PeriodShape
    /\ \A d \in Desks : AtDesk(desk[d])
    /\ ReopenedBare
    /\ OverlapOnlyByRace
    /\ IsFiniteSet(Unlogged) /\ Cardinality(Unlogged) <= periodFaults

\* Some periods that do not overlap, and nobody at work.
LEMMA PeriodInitInv == PeriodInit => PeriodInv
<1> SUFFICES ASSUME PeriodInit PROVE PeriodInv
  OBVIOUS
<1>1. PICK old \in SUBSET Periods :
         /\ \A p, q \in old : p # q => ~Overlap(p, q)
         /\ period = [p \in Periods |->
               [status |-> IF p \in old THEN "open" ELSE "absent", closedBy |-> {}, balance |-> {}]]
  BY DEF PeriodInit
<1>2. Present = old /\ \A p \in Periods : period[p].status # "reopened"
  BY <1>1 DEF Present
<1>3. PeriodShape
  <2>1. AtRest \in DeskRow
    BY DEF AtRest, DeskRow, PeriodStatement
  <2>2. period \in [Periods -> [status: PeriodStatus, closedBy: SUBSET Desks, balance: SUBSET Sums]]
    BY <1>1 DEF PeriodStatus
  <2>3. docRequest \in [Requests -> RequestRow]
    <3>1. [status |-> "absent", for |-> {}, overdue |-> FALSE, reminders |-> 0] \in RequestRow
      <4>1. 0 \in Nat
        OBVIOUS
      <4> QED
        BY <4>1, Zenon DEF RequestRow
    <3> QED
      BY <3>1 DEF PeriodInit
  <2>4. ledger \in [Periods -> Sums]
    BY DEF PeriodInit, Sums
  <2> QED
    BY <2>1, <2>2, <2>3, <2>4 DEF PeriodInit, PeriodShape
<1>4. \A d \in Desks : AtDesk(desk[d])
  BY DEF PeriodInit, AtRest, AtDesk
<1>5. Unlogged = {}
  BY <1>2 DEF Unlogged
<1>6. IsFiniteSet(Unlogged) /\ Cardinality(Unlogged) <= periodFaults
  BY <1>5, FS_EmptySet DEF PeriodInit
<1> QED
  BY <1>1, <1>2, <1>3, <1>4, <1>6 DEF PeriodInv, ReopenedBare, OverlapOnlyByRace

\* A set that gains nothing stays within its bound.
LEMMA FewerUnlogged ==
    ASSUME PeriodInv, Unlogged' \subseteq Unlogged, periodFaults' \in Nat, periodFaults' >= periodFaults
    PROVE  IsFiniteSet(Unlogged)' /\ Cardinality(Unlogged)' <= periodFaults'
<1>1. IsFiniteSet(Unlogged) /\ Cardinality(Unlogged) <= periodFaults /\ periodFaults \in Nat
  BY DEF PeriodInv, PeriodShape
<1>2. IsFiniteSet(Unlogged') /\ Cardinality(Unlogged') <= Cardinality(Unlogged)
  BY <1>1, FS_Subset
<1>3. Cardinality(Unlogged) \in Nat /\ Cardinality(Unlogged') \in Nat
  BY <1>1, <1>2, FS_CardinalityType
<1> QED
  BY <1>1, <1>2, <1>3

\* Reading, refusing and moving on: the rows stay.
LEMMA DeskPreserves ==
    ASSUME PeriodInv, NEW d \in Desks,
           \/ \E p \in Periods : CheckOverlap(d, p) \/ ReadForClose(d, p) \/ ReadForReopen(d, p)
           \/ InsertRefused(d) \/ CountPending(d) \/ ComputeBalance(d)
    PROVE  PeriodInv'
<1> USE DEF PeriodInv
<1>1. UNCHANGED <<period, docRequest, ledger, reopenLog, unseen, periodFaults>>
  BY DEF CheckOverlap, ReadForClose, ReadForReopen, InsertRefused, CountPending, ComputeBalance
<1>2. AtRest \in DeskRow /\ AtDesk(AtRest) /\ AtRest.next = "idle"
  BY DEF AtRest, DeskRow, AtDesk, PeriodStatement
<1>3. desk[d] \in DeskRow /\ AtDesk(desk[d])
  BY DEF PeriodShape
<1>4. desk[d].next # "log"
  BY DEF CheckOverlap, ReadForClose, ReadForReopen, InsertRefused, CountPending, ComputeBalance, Enter
<1>5. \E at \in DeskRow : AtDesk(at) /\ at.next # "log" /\ desk' = [desk EXCEPT ![d] = at]
  <2>1. ASSUME NEW p \in Periods, CheckOverlap(d, p) \/ ReadForClose(d, p) \/ ReadForReopen(d, p)
        PROVE  \E at \in DeskRow : AtDesk(at) /\ at.next # "log" /\ desk' = [desk EXCEPT ![d] = at]
    <3> DEFINE At(next, seen) == [next |-> next, on |-> {p}, seen |-> seen, balance |-> {}]
    <3>1. CASE CheckOverlap(d, p)
      <4>1. desk' = [desk EXCEPT ![d] = At("insert", Present)] /\ \A q \in Present : ~Overlap(p, q)
        BY <3>1 DEF CheckOverlap, Enter
      <4>2. At("insert", Present) \in DeskRow
        BY DEF DeskRow, PeriodStatement, Present
      <4>3. AtDesk(At("insert", Present))
        BY <4>1 DEF AtDesk
      <4> QED
        BY <4>1, <4>2, <4>3
    <3>2. ASSUME NEW next \in {"count", "reopen"}, desk' = [desk EXCEPT ![d] = At(next, {})], p \in Present
          PROVE  \E at \in DeskRow : AtDesk(at) /\ at.next # "log" /\ desk' = [desk EXCEPT ![d] = at]
      <4>1. At(next, {}) \in DeskRow
        BY DEF DeskRow, PeriodStatement
      <4>2. AtDesk(At(next, {}))
        BY <3>2 DEF AtDesk
      <4> QED
        BY <3>2, <4>1, <4>2
    <3>3. CASE ReadForClose(d, p)
      <4>1. desk' = [desk EXCEPT ![d] = At("count", {})] /\ p \in Present
        BY <3>3 DEF ReadForClose, Enter, Present, Closable
      <4> HIDE DEF At
      <4> QED
        BY <3>2, <4>1
    <3>4. CASE ReadForReopen(d, p)
      <4>1. desk' = [desk EXCEPT ![d] = At("reopen", {})] /\ p \in Present
        BY <3>4 DEF ReadForReopen, Enter, Present
      <4> HIDE DEF At
      <4> QED
        BY <3>2, <4>1
    <3> QED
      BY <2>1, <3>1, <3>3, <3>4
  <2>2. CASE LeaveDesk(d)
    BY <1>2, <2>2 DEF LeaveDesk
  <2>3. CASE CountPending(d) /\ ~LeaveDesk(d)
    <3> DEFINE at == [desk[d] EXCEPT !.next = "balance"]
    <3>1. desk' = [desk EXCEPT ![d] = at] /\ desk[d].next = "count"
      BY <2>3 DEF CountPending, Goto
    <3>2. at \in DeskRow /\ at.on = desk[d].on /\ at.next = "balance"
      BY <1>3 DEF DeskRow, PeriodStatement
    <3>3. AtDesk(at)
      BY <1>3, <3>1, <3>2 DEF AtDesk
    <3> QED
      BY <3>1, <3>2, <3>3
  <2>4. CASE ComputeBalance(d)
    <3>1. PICK p \in desk[d].on : desk' = [desk EXCEPT ![d] =
               [next |-> "close", on |-> {p}, seen |-> {}, balance |-> TrialBalance(p)]]
      BY <2>4 DEF ComputeBalance
    <3>2. p \in Periods /\ p \in Present /\ TrialBalance(p) \subseteq Sums
      BY <1>3, <2>4 DEF DeskRow, AtDesk, ComputeBalance, TrialBalance, PeriodShape
    <3> DEFINE at == [next |-> "close", on |-> {p}, seen |-> {}, balance |-> TrialBalance(p)]
    <3>3. at \in DeskRow
      BY <3>2 DEF DeskRow, PeriodStatement
    <3>4. AtDesk(at)
      BY <3>2 DEF AtDesk
    <3> QED
      BY <3>1, <3>3, <3>4
  <2> QED
    BY <2>1, <2>2, <2>3, <2>4 DEF InsertRefused
<1>6. PICK at \in DeskRow : AtDesk(at) /\ at.next # "log" /\ desk' = [desk EXCEPT ![d] = at]
  BY <1>5
<1>7. /\ desk' \in [Desks -> DeskRow] /\ desk'[d] = at
      /\ \A e \in Desks \ {d} : desk'[e] = desk[e]
  BY <1>6 DEF PeriodShape
<1>8. Present' = Present
  BY <1>1 DEF Present
<1>9. \A e \in Desks : AtDesk(desk[e])'
  BY <1>6, <1>7, <1>8 DEF AtDesk
<1>10. Unlogged' = Unlogged
  <2>1. \A p \in Periods : Logging(p)' <=> Logging(p)
    BY <1>4, <1>6, <1>7 DEF Logging
  <2> QED
    BY <1>1, <2>1 DEF Unlogged
<1>11. PeriodShape' /\ ReopenedBare' /\ OverlapOnlyByRace'
  BY <1>1, <1>7, <1>8 DEF PeriodShape, ReopenedBare, OverlapOnlyByRace
<1>12. IsFiniteSet(Unlogged)' /\ Cardinality(Unlogged)' <= periodFaults'
  BY <1>1, <1>10
<1> QED
  BY <1>9, <1>11, <1>12

\* A handler that is done: what is left of it.
LEMMA Left ==
    ASSUME PeriodInv, NEW d \in Desks, LeaveDesk(d)
    PROVE  /\ desk' \in [Desks -> DeskRow]
           /\ desk'[d].next = "idle" /\ desk'[d].on = {}
           /\ \A e \in Desks \ {d} : desk'[e] = desk[e]
BY DEF LeaveDesk, AtRest, DeskRow, PeriodStatement, PeriodInv, PeriodShape

\* A new period overlaps only those that its handler did not see.
LEMMA InsertPreserves ==
    ASSUME PeriodInv, NEW d \in Desks, InsertPeriod(d)
    PROVE  PeriodInv'
<1> USE DEF PeriodInv
<1>1. PICK p \in desk[d].on \ Present :
         /\ period' = [period EXCEPT ![p].status = "open"]
         /\ unseen' = [unseen EXCEPT ![p] = Present \ desk[d].seen]
  BY DEF InsertPeriod
<1>2. /\ LeaveDesk(d) /\ desk[d].next = "insert"
      /\ UNCHANGED <<docRequest, ledger, reopenLog, periodFaults>>
  BY DEF InsertPeriod
<1>3. p \in Periods /\ p \notin Present /\ AtDesk(desk[d])
  BY DEF PeriodShape, DeskRow
<1>4. /\ period' \in [Periods -> [status: PeriodStatus, closedBy: SUBSET Desks, balance: SUBSET Sums]]
      /\ period'[p].status = "open"
      /\ \A q \in Periods \ {p} : period'[q] = period[q]
  BY <1>1, <1>3 DEF PeriodShape, PeriodStatus
<1>5. Present' = Present \cup {p}
  BY <1>3, <1>4 DEF Present
<1>6. /\ unseen' \in [Periods -> SUBSET Periods]
      /\ unseen'[p] = Present \ desk[d].seen
      /\ \A q \in Periods \ {p} : unseen'[q] = unseen[q]
  BY <1>1, <1>3 DEF PeriodShape, Present
<1>7. PeriodShape'
  BY <1>2, <1>4, <1>6, Left DEF PeriodShape
<1>8. \A e \in Desks : AtDesk(desk[e])'
  <2> SUFFICES ASSUME NEW e \in Desks PROVE AtDesk(desk[e])'
    OBVIOUS
  <2>1. CASE e = d
    BY <1>2, <2>1, Left DEF AtDesk
  <2>2. CASE e # d
    <3>1. desk'[e] = desk[e] /\ AtDesk(desk[e])
      BY <1>2, <2>2, Left
    <3> QED
      BY <1>5, <3>1 DEF AtDesk, Overlap
  <2> QED
    BY <2>1, <2>2
<1>9. ReopenedBare'
  BY <1>4 DEF ReopenedBare, Reopened
<1>10. OverlapOnlyByRace'
  <2>1. \A q \in Present : Overlap(p, q) => q \in unseen'[p]
    BY <1>2, <1>3, <1>6 DEF AtDesk
  <2>2. \A q \in Present : Overlap(q, p) => Overlap(p, q)
    BY DEF Overlap
  <2>3. \A q, r \in Present : q # r /\ Overlap(q, r) => (q \in unseen'[r] \/ r \in unseen'[q])
    BY <1>3, <1>6 DEF OverlapOnlyByRace, Present
  <2>4. ASSUME NEW q \in Present', NEW r \in Present', q # r, Overlap(q, r)
        PROVE  q \in unseen'[r] \/ r \in unseen'[q]
    BY <1>5, <2>1, <2>2, <2>3, <2>4
  <2>5. \A q, r : Overlap(q, r)' <=> Overlap(q, r)
    BY DEF Overlap
  <2> QED
    BY <2>4, <2>5 DEF OverlapOnlyByRace
<1>11. Unlogged' \subseteq Unlogged
  <2>1. \A q \in Periods : Logging(q) => Logging(q)'
    BY <1>2, Left DEF Logging
  <2> QED
    BY <1>2, <1>4, <2>1 DEF Unlogged
<1> QED
  BY <1>2, <1>7, <1>8, <1>9, <1>10, <1>11, FewerUnlogged DEF PeriodShape

\* Closing and reopening keep the rows there are. Whatever is reopened is bare,
\* and is logged or about to be.
LEMMA MarkPreserves ==
    ASSUME PeriodInv, NEW d \in Desks, MarkClosed(d) \/ MarkReopened(d) \/ LogReopen(d)
    PROVE  PeriodInv'
<1> USE DEF PeriodInv
<1>1. desk[d] \in DeskRow /\ AtDesk(desk[d]) /\ UNCHANGED <<docRequest, ledger, unseen, periodFaults>>
  BY DEF PeriodShape, MarkClosed, MarkReopened, LogReopen
<1> DEFINE Kept == [status: PeriodStatus, closedBy: SUBSET Desks, balance: SUBSET Sums]
<1>2. /\ desk' \in [Desks -> DeskRow] /\ AtDesk(desk'[d])
      /\ \A e \in Desks \ {d} : desk'[e] = desk[e]
      /\ MarkReopened(d) => desk'[d].next = "log" /\ desk'[d].on = desk[d].on
      /\ MarkClosed(d) => desk[d].next = "close"
  <2>1. CASE LeaveDesk(d)
    <3>1. ~MarkReopened(d)
      <4>1. MarkReopened(d) => desk'[d].next = "log"
        BY DEF MarkReopened, Goto, PeriodShape, DeskRow
      <4> QED
        BY <2>1, <4>1, Left
    <3> QED
      BY <2>1, <3>1, Left DEF AtDesk, MarkClosed
  <2>2. CASE MarkReopened(d)
    <3>1. desk' = [desk EXCEPT ![d].next = "log"] /\ desk[d].next = "reopen"
      BY <2>2 DEF MarkReopened, Goto
    <3>2. desk' \in [Desks -> DeskRow] /\ desk'[d].next = "log" /\ desk'[d].on = desk[d].on
      BY <3>1 DEF PeriodShape, DeskRow, PeriodStatement
    <3>3. AtDesk(desk'[d])
      BY <1>1, <3>1, <3>2 DEF AtDesk
    <3> QED
      BY <3>1, <3>2, <3>3 DEF PeriodShape, MarkClosed
  <2> QED
    BY <2>1, <2>2 DEF MarkClosed, LogReopen
<1>3. /\ period' \in [Periods -> Kept]
      /\ \A p \in Periods : \/ period'[p] = period[p]
                            \/ MarkClosed(d) /\ p \in desk[d].on /\ period'[p] = Closed(d)
                            \/ MarkReopened(d) /\ p \in desk[d].on /\ period'[p] = Reopened
  <2>1. CASE MarkClosed(d)
    <3>1. Closed(d) \in Kept
      BY <1>1 DEF Closed, DeskRow, PeriodStatus
    <3>2. PICK p \in desk[d].on : period' = [period EXCEPT ![p] = Closed(d)]
      BY <2>1 DEF MarkClosed
    <3> HIDE DEF Kept
    <3> QED
      BY <2>1, <3>1, <3>2 DEF PeriodShape, Kept
  <2>2. CASE MarkReopened(d)
    <3>1. Reopened \in Kept
      BY DEF Reopened, PeriodStatus
    <3>2. PICK p \in desk[d].on : period' = [period EXCEPT ![p] = Reopened]
      BY <2>2 DEF MarkReopened
    <3> QED
      BY <2>2, <3>1, <3>2 DEF PeriodShape
  <2>3. CASE LogReopen(d)
    BY <2>3 DEF LogReopen, PeriodShape
  <2> QED
    BY <2>1, <2>2, <2>3
<1>4. desk[d].on \subseteq Present
  BY <1>1 DEF AtDesk, MarkClosed, MarkReopened, LogReopen
<1>5. Present' = Present
  BY <1>3, <1>4 DEF Present, Closed, Reopened
<1>6. PeriodShape' /\ OverlapOnlyByRace'
  BY <1>1, <1>2, <1>3, <1>5 DEF PeriodShape, OverlapOnlyByRace, Overlap
<1>7. \A e \in Desks : AtDesk(desk[e])'
  BY <1>2, <1>5 DEF AtDesk
<1>8. ReopenedBare'
  BY <1>3 DEF ReopenedBare, Closed
<1>9. Unlogged' \subseteq Unlogged
  <2> SUFFICES ASSUME NEW p \in Periods, period'[p].status = "reopened", p \notin reopenLog', ~Logging(p)'
               PROVE  period[p].status = "reopened" /\ p \notin reopenLog /\ ~Logging(p)
    BY DEF Unlogged
  <2>1. ~MarkClosed(d) => reopenLog \subseteq reopenLog'
    BY DEF MarkReopened, LogReopen
  <2>2. reopenLog \subseteq reopenLog'
    BY <2>1 DEF MarkClosed
  <2>3. period'[p] = period[p]
    BY <1>2, <1>3 DEF Logging, Closed
  <2>4. ~Logging(p)
    <3> SUFFICES ASSUME NEW e \in Desks, desk[e].next = "log", p \in desk[e].on
                 PROVE  FALSE
      BY DEF Logging
    <3>1. e = d
      BY <1>2 DEF Logging
    <3>2. LogReopen(d)
      BY <3>1 DEF MarkClosed, MarkReopened
    <3> QED
      BY <3>1, <3>2 DEF LogReopen
  <2> QED
    BY <2>2, <2>3, <2>4
<1>10. periodFaults' \in Nat /\ periodFaults' >= periodFaults
  BY <1>1 DEF PeriodShape
<1> QED
  BY <1>6, <1>7, <1>8, <1>9, <1>10, FewerUnlogged

\* A statement that fails costs at most the one record it was to write.
LEMMA FailurePreserves ==
    ASSUME PeriodInv, NEW d \in Desks, PeriodStatementFails(d)
    PROVE  PeriodInv'
<1> USE DEF PeriodInv
<1>1. /\ LeaveDesk(d) /\ periodFaults' = periodFaults + 1
      /\ UNCHANGED <<period, docRequest, ledger, reopenLog, unseen>>
  BY DEF PeriodStatementFails
<1>2. Present' = Present /\ PeriodShape' /\ ReopenedBare'
  BY <1>1, Left DEF PeriodShape, Present, ReopenedBare
<1>3. OverlapOnlyByRace'
  BY <1>1, <1>2 DEF OverlapOnlyByRace, Overlap
<1>4. \A e \in Desks : AtDesk(desk[e])'
  BY <1>1, <1>2, Left DEF AtDesk
<1>5. AtDesk(desk[d]) /\ desk[d] \in DeskRow
  BY DEF PeriodShape
<1>6. Unlogged' \subseteq Unlogged \cup desk[d].on
  <2>1. \A p \in Periods : Logging(p) => Logging(p)' \/ p \in desk[d].on
    BY <1>1, Left DEF Logging
  <2> QED
    BY <1>1, <2>1 DEF Unlogged
<1>7. IsFiniteSet(Unlogged') /\ Cardinality(Unlogged') <= Cardinality(Unlogged) + 1
  <2>1. IsFiniteSet(Unlogged) /\ Cardinality(Unlogged) \in Nat
    BY FS_CardinalityType
  <2>2. CASE desk[d].on = {}
    <3>1. Unlogged' \subseteq Unlogged
      BY <1>6, <2>2
    <3> QED
      BY <2>1, <3>1, FS_Subset, FS_CardinalityType
  <2>3. CASE desk[d].on # {}
    <3>1. PICK p : desk[d].on = {p}
      BY <1>5, <2>3 DEF AtDesk
    <3>2. /\ IsFiniteSet(Unlogged \cup {p})
          /\ Cardinality(Unlogged \cup {p}) <= Cardinality(Unlogged) + 1
          /\ Cardinality(Unlogged \cup {p}) \in Nat
      <4> DEFINE S == Unlogged
      <4>1. IsFiniteSet(S) /\ Cardinality(S) \in Nat
        BY <2>1
      <4> HIDE DEF S
      <4>2. /\ IsFiniteSet(S \cup {p})
            /\ Cardinality(S \cup {p}) = IF p \in S THEN Cardinality(S) ELSE Cardinality(S) + 1
        BY <4>1, FS_AddElement
      <4>3. /\ IsFiniteSet(S \cup {p})
            /\ Cardinality(S \cup {p}) <= Cardinality(S) + 1 /\ Cardinality(S \cup {p}) \in Nat
        BY <4>1, <4>2
      <4> QED
        BY <4>3 DEF S
    <3>3. IsFiniteSet(Unlogged') /\ Cardinality(Unlogged') <= Cardinality(Unlogged \cup {p})
      BY <1>6, <3>1, <3>2, FS_Subset
    <3>4. Cardinality(Unlogged') \in Nat
      BY <3>3, FS_CardinalityType
    <3> QED
      BY <2>1, <3>2, <3>3, <3>4
  <2> QED
    BY <2>2, <2>3
<1>8. IsFiniteSet(Unlogged)' /\ Cardinality(Unlogged)' <= periodFaults'
  <2>1. Cardinality(Unlogged) \in Nat /\ Cardinality(Unlogged') \in Nat /\ periodFaults \in Nat
    BY <1>7, FS_CardinalityType DEF PeriodShape
  <2> QED
    BY <1>1, <1>7, <2>1
<1> QED
  BY <1>2, <1>3, <1>4, <1>8

\* Requests, lines and reminders touch no period and no desk.
LEMMA AsidePreserves ==
    ASSUME PeriodInv,
           \/ \E q \in Requests : RequestStep(q)
           \/ \E p \in Periods, side \in Sides : PostLine(p, side)
           \/ \E s \in Sweeps : ReminderStep(s)
           \/ UNCHANGED periodVars
    PROVE  PeriodInv'
<1> USE DEF PeriodInv
<1>1. UNCHANGED <<period, reopenLog, desk, unseen>>
  BY DEF RequestStep, CreateDocumentRequest, WaiveDocumentRequest, FallOverdue, PostLine,
     ReminderStep, Sweep, Remind, RemindFails, ScanFails, SweepCut, periodVars, deskVars
<1>2. docRequest' \in [Requests -> RequestRow]
  <2>1. ASSUME NEW q \in Requests, RequestStep(q)
        PROVE  docRequest' \in [Requests -> RequestRow]
    <3>1. ASSUME NEW p \in Periods, CreateDocumentRequest(q, p)
          PROVE  docRequest' \in [Requests -> RequestRow]
      <4>1. 0 \in Nat /\ {p} \in SUBSET Periods
        OBVIOUS
      <4>2. [status |-> "pending", for |-> {p}, overdue |-> FALSE, reminders |-> 0] \in RequestRow
        BY <4>1, Zenon DEF RequestRow
      <4> QED
        BY <3>1, <4>2 DEF CreateDocumentRequest, PeriodShape
    <3>2. CASE WaiveDocumentRequest(q)
      BY <3>2 DEF WaiveDocumentRequest, PeriodShape, RequestRow
    <3>3. CASE FallOverdue(q)
      BY <3>3 DEF FallOverdue, PeriodShape, RequestRow
    <3> QED
      BY <2>1, <3>1, <3>2, <3>3 DEF RequestStep
  <2>2. ASSUME NEW s \in Sweeps, ReminderStep(s)
        PROVE  docRequest' \in [Requests -> RequestRow]
    <3>1. ASSUME NEW q \in Requests, Remind(s, q)
          PROVE  docRequest' \in [Requests -> RequestRow]
      <4> DEFINE n == docRequest[q].reminders + 1
      <4>1. docRequest[q] \in RequestRow /\ n \in Nat
        BY DEF PeriodShape, RequestRow
      <4>2. docRequest' = [docRequest EXCEPT ![q] = [docRequest[q] EXCEPT !.reminders = n]]
        BY <3>1 DEF Remind, PeriodShape
      <4> HIDE DEF n
      <4>3. [docRequest[q] EXCEPT !.reminders = n] \in RequestRow
        BY <4>1 DEF RequestRow
      <4> QED
        BY <4>2, <4>3 DEF PeriodShape
    <3> QED
      BY <2>2, <3>1 DEF ReminderStep, Sweep, RemindFails, ScanFails, SweepCut, PeriodShape
  <2> QED
    BY <2>1, <2>2 DEF PostLine, periodVars, PeriodShape
<1>3. ledger' \in [Periods -> Sums]
  <2>1. ASSUME NEW p \in Periods, NEW side \in Sides, PostLine(p, side)
        PROVE  ledger' \in [Periods -> Sums]
    <3>1. side = "debits" \/ side = "credits"
      BY PeriodBounds
    <3>2. [ledger[p] EXCEPT ![side] = @ + 1] \in Sums
      BY <3>1 DEF PeriodShape, Sums
    <3>3. ledger' = [ledger EXCEPT ![p] = [ledger[p] EXCEPT ![side] = @ + 1]]
      BY <2>1 DEF PostLine, PeriodShape
    <3> QED
      BY <3>2, <3>3 DEF PeriodShape
  <2> QED
    BY <2>1 DEF RequestStep, CreateDocumentRequest, WaiveDocumentRequest, FallOverdue,
       ReminderStep, Sweep, Remind, RemindFails, ScanFails, SweepCut, periodVars, PeriodShape
<1>4. periodFaults' \in Nat /\ periodFaults' >= periodFaults
  <2>1. periodFaults' = periodFaults \/ periodFaults' = periodFaults + 1
    BY DEF RequestStep, CreateDocumentRequest, WaiveDocumentRequest, FallOverdue, PostLine,
       ReminderStep, Sweep, Remind, RemindFails, ScanFails, SweepCut, periodVars
  <2> QED
    BY <2>1 DEF PeriodShape
<1>5. PeriodShape'
  BY <1>1, <1>2, <1>3, <1>4 DEF PeriodShape
<1>6. Present' = Present /\ Unlogged' = Unlogged
  BY <1>1 DEF Present, Unlogged, Logging
<1>7. \A d \in Desks : AtDesk(desk[d])'
  BY <1>1, <1>6 DEF AtDesk
<1>8. ReopenedBare' /\ OverlapOnlyByRace'
  BY <1>1, <1>6 DEF ReopenedBare, OverlapOnlyByRace, Overlap
<1> QED
  BY <1>4, <1>5, <1>6, <1>7, <1>8, FewerUnlogged

\* Every step keeps the invariant.
LEMMA PeriodStep == PeriodInv /\ [PeriodNext]_periodVars => PeriodInv'
BY DeskPreserves, InsertPreserves, MarkPreserves, FailurePreserves, AsidePreserves
DEF PeriodNext, Create, Close, Reopen

\* Without the race no two periods overlap, for any dates, users and faults.
THEOREM PeriodsApart == PeriodSpec => []OverlapOnlyByRace
<1>1. PeriodInv => OverlapOnlyByRace
  BY DEF PeriodInv
<1> QED
  BY PeriodInitInv, PeriodStep, <1>1, PTL DEF PeriodSpec

\* Only a failed statement costs the record of a reopening, and only one each.
THEOREM ReopeningRecorded == PeriodSpec => []ReopenOnRecord
<1>1. PeriodInv => ReopenOnRecord
  BY DEF PeriodInv, ReopenOnRecord, Unlogged
<1> QED
  BY PeriodInitInv, PeriodStep, <1>1, PTL DEF PeriodSpec

\* Nothing but a close under way at the reopening takes it back.
LEMMA FinalStep ==
    ASSUME PeriodInv, PeriodInv', [PeriodNext]_periodVars, NEW p \in Periods, ReopenedForGood(p)
    PROVE  ReopenedForGood(p)' /\ period'[p] = Reopened
<1> USE DEF PeriodInv, ReopenedForGood
<1>1. SUFFICES ReopenedForGood(p)'
  BY DEF ReopenedBare
<1>2. ASSUME NEW d \in Desks,
             period' = period, \A e \in Desks \ {d} : desk'[e] = desk[e],
             (desk'[d].next \in {"count", "balance", "close"} /\ p \in desk'[d].on) =>
                 desk[d].next \in {"count", "balance", "close"} /\ p \in desk[d].on
      PROVE  ReopenedForGood(p)'
  BY <1>2 DEF Closing
<1>3. ASSUME NEW d \in Desks, LeaveDesk(d), period' = period
      PROVE  ReopenedForGood(p)'
  BY <1>2, <1>3, Left
<1>4. ASSUME NEW d \in Desks, NEW q \in Periods, NEW at \in {"insert", "reopen"}, NEW seen,
             Enter(d, at, q, seen), period' = period
      PROVE  ReopenedForGood(p)'
  BY <1>2, <1>4 DEF Enter, PeriodShape
<1>5. ASSUME NEW d \in Desks, NEW q \in Periods, ReadForClose(d, q)
      PROVE  ReopenedForGood(p)'
  <2>1. q # p
    BY <1>5 DEF ReadForClose, Closable
  <2>2. desk' = [desk EXCEPT ![d] = [next |-> "count", on |-> {q}, seen |-> {}, balance |-> {}]] /\ period' = period
    BY <1>5 DEF ReadForClose, Enter
  <2> QED
    BY <1>2, <2>1, <2>2 DEF PeriodShape
<1>6. ASSUME NEW d \in Desks, CountPending(d) \/ ComputeBalance(d)
      PROVE  ReopenedForGood(p)'
  <2>1. CASE LeaveDesk(d)
    BY <1>3, <1>6, <2>1 DEF CountPending, ComputeBalance
  <2>2. CASE ~LeaveDesk(d)
    <3>1. /\ desk[d].next \in {"count", "balance"} /\ period' = period
          /\ \A e \in Desks \ {d} : desk'[e] = desk[e]
          /\ desk'[d].on \subseteq desk[d].on
      BY <1>6, <2>2 DEF CountPending, ComputeBalance, Goto, PeriodShape, DeskRow
    <3> QED
      BY <1>2, <3>1
  <2> QED
    BY <2>1, <2>2
<1>7. ASSUME NEW d \in Desks, InsertPeriod(d) \/ MarkClosed(d)
      PROVE  ReopenedForGood(p)'
  <2>1. LeaveDesk(d)
    BY <1>7 DEF InsertPeriod, MarkClosed
  <2>2. period'[p] = period[p]
    BY <1>7 DEF InsertPeriod, MarkClosed, Closing, Present, PeriodShape
  <2> QED
    BY <2>1, <2>2, Left DEF Closing
<1>8. ASSUME NEW d \in Desks, MarkReopened(d)
      PROVE  ReopenedForGood(p)'
  <2>1. /\ desk'[d].next = "log"
        /\ \A e \in Desks \ {d} : desk'[e] = desk[e]
    BY <1>8 DEF MarkReopened, Goto, PeriodShape, DeskRow
  <2>2. period'[p].status = "reopened"
    BY <1>8 DEF MarkReopened, Reopened, PeriodShape
  <2> QED
    BY <2>1, <2>2 DEF Closing
<1>9. CASE UNCHANGED <<period, desk>>
  BY <1>9 DEF Closing
<1>10. CASE PeriodNext
  <2>1. ASSUME NEW d \in Desks, Create(d) \/ Close(d) \/ Reopen(d) \/ PeriodStatementFails(d)
        PROVE  ReopenedForGood(p)'
    <3>1. CASE Create(d)
      BY <3>1, <1>3, <1>4, <1>7 DEF Create, CheckOverlap, InsertRefused
    <3>2. CASE Close(d)
      BY <3>2, <1>5, <1>6, <1>7 DEF Close
    <3>3. CASE Reopen(d)
      BY <3>3, <1>3, <1>4, <1>8 DEF Reopen, ReadForReopen, LogReopen
    <3>4. CASE PeriodStatementFails(d)
      BY <3>4, <1>3 DEF PeriodStatementFails
    <3> QED
      BY <2>1, <3>1, <3>2, <3>3, <3>4
  <2>2. CASE ~(\E d \in Desks : Create(d) \/ Close(d) \/ Reopen(d) \/ PeriodStatementFails(d))
    <3>1. UNCHANGED <<period, desk>>
      BY <1>10, <2>2 DEF PeriodNext, RequestStep, CreateDocumentRequest, WaiveDocumentRequest,
         FallOverdue, PostLine, ReminderStep, Sweep, Remind, RemindFails, ScanFails, SweepCut, deskVars
    <3> QED
      BY <1>9, <3>1
  <2> QED
    BY <2>1, <2>2
<1> QED
  BY <1>9, <1>10 DEF periodVars

\* A reopened period stays reopened, for any number of users and periods.
THEOREM ReopeningFinal == PeriodSpec => ReopenIsFinal
<1>1. PeriodInv /\ PeriodInv' /\ [PeriodNext]_periodVars =>
          [\A p \in Periods :
              ReopenedForGood(p) => ReopenedForGood(p)' /\ period'[p] = Reopened]_periodVars
  BY FinalStep
<1> QED
  BY PeriodInitInv, PeriodStep, <1>1, PTL DEF PeriodSpec, ReopenIsFinal

\* Each sweep that still holds a request adds at most one reminder to it.
Holding(q) == {s \in TextDates : q \in sweeping[s]}

ReminderInv ==
    /\ sweeping \in [Sweeps -> SUBSET Requests]
    /\ \A q \in Requests :
           docRequest[q].reminders + Cardinality(Holding(q)) < MaxReminders + Cardinality(TextDates)

\* Never more sweeps hold a request than there are.
LEMMA HoldingFinite ==
    \A S \in SUBSET TextDates : /\ IsFiniteSet(S) /\ Cardinality(S) \in Nat
                             /\ Cardinality(S) <= Cardinality(TextDates)
BY PeriodBounds, FS_Subset, FS_CardinalityType

\* At first nothing is reminded of.
LEMMA ReminderInitInv == PeriodInit => ReminderInv
<1> SUFFICES ASSUME PeriodInit PROVE ReminderInv
  OBVIOUS
<1>1. sweeping = [s \in Sweeps |-> {}] /\ \A q \in Requests : docRequest[q].reminders = 0
  BY DEF PeriodInit
<1>2. \A q \in Requests : Holding(q) = {}
  BY <1>1, PeriodBounds DEF Holding
<1>3. Cardinality({}) = 0 /\ Cardinality(TextDates) \in Nat
  BY FS_EmptySet, HoldingFinite
<1>4. \A q \in Requests : Cardinality(Holding(q)) = 0
  BY <1>2, <1>3
<1>5. sweeping \in [Sweeps -> SUBSET Requests]
  BY <1>1
<1> QED
  BY <1>1, <1>3, <1>4, <1>5 DEF ReminderInv, MaxReminders

\* A sweep takes up only requests with reminders left; an increment is one the
\* sweep owed; everything else adds nothing.
LEMMA ReminderStepPreserves ==
    ASSUME PeriodInv, PeriodInv', ReminderInv, [PeriodNext]_periodVars
    PROVE  ReminderInv'
<1>1. /\ sweeping \in [Sweeps -> SUBSET Requests]
      /\ \A q \in Requests : docRequest[q].reminders \in Nat
      /\ \A q \in Requests : docRequest'[q].reminders \in Nat
  BY DEF ReminderInv, PeriodInv, PeriodShape, RequestRow
<1>2. \A q \in Requests : /\ Cardinality(Holding(q)) \in Nat /\ Cardinality(Holding(q)') \in Nat
                          /\ Cardinality(Holding(q)') <= Cardinality(TextDates)
      /\ Cardinality(TextDates) \in Nat
  BY HoldingFinite DEF Holding
<1>3. ASSUME NEW q \in Requests, Holding(q)' \subseteq Holding(q),
             docRequest'[q].reminders = docRequest[q].reminders \/ docRequest'[q].reminders = 0
      PROVE  docRequest'[q].reminders + Cardinality(Holding(q)') < MaxReminders + Cardinality(TextDates)
  <2>1. IsFiniteSet(Holding(q))
    BY HoldingFinite DEF Holding
  <2>2. Cardinality(Holding(q)') <= Cardinality(Holding(q))
    BY <1>3, <2>1, FS_Subset
  <2>3. docRequest[q].reminders + Cardinality(Holding(q)) < MaxReminders + Cardinality(TextDates)
    BY DEF ReminderInv
  <2> QED
    BY <1>1, <1>2, <1>3, <2>2, <2>3 DEF MaxReminders
<1>4. ASSUME NEW s \in Sweeps, Sweep(s)
      PROVE  ReminderInv'
  <2>1. /\ sweeping[s] = {} /\ sweeping' = [sweeping EXCEPT ![s] = Candidates]
        /\ docRequest' = docRequest
    BY <1>4 DEF Sweep
  <2>2. sweeping' \in [Sweeps -> SUBSET Requests]
    BY <1>1, <2>1 DEF Candidates
  <2>3. ASSUME NEW q \in Candidates
        PROVE  docRequest'[q].reminders + Cardinality(Holding(q)') < MaxReminders + Cardinality(TextDates)
    <3>1. q \in Requests /\ docRequest[q].reminders < MaxReminders
      BY DEF Candidates
    <3> QED
      BY <1>1, <1>2, <2>1, <3>1 DEF MaxReminders
  <2>4. ASSUME NEW q \in Requests \ Candidates
        PROVE  Holding(q)' \subseteq Holding(q)
    BY <1>1, <2>1 DEF Holding
  <2> QED
    BY <1>3, <2>1, <2>2, <2>3, <2>4 DEF ReminderInv
<1>5. ASSUME NEW s \in Sweeps, NEW q \in Requests, Remind(s, q)
      PROVE  ReminderInv'
  <2>1. /\ q \in sweeping[s] /\ sweeping' = [sweeping EXCEPT ![s] = @ \ {q}]
        /\ docRequest' = [docRequest EXCEPT ![q].reminders = @ + 1]
        /\ s \in TextDates
    BY <1>5 DEF Remind
  <2>2. /\ sweeping' \in [Sweeps -> SUBSET Requests]
        /\ Holding(q)' = Holding(q) \ {s} /\ s \in Holding(q)
        /\ \A r \in Requests \ {q} : Holding(r)' = Holding(r)
    BY <1>1, <2>1 DEF Holding
  <2>3. /\ docRequest'[q].reminders = docRequest[q].reminders + 1
        /\ \A r \in Requests \ {q} : docRequest'[r] = docRequest[r]
    BY <2>1 DEF PeriodInv, PeriodShape, RequestRow
  <2>4. Cardinality(Holding(q)') = Cardinality(Holding(q)) - 1
    <3> DEFINE S == Holding(q)
    <3>1. IsFiniteSet(S) /\ s \in S
      BY <2>2, HoldingFinite DEF Holding
    <3> HIDE DEF S
    <3>2. Cardinality(S \ {s}) = Cardinality(S) - 1
      BY <3>1, FS_RemoveElement
    <3> QED
      BY <2>2, <3>2 DEF S
  <2>5. docRequest'[q].reminders + Cardinality(Holding(q)') < MaxReminders + Cardinality(TextDates)
    BY <1>1, <1>2, <2>3, <2>4 DEF ReminderInv, MaxReminders
  <2> QED
    BY <1>3, <2>2, <2>3, <2>5 DEF ReminderInv
<1>6. ASSUME NEW s \in Sweeps,
             ScanFails(s) \/ SweepCut(s) \/ \E q \in Requests : RemindFails(s, q)
      PROVE  ReminderInv'
  <2>1. /\ sweeping' \in [Sweeps -> SUBSET Requests] /\ docRequest' = docRequest
        /\ \A r \in Sweeps : sweeping'[r] \subseteq sweeping[r]
    BY <1>1, <1>6 DEF ScanFails, SweepCut, RemindFails
  <2>2. \A q \in Requests : Holding(q)' \subseteq Holding(q)
    BY <2>1, PeriodBounds DEF Holding
  <2> QED
    BY <1>3, <2>1, <2>2 DEF ReminderInv
<1>7. ASSUME NEW q \in Requests, RequestStep(q)
      PROVE  ReminderInv'
  <2>1. /\ sweeping' = sweeping
        /\ \A r \in Requests : \/ docRequest'[r].reminders = docRequest[r].reminders
                               \/ docRequest'[r].reminders = 0
    BY <1>7 DEF RequestStep, CreateDocumentRequest, WaiveDocumentRequest, FallOverdue, PeriodInv,
       PeriodShape, RequestRow
  <2>2. \A r \in Requests : Holding(r)' = Holding(r)
    BY <2>1 DEF Holding
  <2> QED
    BY <1>1, <1>3, <2>1, <2>2 DEF ReminderInv
<1>8. CASE UNCHANGED <<sweeping, docRequest>>
  BY <1>8 DEF ReminderInv, Holding
<1>9. CASE \E d \in Desks : Create(d) \/ Close(d) \/ Reopen(d) \/ PeriodStatementFails(d)
  BY <1>8, <1>9 DEF Create, Close, Reopen, CheckOverlap, InsertPeriod, InsertRefused, ReadForClose,
     CountPending, ComputeBalance, MarkClosed, ReadForReopen, MarkReopened, LogReopen,
     PeriodStatementFails
<1>10. CASE \E p \in Periods, side \in Sides : PostLine(p, side)
  BY <1>8, <1>10 DEF PostLine
<1> QED
  BY <1>4, <1>5, <1>6, <1>7, <1>8, <1>9, <1>10 DEF PeriodNext, ReminderStep, periodVars

\* At most two reminders and one per process that reads its rows, for any finite set of
\* those.
THEOREM RemindersLimited == PeriodSpec => []RemindersBounded
<1>1. PeriodInv /\ PeriodInv' /\ ReminderInv /\ [PeriodNext]_periodVars => ReminderInv'
  BY ReminderStepPreserves
<1>2. PeriodInv /\ ReminderInv => RemindersBounded
  <2> SUFFICES ASSUME PeriodInv, ReminderInv, NEW q \in Requests
               PROVE  docRequest[q].reminders < MaxReminders + Cardinality(TextDates)
    BY DEF RemindersBounded
  <2>1. docRequest[q].reminders \in Nat /\ Cardinality(Holding(q)) \in Nat /\ Cardinality(TextDates) \in Nat
    BY HoldingFinite DEF PeriodInv, PeriodShape, RequestRow, Holding
  <2> QED
    BY <2>1 DEF ReminderInv, MaxReminders
<1> QED
  BY PeriodInitInv, ReminderInitInv, PeriodStep, <1>1, <1>2, PTL DEF PeriodSpec

-----------------------------------------------------------------------------
(* Types of the periods.                                                   *)

\* The steps of a handler keep the types.
LEMMA HandlerTyped ==
    ASSUME PeriodTypeOK, NEW d \in Desks,
           Create(d) \/ Close(d) \/ Reopen(d) \/ PeriodStatementFails(d)
    PROVE  PeriodTypeOK'
<1>1. /\ period \in [Periods -> PeriodRow] /\ desk \in [Desks -> DeskState] /\ desk[d] \in DeskState
      /\ ledger \in [Periods -> Lines] /\ unseen \in [Periods -> SUBSET Periods]
      /\ reopenLog \subseteq Periods /\ Present \subseteq Periods
      /\ periodCalls \in 0..MaxPeriodCalls /\ periodFaults \in 0..MaxPeriodFaults
      /\ desk[d].on \subseteq Periods /\ desk[d].balance \subseteq Lines
  BY DEF PeriodTypeOK, DeskState, Present
<1>2. UNCHANGED <<docRequest, ledger, sweeping>>
  BY DEF Create, Close, Reopen, CheckOverlap, InsertPeriod, InsertRefused, ReadForClose, CountPending,
     ComputeBalance, MarkClosed, ReadForReopen, MarkReopened, LogReopen, PeriodStatementFails
<1>3. [desk EXCEPT ![d] = AtRest] \in [Desks -> DeskState]
  <2>1. AtRest \in DeskState
    BY DEF DeskState, AtRest, PeriodStatement
  <2> QED
    BY <1>1, <2>1
<1>4. ASSUME NEW at \in PeriodStatement
      PROVE  [desk EXCEPT ![d].next = at] \in [Desks -> DeskState]
  <2>1. [desk[d] EXCEPT !.next = at] \in DeskState
    BY <1>1 DEF DeskState
  <2> QED
    BY <1>1, <2>1
<1>5. ASSUME NEW p \in Periods, NEW at \in PeriodStatement, NEW seen \in SUBSET Periods, Enter(d, at, p, seen)
      PROVE  desk' \in [Desks -> DeskState] /\ periodCalls' \in 0..MaxPeriodCalls
  <2>1. periodCalls' \in 0..MaxPeriodCalls
    BY <1>1, <1>5, PeriodBounds DEF Enter
  <2>2. [next |-> at, on |-> {p}, seen |-> seen, balance |-> {}] \in DeskState
    BY DEF DeskState
  <2>3. desk' = [desk EXCEPT ![d] = [next |-> at, on |-> {p}, seen |-> seen, balance |-> {}]]
    BY <1>5 DEF Enter
  <2> QED
    BY <1>1, <2>1, <2>2, <2>3
<1>6. /\ "insert" \in PeriodStatement /\ "count" \in PeriodStatement /\ "reopen" \in PeriodStatement
      /\ "balance" \in PeriodStatement /\ "close" \in PeriodStatement /\ "log" \in PeriodStatement
      /\ {} \in SUBSET Periods /\ Present \in SUBSET Periods
  BY <1>1 DEF PeriodStatement
<1>7. desk' \in [Desks -> DeskState] /\ periodCalls' \in 0..MaxPeriodCalls
  <2>1. CASE (\E p \in Periods : CheckOverlap(d, p) \/ ReadForClose(d, p) \/ ReadForReopen(d, p))
    BY <1>5, <1>6, <2>1 DEF CheckOverlap, ReadForClose, ReadForReopen
  <2>2. CASE ComputeBalance(d)
    <3>1. PICK p \in desk[d].on :
              desk' = [desk EXCEPT ![d] =
                  [next |-> "close", on |-> {p}, seen |-> {}, balance |-> TrialBalance(p)]]
      BY <2>2 DEF ComputeBalance
    <3>2. TrialBalance(p) \in SUBSET Lines /\ p \in Periods
      BY <1>1 DEF TrialBalance
    <3>3. [next |-> "close", on |-> {p}, seen |-> {}, balance |-> TrialBalance(p)] \in DeskState
      BY <1>6, <3>2 DEF DeskState
    <3>4. desk' \in [Desks -> DeskState]
      BY <1>1, <3>1, <3>3
    <3> QED
      BY <1>1, <2>2, <3>4 DEF ComputeBalance
  <2>3. CASE CountPending(d) \/ MarkReopened(d)
    BY <1>1, <1>3, <1>4, <1>6, <2>3 DEF CountPending, MarkReopened, Goto, LeaveDesk
  <2>4. CASE InsertPeriod(d) \/ InsertRefused(d) \/ MarkClosed(d) \/ LogReopen(d) \/ PeriodStatementFails(d)
    BY <1>1, <1>3, <2>4
    DEF InsertPeriod, InsertRefused, MarkClosed, LogReopen, PeriodStatementFails, LeaveDesk
  <2> QED
    BY <2>1, <2>2, <2>3, <2>4 DEF Create, Close, Reopen
<1>8. period' \in [Periods -> PeriodRow] /\ unseen' \in [Periods -> SUBSET Periods]
  <2>1. CASE InsertPeriod(d)
    <3>1. PICK p \in desk[d].on \ Present :
              /\ period' = [period EXCEPT ![p].status = "open"]
              /\ unseen' = [unseen EXCEPT ![p] = Present \ desk[d].seen]
      BY <2>1 DEF InsertPeriod
    <3>2. p \in Periods /\ [period[p] EXCEPT !.status = "open"] \in PeriodRow
      BY <1>1, <3>1 DEF PeriodRow, PeriodStatus
    <3> QED
      BY <1>1, <3>1, <3>2
  <2>2. CASE MarkClosed(d)
    <3>1. Closed(d) \in PeriodRow
      BY <1>1 DEF Closed, PeriodRow, PeriodStatus
    <3> QED
      BY <1>1, <2>2, <3>1 DEF MarkClosed
  <2>3. CASE MarkReopened(d)
    <3>1. Reopened \in PeriodRow
      BY DEF Reopened, PeriodRow, PeriodStatus
    <3> QED
      BY <1>1, <2>3, <3>1 DEF MarkReopened
  <2>4. CASE ~InsertPeriod(d) /\ ~MarkClosed(d) /\ ~MarkReopened(d)
    BY <1>1, <2>4 DEF Create, Close, Reopen, CheckOverlap, InsertRefused, ReadForClose, CountPending,
       ComputeBalance, ReadForReopen, LogReopen, PeriodStatementFails
  <2> QED
    BY <2>1, <2>2, <2>3, <2>4
<1>9. reopenLog' \subseteq Periods
  BY <1>1 DEF Create, Close, Reopen, CheckOverlap, InsertPeriod, InsertRefused, ReadForClose, CountPending,
     ComputeBalance, MarkClosed, ReadForReopen, MarkReopened, LogReopen, PeriodStatementFails
<1>10. periodFaults' \in 0..MaxPeriodFaults
  BY <1>1, PeriodBounds DEF Create, Close, Reopen, CheckOverlap, InsertPeriod, InsertRefused,
     ReadForClose, CountPending, ComputeBalance, MarkClosed, ReadForReopen, MarkReopened, LogReopen,
     PeriodStatementFails
<1> QED
  BY <1>2, <1>7, <1>8, <1>9, <1>10 DEF PeriodTypeOK

\* So do the requests, the ledger and the reminders.
LEMMA PeriodTyped == PeriodSpec => []PeriodTypeOK
<1>1. PeriodInit => PeriodTypeOK
  <2> SUFFICES ASSUME PeriodInit PROVE PeriodTypeOK
    OBVIOUS
  <2>1. period \in [Periods -> PeriodRow]
    BY DEF PeriodInit, PeriodRow, PeriodStatus
  <2>2. AtRest \in DeskState
    BY DEF DeskState, AtRest, PeriodStatement
  <2>3. /\ desk \in [Desks -> DeskState] /\ ledger \in [Periods -> Lines]
        /\ docRequest \in [Requests -> RequestRow]
    BY <2>2, PeriodBounds DEF PeriodInit, Lines, RequestRow
  <2> QED
    BY <2>1, <2>3, PeriodBounds DEF PeriodInit, PeriodTypeOK
<1>2. ASSUME PeriodTypeOK, NEW q \in Requests, RequestStep(q) PROVE PeriodTypeOK'
  <2>1. /\ docRequest \in [Requests -> RequestRow] /\ docRequest[q] \in RequestRow
        /\ UNCHANGED <<period, ledger, reopenLog, desk, periodCalls, sweeping, unseen, periodFaults>>
    BY <1>2 DEF PeriodTypeOK, RequestStep, CreateDocumentRequest, WaiveDocumentRequest, FallOverdue, deskVars
  <2>2. docRequest' \in [Requests -> RequestRow]
    <3>1. /\ [docRequest[q] EXCEPT !.status = "waived"] \in RequestRow
          /\ [docRequest[q] EXCEPT !.overdue = TRUE] \in RequestRow
          /\ \A p \in Periods :
                 [status |-> "pending", for |-> {p}, overdue |-> FALSE, reminders |-> 0] \in RequestRow
      BY <2>1 DEF RequestRow
    <3> QED
      BY <1>2, <2>1, <3>1 DEF RequestStep, CreateDocumentRequest, WaiveDocumentRequest, FallOverdue
  <2> QED
    BY <1>2, <2>1, <2>2 DEF PeriodTypeOK
<1>3. ASSUME PeriodTypeOK, NEW p \in Periods, NEW side \in Sides, PostLine(p, side) PROVE PeriodTypeOK'
  <2>1. /\ ledger[p].debits \in 0..MaxPostings /\ ledger[p].credits \in 0..MaxPostings
        /\ ledger[p].debits + ledger[p].credits < MaxPostings
        /\ ledger[p] \in Lines /\ ledger \in [Periods -> Lines]
    BY <1>3 DEF PostLine, PeriodTypeOK, Lines
  <2>2. side \in {"debits", "credits"}
    BY PeriodBounds
  <2>3. [ledger[p] EXCEPT ![side] = @ + 1] \in Lines
    BY <2>1, <2>2, PeriodBounds DEF Lines
  <2>4. ledger' \in [Periods -> Lines]
    BY <1>3, <2>1, <2>3 DEF PostLine
  <2> QED
    BY <1>3, <2>4 DEF PostLine, PeriodTypeOK, deskVars
<1>4. ASSUME PeriodTypeOK, NEW s \in Sweeps, ReminderStep(s) PROVE PeriodTypeOK'
  <2>1. /\ docRequest \in [Requests -> RequestRow] /\ sweeping \in [Sweeps -> SUBSET Requests]
        /\ periodFaults \in 0..MaxPeriodFaults /\ Candidates \subseteq Requests
        /\ UNCHANGED <<period, ledger, reopenLog, desk, periodCalls, unseen>>
    BY <1>4 DEF PeriodTypeOK, ReminderStep, Sweep, ScanFails, SweepCut, Remind, RemindFails, deskVars, Candidates
  <2>2. sweeping' \in [Sweeps -> SUBSET Requests] /\ periodFaults' \in 0..MaxPeriodFaults
    BY <1>4, <2>1, PeriodBounds DEF ReminderStep, Sweep, ScanFails, SweepCut, Remind, RemindFails
  <2>3. ASSUME NEW q \in Requests PROVE [docRequest[q] EXCEPT !.reminders = @ + 1] \in RequestRow
    BY <2>1 DEF RequestRow
  <2>4. docRequest' \in [Requests -> RequestRow]
    BY <1>4, <2>1, <2>3 DEF ReminderStep, Sweep, ScanFails, SweepCut, Remind, RemindFails
  <2> QED
    BY <1>4, <2>1, <2>2, <2>4 DEF PeriodTypeOK
<1>5. PeriodTypeOK /\ [PeriodNext]_periodVars => PeriodTypeOK'
  BY <1>2, <1>3, <1>4, HandlerTyped DEF PeriodNext, periodVars, PeriodTypeOK
<1> QED
  BY <1>1, <1>5, PTL DEF PeriodSpec
==============================================================================
