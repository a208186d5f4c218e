------------------------ MODULE DecisionTableProofs ------------------------
(***************************************************************************)
(* What an accepted decision table guarantees, for tables of any length,   *)
(* and what the table in the repository says, for any amounts.             *)
(***************************************************************************)
EXTENDS DecisionTable, TLAPS, WellFoundedInduction

\* Every nonempty set of numbers has a least element.
LEMMA LeastElement ==
    ASSUME NEW T, T \subseteq Nat, T # {}
    PROVE  \E x \in T : \A y \in T : x <= y
<1>1. PICK x \in T : \A y \in T : ~(<<y, x>> \in OpToRel(<, Nat))
  BY WFMin, NatLessThanWellFounded
<1>2. ASSUME NEW y \in T PROVE x <= y
  <2>1. ~(y < x)
    BY <1>1 DEF OpToRel
  <2> QED
    BY <2>1
<1> QED
  BY <1>2

\* The worth of a bound is an integer.
LEMMA ValueType ==
    ASSUME NEW o \in Operand, NEW t \in Int
    PROVE  Value(o, t) \in Int
BY DEF Value, Operand

\* Where two rows meet, a variance beyond the first is within reach of the second.
LEMMA MeetsAbove ==
    ASSUME NEW a \in Rule, NEW b \in Rule, NEW v \in Int, NEW t \in Int,
           Meet(a, b), ~BelowHi(a.hi, v, t)
    PROVE  AboveLo(b.lo, v, t)
<1>1. a.hi \in Bound /\ b.lo \in Bound /\ a.hi.op = b.lo.op
  BY DEF Meet, Rule
<1>2. PICK x \in Int : x = Value(a.hi.op, t) /\ x = Value(b.lo.op, t)
  BY <1>1, ValueType DEF Bound
<1> QED
  BY <1>1, <1>2 DEF Meet, BelowHi, AboveLo, Bound, BoundKind

\* A variance that does not exceed row j of an accepted table has a band at j
\* or before it.
LEMMA BandUpTo ==
    ASSUME NEW rules \in Seq(Rule), Accepted(rules), NEW v \in Nat, NEW t \in Int,
           NEW j \in 1 .. Len(rules), BelowHi(rules[j].hi, v, t)
    PROVE  \E i \in 1 .. j : InBand(rules[i], v, t)
<1> DEFINE T == {i \in 1 .. j : BelowHi(rules[i].hi, v, t)}
<1>1. T \subseteq Nat /\ j \in T
  OBVIOUS
<1>2. PICK i \in T : \A k \in T : i <= k
  BY <1>1, LeastElement
<1>3. AboveLo(rules[i].lo, v, t)
  <2>1. CASE i = 1
    <3>1. rules[1].lo = [kind |-> "inclusive", op |-> [coeff |-> 0, konst |-> 0]]
      BY DEF Accepted, Covers, Inclusive, Zero
    <3>2. Value(rules[1].lo.op, t) = 0
      BY <3>1 DEF Value
    <3> QED
      BY <2>1, <3>1, <3>2 DEF AboveLo
  <2>2. CASE i # 1
    <3>1. i - 1 \in 1 .. j /\ i - 1 \in 1 .. Len(rules) - 1 /\ i = (i - 1) + 1
      BY <1>2, <2>2
    <3>2. ~BelowHi(rules[i - 1].hi, v, t)
      BY <1>2, <3>1
    <3>3. Meet(rules[i - 1], rules[i])
      BY <3>1 DEF Accepted, Covers
    <3>4. rules[i - 1] \in Rule /\ rules[i] \in Rule
      BY <3>1
    <3> QED
      BY <3>2, <3>3, <3>4, MeetsAbove
  <2> QED
    BY <2>1, <2>2
<1> QED
  BY <1>2, <1>3 DEF InBand

\* The service's shipped table is one it accepts, and the band it assigns says
\* "exceeds" exactly when the variance is above the tolerance
\* (decision-graphs/gl_reconciliation.json, zen/mod.rs:433-498).
THEOREM ShippedTable ==
    /\ Accepted(Shipped)
    /\ \A v, t \in Nat : \A i \in 1 .. 4 :
           InBand(Shipped[i], v, t) => (Shipped[i].exceeds <=> v > t)
<1>1. Len(Shipped) = 4
  BY DEF Shipped
<1>2. Accepted(Shipped)
  BY <1>1 DEF Accepted, Covers, Meet, NonNegative, Shipped, Zero, Times, Unbounded, Inclusive,
     Exclusive
<1>3. ASSUME NEW v \in Nat, NEW t \in Nat, NEW i \in 1 .. 4, InBand(Shipped[i], v, t)
      PROVE  Shipped[i].exceeds <=> v > t
  <2>1. CASE i = 1
    BY <1>3, <2>1 DEF InBand, AboveLo, BelowHi, Value, Shipped, Zero, Times, Inclusive
  <2>2. CASE i = 2
    BY <1>3, <2>2 DEF InBand, AboveLo, BelowHi, Value, Shipped, Times, Inclusive, Exclusive
  <2>3. CASE i = 3
    BY <1>3, <2>3 DEF InBand, AboveLo, BelowHi, Value, Shipped, Times, Inclusive, Exclusive
  <2>4. CASE i = 4
    BY <1>3, <2>4 DEF InBand, AboveLo, BelowHi, Value, Shipped, Times, Unbounded, Exclusive
  <2> QED
    BY <2>1, <2>2, <2>3, <2>4
<1> QED
  BY <1>2, <1>3
=============================================================================
