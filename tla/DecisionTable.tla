--------------------------- MODULE DecisionTable ---------------------------
(***************************************************************************)
(* The decision table of the verification service (verification/src/zen):  *)
(* what a range expression compiles to, which tables are accepted, and how *)
(* a variance is matched against a row.  Money is in cents.                *)
(***************************************************************************)
EXTENDS Integers, Sequences

\* coeff * tolerance_cents + konst, exclusive or inclusive; or no bound at all.
Operand   == [coeff : Int, konst : Int]
BoundKind == {"unbounded", "inclusive", "exclusive"}
Bound     == [kind : BoundKind, op : Operand]
Rule      == [lo : Bound, hi : Bound, exceeds : BOOLEAN]

Zero        == [coeff |-> 0, konst |-> 0]
Times(k)    == [coeff |-> k, konst |-> 0]
Unbounded   == [kind |-> "unbounded", op |-> Zero]
Inclusive(o) == [kind |-> "inclusive", op |-> o]
Exclusive(o) == [kind |-> "exclusive", op |-> o]

\* What the operand is worth at tolerance t, over the integers.
Value(o, t) == o.coeff * t + o.konst

AboveLo(b, v, t) ==
    \/ b.kind = "unbounded"
    \/ b.kind = "inclusive" /\ v >= Value(b.op, t)
    \/ b.kind = "exclusive" /\ v > Value(b.op, t)

BelowHi(b, v, t) ==
    \/ b.kind = "unbounded"
    \/ b.kind = "inclusive" /\ v <= Value(b.op, t)
    \/ b.kind = "exclusive" /\ v < Value(b.op, t)

\* Variance v lies in the band of rule r.
InBand(r, v, t) == AboveLo(r.lo, v, t) /\ BelowHi(r.hi, v, t)

-----------------------------------------------------------------------------
(* Load time.                                                              *)

\* compile: no bound below zero, since variance arrives as |v|.
NonNegative(b) == b.kind # "unbounded" => b.op.coeff >= 0 /\ b.op.konst >= 0

\* Mutant: exactly one neighbour includes its bound, but the bounds may differ.
MeetInKind(a, b) == {a.hi.kind, b.lo.kind} = {"inclusive", "exclusive"}

\* Two neighbouring rows share a bound that exactly one of them includes.
Meet(a, b) ==
    /\ a.hi.kind # "unbounded"
    /\ b.lo.kind # "unbounded"
    /\ a.hi.op = b.lo.op
    /\ a.hi.kind # b.lo.kind

\* validate_coverage: from inclusive zero, edge to edge, to infinity.
Covers(rules) ==
    /\ rules # <<>>
    /\ rules[1].lo = Inclusive(Zero)
    /\ rules[Len(rules)].hi.kind = "unbounded"
    /\ \A i \in 1 .. Len(rules) - 1 : Meet(rules[i], rules[i + 1])

\* The tables the service starts with; any other keeps it from starting.
Accepted(rules) ==
    /\ \A i \in 1 .. Len(rules) : NonNegative(rules[i].lo) /\ NonNegative(rules[i].hi)
    /\ Covers(rules)

\* decision-graphs/gl_reconciliation.json: info, low, medium, high.
Shipped ==
    <<[lo |-> Inclusive(Zero),       hi |-> Inclusive(Times(1)),   exceeds |-> FALSE],
      [lo |-> Exclusive(Times(1)),   hi |-> Inclusive(Times(10)),  exceeds |-> TRUE],
      [lo |-> Exclusive(Times(10)),  hi |-> Inclusive(Times(100)), exceeds |-> TRUE],
      [lo |-> Exclusive(Times(100)), hi |-> Unbounded,             exceeds |-> TRUE]>>
=============================================================================
