---------------------------- MODULE RuleEngine ----------------------------
(***************************************************************************)
(* The rule engine of the verification service: it loads one decision      *)
(* table, refuses to start on one it cannot use, and from then on answers  *)
(* requests with the first row whose band the variance lies in.  Bounds    *)
(* are computed in a machine integer with checked arithmetic, so a request *)
(* may also end in an error.                                               *)
(***************************************************************************)
EXTENDS DecisionTable

CONSTANTS
    Table,      \* decision tables an operator may deploy
    MaxInt,     \* i64::MAX
    Variance,   \* variances requests may carry, of either sign
    Tolerance   \* tolerances of the books

ASSUME MaxIntAssumption    == MaxInt \in Nat \ {0}
ASSUME TableAssumption     == Table \subseteq Seq(Rule)
ASSUME VarianceAssumption  == Variance \subseteq (-MaxInt - 1) .. MaxInt
ASSUME ToleranceAssumption == Tolerance \subseteq 0 .. MaxInt

VARIABLES
    table,      \* the deployed table
    service,    \* whether the service came up on it
    request,    \* the variance and tolerance last asked about
    answer      \* the row that answered, or how the request failed

vars == <<table, service, request, answer>>

NoRequest == [v |-> 0, t |-> 0]
End       == {"none", "banded", "overflow", "unbanded"}
Failed(e) == [end |-> e, row |-> 0]
Banded(i) == [end |-> "banded", row |-> i]

\* Only a service that accepted its table serves, and only a band has a row.
TypeOK ==
    /\ table \in Seq(Rule)
    /\ service \in {"loading", "serving", "refused"}
    /\ service = "serving" => Accepted(table)
    /\ request \in [v : Variance \cup {0}, t : Tolerance \cup {0}]
    /\ answer \in [end : End, row : 0 .. Len(table)]
    /\ answer.end = "banded" <=> answer.row # 0
    /\ answer.end # "none" => service = "serving"

Init ==
    /\ table \in Table
    /\ service = "loading"
    /\ request = NoRequest
    /\ answer = Failed("none")

\* A bound that does not fit: checked_mul or checked_add gives up.
Overflows(b, t) ==
    b.kind # "unbounded" /\ (b.op.coeff * t > MaxInt \/ Value(b.op, t) > MaxInt)

\* Mutant: the bounds wrap around instead.
Wrapped(b, t) ==
    [b EXCEPT !.op = [coeff |-> 0,
                      konst |-> ((Value(b.op, t) + MaxInt + 1) % (2 * MaxInt + 2)) - MaxInt - 1]]
WrappedOutcome(r, v, t) ==
    IF AboveLo(Wrapped(r.lo, t), v, t) /\ BelowHi(Wrapped(r.hi, t), v, t) THEN "yes" ELSE "no"

\* What one row says: the lower bound is computed first, and the upper one only
\* if the lower is met.
Outcome(r, v, t) ==
    IF Overflows(r.lo, t) THEN "overflow"
    ELSE IF ~AboveLo(r.lo, v, t) THEN "no"
    ELSE IF Overflows(r.hi, t) THEN "overflow"
    ELSE IF BelowHi(r.hi, v, t) THEN "yes"
    ELSE "no"

\* The rows that end the walk.
Stops(rules, v, t) == {i \in 1 .. Len(rules) : Outcome(rules[i], v, t) # "no"}

FirstStop(rules, v, t) ==
    CHOOSE i \in Stops(rules, v, t) : \A j \in Stops(rules, v, t) : i <= j

Evaluate(rules, v, t) ==
    IF Stops(rules, v, t) = {} THEN Failed("unbanded")
    ELSE LET i == FirstStop(rules, v, t)
         IN  IF Outcome(rules[i], v, t) = "overflow" THEN Failed("overflow") ELSE Banded(i)

Magnitude(v) == IF v < 0 THEN -v ELSE v

-----------------------------------------------------------------------------

\* Mutant: a table that does not compile is served all the same.
LoadAnything ==
    /\ service = "loading"
    /\ service' = "serving"
    /\ UNCHANGED <<table, request, answer>>

Load ==
    /\ service = "loading"
    /\ service' = IF Accepted(table) THEN "serving" ELSE "refused"
    /\ UNCHANGED <<table, request, answer>>

\* |i64::MIN| does not exist.
Ask(v, t) ==
    /\ service = "serving"
    /\ request' = [v |-> v, t |-> t]
    /\ answer' = IF Magnitude(v) > MaxInt THEN Failed("overflow")
                 ELSE Evaluate(table, Magnitude(v), t)
    /\ UNCHANGED <<table, service>>

Next == Load \/ \E v \in Variance, t \in Tolerance : Ask(v, t)

Spec == Init /\ [][Next]_vars

-----------------------------------------------------------------------------
(* Properties.                                                             *)

\* A table that was accepted at load never leaves a request without a band:
\* the walk needs no fallback (zen/mod.rs:433-438, 567-569).
NeverUnbanded == answer.end # "unbanded"

\* A band is never the product of arithmetic that overflowed: whatever row
\* answers, the variance lies in it over the integers (zen/mod.rs:207-220).
BandIsExact ==
    answer.end = "banded" => InBand(table[answer.row], Magnitude(request.v), request.t)

\* Of two variances of one book the larger never gets an earlier row, also
\* where rows overlap because one bound is a constant and the other a multiple
\* of the tolerance (zen/mod.rs:545-566).
LargerIsNoMilder ==
    [][/\ answer.end = "banded"
       /\ answer'.end = "banded"
       /\ request'.t = request.t
       /\ Magnitude(request'.v) >= Magnitude(request.v)
       => answer'.row >= answer.row]_vars
=============================================================================
