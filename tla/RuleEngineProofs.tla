-------------------------- MODULE RuleEngineProofs --------------------------
(***************************************************************************)
(* Theorems of RuleEngine, for tables of any length, any integer width,    *)
(* any variances and any tolerances.                                       *)
(***************************************************************************)
EXTENDS RuleEngine, DecisionTableProofs

-----------------------------------------------------------------------------
(* One evaluation.                                                         *)

\* The walk ends at a row, and at no later one than any other row that ends it.
LEMMA FirstStopIsFirst ==
    ASSUME NEW rules \in Seq(Rule), NEW v, NEW t, Stops(rules, v, t) # {}
    PROVE  /\ FirstStop(rules, v, t) \in Stops(rules, v, t)
           /\ \A j \in Stops(rules, v, t) : FirstStop(rules, v, t) <= j
<1>1. Stops(rules, v, t) \subseteq Nat
  BY DEF Stops
<1>2. \E i \in Stops(rules, v, t) : \A j \in Stops(rules, v, t) : i <= j
  BY <1>1, LeastElement
<1> QED
  BY <1>2 DEF FirstStop

\* A row whose band holds the variance ends the walk.
LEMMA BandStops ==
    ASSUME NEW rules, NEW v, NEW t, NEW i \in 1 .. Len(rules), InBand(rules[i], v, t)
    PROVE  i \in Stops(rules, v, t)
BY DEF Stops, Outcome, InBand

\* Every variance ends the walk through an accepted table somewhere.
LEMMA AlwaysStops ==
    ASSUME NEW rules \in Seq(Rule), Accepted(rules), NEW v \in Nat, NEW t \in Int
    PROVE  Stops(rules, v, t) # {}
<1> DEFINE n == Len(rules)
<1>1. n \in 1 .. n /\ rules[n].hi.kind = "unbounded"
  BY DEF Accepted, Covers
<1>2. BelowHi(rules[n].hi, v, t)
  BY <1>1 DEF BelowHi
<1>3. PICK i \in 1 .. n : InBand(rules[i], v, t)
  BY <1>1, <1>2, BandUpTo
<1> QED
  BY <1>3, BandStops

\* What an evaluation returns, on an accepted table: never "unbanded", and a row
\* only if it is the first stop and the variance lies in its band.
LEMMA Evaluation ==
    ASSUME NEW rules \in Seq(Rule), Accepted(rules), NEW v \in Nat, NEW t \in Int
    PROVE  LET a == Evaluate(rules, v, t)
           IN  \/ a = Failed("overflow")
               \/ /\ a = Banded(FirstStop(rules, v, t))
                  /\ FirstStop(rules, v, t) \in 1 .. Len(rules)
                  /\ InBand(rules[FirstStop(rules, v, t)], v, t)
<1> DEFINE i == FirstStop(rules, v, t)
<1>1. Stops(rules, v, t) # {}
  BY AlwaysStops
<1>2. i \in 1 .. Len(rules) /\ Outcome(rules[i], v, t) # "no"
  BY <1>1, FirstStopIsFirst DEF Stops
<1>3. CASE Outcome(rules[i], v, t) = "overflow"
  BY <1>1, <1>3 DEF Evaluate
<1>4. CASE Outcome(rules[i], v, t) # "overflow"
  <2>1. InBand(rules[i], v, t)
    BY <1>2, <1>4 DEF Outcome, InBand
  <2> QED
    BY <1>1, <1>2, <1>4, <2>1 DEF Evaluate
<1> QED
  BY <1>3, <1>4

\* A variance at or below another one is below every upper bound the other is below.
LEMMA BelowHiMonotone ==
    ASSUME NEW b \in Bound, NEW v \in Int, NEW w \in Int, NEW t \in Int,
           v <= w, BelowHi(b, w, t)
    PROVE  BelowHi(b, v, t)
<1>1. PICK x \in Int : x = Value(b.op, t)
  BY ValueType DEF Bound
<1> QED
  BY <1>1 DEF BelowHi

\* Magnitudes are not negative.
LEMMA MagnitudeType ==
    ASSUME NEW v \in Int
    PROVE  Magnitude(v) \in Nat
BY DEF Magnitude

-----------------------------------------------------------------------------
(* The service.  The inductive invariant adds to TypeOK what an answer was *)
(* computed from: a row, or the lack of one, is the evaluation of the last *)
(* request on the table the service accepted.                              *)

AnswerIsEvaluation ==
    answer.end \in {"banded", "unbanded"} =>
        answer = Evaluate(table, Magnitude(request.v), request.t)

IInv == TypeOK /\ AnswerIsEvaluation

\* Requests carry integers.
LEMMA RequestType ==
    ASSUME NEW v \in Variance \cup {0}, NEW t \in Tolerance \cup {0}
    PROVE  v \in Int /\ t \in Int /\ Magnitude(v) \in Nat
<1>1. v \in Int /\ t \in Int
  BY MaxIntAssumption, VarianceAssumption, ToleranceAssumption
<1> QED
  BY <1>1, MagnitudeType

\* A request asked of a service that keeps the invariant is answered within it.
LEMMA AskKeepsInvariant ==
    ASSUME IInv, NEW v \in Variance, NEW t \in Tolerance, Ask(v, t)
    PROVE  IInv'
<1> DEFINE m == Magnitude(v)
<1>1. /\ table \in Seq(Rule)
      /\ Accepted(table)
      /\ service = "serving"
      /\ table' = table
      /\ service' = service
      /\ request' = [v |-> v, t |-> t]
      /\ answer' = IF m > MaxInt THEN Failed("overflow") ELSE Evaluate(table, m, t)
  BY DEF IInv, TypeOK, Ask
<1>2. request'.v = v /\ request'.t = t
  BY <1>1
<1>3. t \in Int /\ m \in Nat
  BY RequestType
<1>4. \/ answer' = Failed("overflow")
      \/ \E i \in 1 .. Len(table) : answer' = Banded(i) /\ answer' = Evaluate(table, m, t)
  BY <1>1, <1>3, Evaluation
<1>5. /\ answer' \in [end : End, row : 0 .. Len(table)]
      /\ answer'.end = "banded" <=> answer'.row # 0
  <2>1. CASE answer' = Failed("overflow")
    BY <2>1, <1>1 DEF Failed, End
  <2>2. CASE \E i \in 1 .. Len(table) : answer' = Banded(i)
    BY <2>2, <1>1 DEF Banded, End
  <2> QED
    BY <1>4, <2>1, <2>2
<1>6. request' \in [v : Variance \cup {0}, t : Tolerance \cup {0}]
  BY <1>1
<1>7. TypeOK'
  BY <1>1, <1>5, <1>6 DEF TypeOK
<1>8. AnswerIsEvaluation'
  BY <1>1, <1>2, <1>4 DEF AnswerIsEvaluation, Failed
<1> QED
  BY <1>7, <1>8 DEF IInv

\* The invariant holds throughout.
LEMMA ServiceInvariant == Spec => []IInv
<1>1. Init => IInv
  <2> SUFFICES ASSUME Init PROVE IInv
    OBVIOUS
  <2>1. table \in Seq(Rule) /\ Len(table) \in Nat
    BY TableAssumption DEF Init
  <2>2. answer = [end |-> "none", row |-> 0]
    BY DEF Init, Failed
  <2> QED
    BY <2>1, <2>2 DEF Init, IInv, TypeOK, AnswerIsEvaluation, NoRequest, End
<1>2. IInv /\ [Next]_vars => IInv'
  <2> SUFFICES ASSUME IInv, [Next]_vars PROVE IInv'
    OBVIOUS
  <2>1. CASE Load
    <3>1. TypeOK'
      BY <2>1 DEF IInv, TypeOK, Load
    <3>2. AnswerIsEvaluation'
      BY <2>1 DEF IInv, AnswerIsEvaluation, Load
    <3> QED
      BY <3>1, <3>2 DEF IInv
  <2>2. CASE \E v \in Variance, t \in Tolerance : Ask(v, t)
    BY <2>2, AskKeepsInvariant
  <2>3. CASE UNCHANGED vars
    BY <2>3 DEF IInv, TypeOK, AnswerIsEvaluation, vars
  <2> QED
    BY <2>1, <2>2, <2>3 DEF Next
<1> QED
  BY <1>1, <1>2, PTL DEF Spec

\* A row that answers is the first that stops the walk through the table, and the
\* variance asked about lies in its band.
RowIsFirstStop ==
    answer.end = "banded" =>
        /\ Magnitude(request.v) \in Nat
        /\ request.t \in Int
        /\ table \in Seq(Rule)
        /\ Accepted(table)
        /\ answer.row \in 1 .. Len(table)
        /\ answer.row = FirstStop(table, Magnitude(request.v), request.t)
        /\ InBand(table[answer.row], Magnitude(request.v), request.t)

\* What the invariant says of the answer.
LEMMA AnswerFacts == IInv => answer.end # "unbanded" /\ RowIsFirstStop
<1> SUFFICES ASSUME IInv, answer.end \in {"banded", "unbanded"}
             PROVE  answer.end # "unbanded" /\ RowIsFirstStop
  BY DEF RowIsFirstStop
<1>1. table \in Seq(Rule) /\ Accepted(table)
  BY DEF IInv, TypeOK
<1>2. request.v \in Variance \cup {0} /\ request.t \in Tolerance \cup {0}
  BY DEF IInv, TypeOK
<1>3. request.t \in Int /\ Magnitude(request.v) \in Nat
  BY <1>2, RequestType
<1>4. answer = Evaluate(table, Magnitude(request.v), request.t)
  BY DEF IInv, AnswerIsEvaluation
<1>5. answer # Failed("overflow")
  BY DEF Failed
<1>6. /\ answer = Banded(FirstStop(table, Magnitude(request.v), request.t))
      /\ FirstStop(table, Magnitude(request.v), request.t) \in 1 .. Len(table)
      /\ InBand(table[FirstStop(table, Magnitude(request.v), request.t)],
                Magnitude(request.v), request.t)
  BY <1>1, <1>3, <1>4, <1>5, Evaluation
<1>7. answer.row = FirstStop(table, Magnitude(request.v), request.t) /\ answer.end = "banded"
  BY <1>6 DEF Banded
<1> QED
  BY <1>1, <1>3, <1>6, <1>7 DEF RowIsFirstStop

\* The rule engine's state stays well typed, a service serves only a table it
\* accepted, and only a banded answer names a row.
THEOREM EngineTypeCorrect == Spec => []TypeOK
BY ServiceInvariant, PTL DEF IInv

\* No request of any magnitude, at any tolerance, is left without a band by a
\* table validate_coverage let through (zen/mod.rs:433-438).
THEOREM CoverageSuffices == Spec => []NeverUnbanded
<1>1. IInv => NeverUnbanded
  BY AnswerFacts DEF NeverUnbanded
<1> QED
  BY <1>1, ServiceInvariant, PTL

\* The band a request is given is the one its variance has over the integers,
\* whatever the width of the machine integer (zen/mod.rs:204-220).
THEOREM BandsAreExact == Spec => []BandIsExact
<1>1. IInv => BandIsExact
  BY AnswerFacts DEF BandIsExact, RowIsFirstStop
<1> QED
  BY <1>1, ServiceInvariant, PTL

\* First match is monotone in the variance on every accepted table, also one
\* whose bands overlap at some tolerances (zen/mod.rs:536-551).
THEOREM SeverityIsMonotone == Spec => LargerIsNoMilder
<1> DEFINE Step == /\ answer.end = "banded"
                   /\ answer'.end = "banded"
                   /\ request'.t = request.t
                   /\ Magnitude(request'.v) >= Magnitude(request.v)
                   => answer'.row >= answer.row
<1>1. ASSUME RowIsFirstStop, RowIsFirstStop', [Next]_vars PROVE [Step]_vars
  <2> SUFFICES ASSUME answer.end = "banded", answer'.end = "banded",
                      request'.t = request.t,
                      Magnitude(request'.v) >= Magnitude(request.v)
               PROVE  answer'.row >= answer.row
    OBVIOUS
  <2> DEFINE t == request.t
             v == Magnitude(request.v)
             w == Magnitude(request'.v)
             i == answer.row
             j == answer'.row
  <2>1. table' = table
    BY <1>1 DEF Next, Load, Ask, vars
  <2>2. /\ v \in Nat /\ t \in Int
        /\ table \in Seq(Rule) /\ Accepted(table)
        /\ i = FirstStop(table, v, t)
        /\ i \in 1 .. Len(table)
    BY <1>1 DEF RowIsFirstStop
  <2>3. w \in Nat /\ j \in 1 .. Len(table) /\ InBand(table[j], w, t)
    BY <1>1, <2>1 DEF RowIsFirstStop, Magnitude
  <2>4. v <= w
    BY <2>2, <2>3
  <2>5. BelowHi(table[j].hi, v, t)
    <3>1. table \in Seq(Rule) /\ j \in 1 .. Len(table)
      BY <2>2, <2>3
    <3>2. table[j] \in Rule
      BY <3>1
    <3>3. table[j].hi \in Bound
      BY <3>2 DEF Rule
    <3>4. v \in Int /\ w \in Int /\ t \in Int
      BY <2>2, <2>3
    <3> QED
      BY <2>3, <2>4, <3>3, <3>4, BelowHiMonotone DEF InBand
  <2>6. PICK k \in 1 .. j : InBand(table[k], v, t)
    BY <2>2, <2>3, <2>5, BandUpTo
  <2>7. k \in Stops(table, v, t)
    BY <2>2, <2>3, <2>6, BandStops
  <2>8. i <= k
    BY <2>2, <2>7, FirstStopIsFirst
  <2> QED
    BY <2>2, <2>3, <2>6, <2>8
<1>2. IInv => RowIsFirstStop
  BY AnswerFacts
<1> QED
  BY <1>1, <1>2, ServiceInvariant, PTL DEF Spec, LargerIsNoMilder
=============================================================================
