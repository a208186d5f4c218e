------------------------------- MODULE Linker -------------------------------
(***************************************************************************)
(* The cross-linking algorithm (agent-runtime/graph/link.py): which groups *)
(* of an invoice side, a bank side and a GL side are candidates, which of  *)
(* several candidates for the same legs survives, and what becomes of it.  *)
(* The verification tier's variance (verification/src/decimal_math) is     *)
(* stated next to the linker's own notion of exactness.                    *)
(*                                                                         *)
(* Entities are ids of extracted_entities; Row[e] is the row: its document,*)
(* type, amount in signed cents, date as a day, name and whether it is     *)
(* void.  Jaro-Winkler similarity is a table of percentages.  Scores are   *)
(* compared as fractions, not floats.                                      *)
(***************************************************************************)
EXTENDS Integers, FiniteSets, FiniteSetsExt

CONSTANTS
    ExtractedEntities,  \* the rows of that table by id
    Tolerance,      \* the book's tolerance_cents
    AutoLink,       \* auto_link_threshold, in percent
    ReviewFloor,    \* review_floor, in percent
    MaxGroupSize,   \* MAX_GROUP_SIZE
    DateWindow,     \* DATE_WINDOW_DAYS
    Lookback,       \* INVOICE_LOOKBACK_DAYS
    NameFloor,      \* COUNTERPARTY_THRESHOLD, in percent
    MismatchRatio,  \* MISMATCH_RATIO, in percent
    Similarity,     \* Similarity[n, m] of two names, in percent
    NoName          \* the empty counterparty

ASSUME ToleranceAssumption == Tolerance \in Nat
ASSUME WindowAssumption    == DateWindow \in Nat \ {0} /\ Lookback \in Nat /\ DateWindow <= Lookback
ASSUME PercentAssumption   == {AutoLink, ReviewFloor, NameFloor, MismatchRatio} \subseteq 0 .. 100

Row == ExtractedEntities

Magnitude(n) == IF n < 0 THEN -n ELSE n
Larger(m, n) == IF m >= n THEN m ELSE n

\* Signs are a convention of the side an amount is booked on.
Gap(m, n) == Magnitude(Magnitude(m) - Magnitude(n))

AmountsMatch(m, n) == Gap(m, n) <= Tolerance

\* A payment never precedes its invoice; the tight window lies in the lookback.
DatesMatch(a, b) == Row[b].date - Row[a].date \in 0 .. Lookback

NamesMatch(a, b) == Similarity[Row[a].name, Row[b].name] >= NameFloor

Total(S) == MapThenSumSet(LAMBDA e : Row[e].amount, S)

\* Days between the first and the last of some entities.
Spread(S) == IF S = {} THEN 0 ELSE Max({Row[e].date : e \in S}) - Min({Row[e].date : e \in S})

-----------------------------------------------------------------------------
(* build_candidate_groups.                                                 *)

Candidate(p, I, B, G) == [pass |-> p, inv |-> I, bank |-> B, gl |-> G]

Combos(S) == {T \in SUBSET S : Cardinality(T) \in 2 .. MaxGroupSize}

\* One invoice, one bank line, one GL line.  Nothing compares bank with GL.
OneToOne(I, B, G) ==
    {Candidate(1, {t[1]}, {t[2]}, {t[3]}) : t \in {u \in I \X B \X G :
        \A leg \in {u[2], u[3]} : /\ DatesMatch(u[1], leg)
                                  /\ NamesMatch(u[1], leg)
                                  /\ AmountsMatch(Row[u[1]].amount, Row[leg].amount)}}

\* One bank line that pays several invoices.
ManyToOne(I, B, G) ==
    {Candidate(2, t[1], {t[2]}, {t[3]}) : t \in {u \in Combos(I) \X B \X G :
        /\ \A i \in u[1] : DatesMatch(i, u[2]) /\ NamesMatch(i, u[2])
        /\ \A leg \in {u[2], u[3]} : AmountsMatch(Total(u[1]), Row[leg].amount)}}

\* One invoice paid by several bank lines, close to each other in time.
OneToMany(I, B, G) ==
    {Candidate(3, {t[1]}, t[2], {t[3]}) : t \in {u \in I \X Combos(B) \X G :
        /\ \A b \in u[2] : NamesMatch(u[1], b)
        /\ Spread(u[2]) <= DateWindow
        /\ \A leg \in {u[1], u[3]} : AmountsMatch(Total(u[2]), Row[leg].amount)}}

Related(b, g) == DatesMatch(b, g) /\ NamesMatch(b, g)

\* Deposits and fees: no invoice.
NoInvoice(B, G) ==
    {Candidate(4, {}, {t[1]}, {t[2]}) : t \in {u \in B \X G :
        Related(u[1], u[2]) /\ AmountsMatch(Row[u[1]].amount, Row[u[2]].amount)}}

\* The same transaction with different amounts, near enough for a posting error.
Mismatch(b, g) ==
    LET x == Magnitude(Row[b].amount)
        y == Magnitude(Row[g].amount)
    IN  /\ ~AmountsMatch(Row[b].amount, Row[g].amount)
        /\ Related(b, g)
        /\ x # 0 /\ y # 0
        /\ 100 * Gap(Row[b].amount, Row[g].amount) <= MismatchRatio * Larger(x, y)

\* With every invoice that agrees with the bank line.
Mismatches(I, B, G) ==
    {Candidate(5, {i \in I : /\ DatesMatch(i, t[1])
                             /\ NamesMatch(i, t[1])
                             /\ AmountsMatch(Row[i].amount, Row[t[1]].amount)}, {t[1]}, {t[2]}) :
        t \in {u \in B \X G : Mismatch(u[1], u[2])}}

Candidates(I, B, G) ==
    OneToOne(I, B, G) \cup ManyToOne(I, B, G) \cup OneToMany(I, B, G)
        \cup NoInvoice(B, G) \cup Mismatches(I, B, G)

-----------------------------------------------------------------------------
(* _deduplicate_candidates: by bank and GL legs.                           *)

SameKey(c, d) == c.bank = d.bank /\ c.gl = d.gl

\* d takes the place of c: more invoices, or as many and built by an earlier pass.
Displaces(d, c) ==
    /\ SameKey(c, d)
    /\ \/ Cardinality(d.inv) > Cardinality(c.inv)
       \/ Cardinality(d.inv) = Cardinality(c.inv) /\ d.pass < c.pass

Undisplaced(C) == {c \in C : \A d \in C : ~Displaces(d, c)}

\* One candidate per key; the order within a pass is the order of the rows.
Deduplicated(C) ==
    {D \in SUBSET Undisplaced(C) :
        /\ \A c \in C : \E d \in D : SameKey(c, d)
        /\ \A c, d \in D : SameKey(c, d) => c = d}

-----------------------------------------------------------------------------
(* score_and_route.                                                        *)

Role == {"inv", "bank", "gl"}

\* A leg is present when it has members, whatever they add up to.
Legs(c)   == {r \in Role : c[r] # {}}
Totals(c) == [r \in Role |-> Total(c[r])]

\* Mutant: every leg is compared with the first one only.
ExactStar(c) ==
    LET first == IF "inv" \in Legs(c) THEN "inv" ELSE "bank"
    IN  \A r \in Legs(c) : AmountsMatch(Totals(c)[first], Totals(c)[r])

\* Every two present legs agree within tolerance.
Exact(c) ==
    /\ Legs(c) \notin {{}} \cup {{r} : r \in Role}
    /\ \A r, s \in Legs(c) : r # s => AmountsMatch(Totals(c)[r], Totals(c)[s])

\* What the verification tier computes for the group, with an absent leg left out.
LegGap(c, r, s) == IF {r, s} \subseteq Legs(c) THEN Gap(Totals(c)[r], Totals(c)[s]) ELSE 0
MaxVariance(c) ==
    Larger(LegGap(c, "inv", "bank"), Larger(LegGap(c, "inv", "gl"), LegGap(c, "bank", "gl")))

\* The three terms of the score of a candidate that is not exact, as fractions.
AmountScore(c) ==
    LET pairs == IF Legs(c) = Role THEN 3 ELSE 1
        most  == Max({Magnitude(Totals(c)[r]) : r \in Legs(c)})
        gaps  == LegGap(c, "inv", "bank") + LegGap(c, "inv", "gl") + LegGap(c, "bank", "gl")
    IN  IF most = 0 THEN <<0, 1>> ELSE <<Larger(0, pairs * most - gaps), pairs * most>>

DateScore(c) ==
    <<Larger(0, DateWindow - Spread(c.inv \cup c.bank \cup c.gl)), DateWindow>>

NameScore(c) ==
    LET named == {e \in c.inv \cup c.bank \cup c.gl : Row[e].name # NoName}
        pairs == {p \in SUBSET named : Cardinality(p) = 2}
        Alike(p) == LET e == CHOOSE x \in p : TRUE
                        f == CHOOSE x \in p : x # e
                    IN  Similarity[Row[e].name, Row[f].name]
    IN  IF pairs = {} THEN <<0, 1>>
        ELSE <<MapThenSumSet(Alike, pairs), 100 * Cardinality(pairs)>>

\* 0.5 amount + 0.2 date + 0.3 name, against h percent; an exact candidate scores 1.
ScoresAtLeast(c, h) ==
    LET a == AmountScore(c)
        d == DateScore(c)
        n == NameScore(c)
    IN  \/ Exact(c)
        \/ 50 * a[1] * d[2] * n[2] + 20 * d[1] * a[2] * n[2] + 30 * n[1] * a[2] * d[2]
             >= h * a[2] * d[2] * n[2]

\* A mismatch always goes to a person; nothing is linked on confidence alone.
Route(c) ==
    IF c.pass = 5 THEN "needs_review"
    ELSE IF Exact(c) /\ ScoresAtLeast(c, AutoLink) THEN "auto_linked"
    ELSE IF ScoresAtLeast(c, ReviewFloor) THEN "needs_review"
    ELSE "unmatched"

-----------------------------------------------------------------------------
(* cross_link.                                                             *)

OfType(S, t) == {e \in S : Row[e].type = t}

\* With a document type missing the pass ends before it builds anything.
Built(S) ==
    LET I == OfType(S, "invoice_line_item")
        B == OfType(S, "bank_transaction")
        G == OfType(S, "gl_entry")
        Live(T) == {e \in T : ~Row[e].void}
    IN  IF {} \in {I, B, G} THEN {} ELSE Candidates(Live(I), Live(B), Live(G))

\* Mutant: what is not worth a review is returned all the same.
EveryPlan(S) == Deduplicated(Built(S))

\* The sets of groups a pass over the entities S may return.
Plans(S) == {{c \in D : Route(c) # "unmatched"} : D \in Deduplicated(Built(S))}
=============================================================================
