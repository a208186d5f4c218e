---------------------------- MODULE MCRuleEngine ----------------------------
(* Decision tables of up to three rows for TLC. *)
EXTENDS RuleEngine

\* The constants 0 and 2, the tolerance and three times the tolerance.
MCOperands == {Zero, [coeff |-> 0, konst |-> 2], Times(1), Times(3)}
MCBounds   == {Unbounded} \cup {Inclusive(o) : o \in MCOperands}
                          \cup {Exclusive(o) : o \in MCOperands}
Row(a, b)  == [lo |-> a, hi |-> b, exceeds |-> TRUE]

\* No table, every table of one row, every way two or three rows may meet, the
\* ends that validate_coverage refuses, and the table in the repository.
MCTables == UNION {
    {<<>>, Shipped},
    {<<Row(a, b)>> : a, b \in MCBounds},
    {<<Row(a, b), Row(c, d)>> : a \in {Inclusive(Zero), Exclusive(Zero)}, b, c \in MCBounds,
                                d \in {Unbounded, Inclusive(Times(3))}},
    {<<Row(Inclusive(Zero), a), Row(b, c), Row(d, Unbounded)>> : a, b, c, d \in MCBounds}}

\* An integer wide enough for some bounds and too narrow for others.
MCMaxInt    == 8
MCVariance  == -9 .. 8
MCTolerance == 0 .. 4
=============================================================================
